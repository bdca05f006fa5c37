------------------------------ MODULE Backtest ------------------------------
(***************************************************************************)
(* The event loop of the backtester, over the whole window or over one     *)
(* fold of a walk-forward evaluation: day by day, what was ordered is      *)
(* filled at the open, positions are managed against the bar and their     *)
(* ratchet is fed, and new entries are considered for the next open.       *)
(*                                                                         *)
(* Which symbol has a bar on which day is chosen in the beginning, and the *)
(* bars as they come.  Levels are in hundredths of a price.                *)
(***************************************************************************)
EXTENDS Signals, Sequences, FiniteSets, FiniteSetsExt

CONSTANTS
  NumSymbols,  \* symbols are 1..NumSymbols, in the order of the features
  Days,
  NumFolds,
  Prices,
  Ratchet,     \* risk_limits.yaml: the ratchet block of each strategy
  Atr,
  MaxOpen,     \* max_open_positions
  NoShorts,    \* symbols that may not be shorted
  None

Symbols == 1..NumSymbols

\* A percentage of 0 is refused when the configuration is loaded; step 0 is
\* a step that is not configured.
Percentage == Nat \ {0}
Percent == [kind : {"percent"}, initial : 1..100, trigger : Percentage \cup {None},
            lock : Percentage \cup {None}, step : Nat, target : Percentage \cup {None}]
AtrKind == [kind : {"atr"}, initial : Percentage, trail : Percentage, target : {None}]

Position ==
  [strategy : Strategies, dir : Dirs, entry : Nat, entered : Nat,
   extreme : Nat, stop : Int, target : Int \cup {None}, best : Nat]

ASSUME BacktestAssumption ==
  /\ NumSymbols \in Nat \ {0} /\ Days \in Nat \ {0} /\ NumFolds \in Nat \ {0, 1}
  /\ Prices \subseteq Nat \ {0}
  /\ Ratchet \in [Strategies -> Percent \cup AtrKind]
  /\ MaxOpen \in Nat \ {0} /\ Atr \in Nat
  /\ None \notin Position

VARIABLES
  bars,      \* the days each symbol has a bar on
  window,    \* entries_start, and the day the frames are truncated at
  today,
  at,        \* where in the day: <<"manage", s>> or <<"enter", s>>
  positions,
  pending    \* orders to fill at the symbol's next open

vars == <<bars, window, today, at, positions, pending>>

(***************************************************************************)
(* Folds of the window: contiguous, and their sizes differ by at most one. *)
(***************************************************************************)
AllDates(b) == UNION {b[s] : s \in Symbols}

\* The dates of the i-th fold are those after the first Before(i - 1) ones.
Before(n, i) == LET k == n \div NumFolds
                    m == n % NumFolds
                IN i * k + (IF i < m THEN i ELSE m)

Rank(D, d) == Cardinality({e \in D : e <= d})

FoldDates(D, i) ==
  {d \in D : Rank(D, d) \in Before(Cardinality(D), i - 1) + 1 .. Before(Cardinality(D), i)}

Folds(b) ==
  LET D == AllDates(b)
  IN IF Cardinality(D) < 2 * NumFolds THEN {}
     ELSE {[start |-> Min(FoldDates(D, i)), end |-> Max(FoldDates(D, i))] : i \in 1..NumFolds}

Init ==
  /\ bars \in [Symbols -> SUBSET (1..Days) \ {{}}]
  /\ window \in {[start |-> 1, end |-> Days]} \cup Folds(bars)
  /\ today = 1
  /\ at = <<"manage", 1>>
  /\ positions = [s \in Symbols |-> None]
  /\ pending = [s \in Symbols |-> None]

Frame(s) == {d \in bars[s] : d <= window.end}

HasBar(s) == today \in Frame(s)

\* Mutant of LastBar: only the end of the window closes.
LastDay(s) == today = window.end

LastBar(s) == today = Max(Frame(s))

(***************************************************************************)
(* The ratchet.  A level is at least as protective the further it is in    *)
(* the direction of the trade.                                             *)
(***************************************************************************)
Better(d, a, b) == IF d * a >= d * b THEN a ELSE b

InitialStop(params, entry, d) ==
  IF params.kind = "percent" THEN entry * (100 - d * params.initial)
  ELSE entry * 100 - d * params.initial * Atr

Trigger(params, entry, d) == entry * (100 + d * params.trigger)

\* The percentages locked in: nothing until the trigger.
LockedFloor(pos, extreme) ==
  LET params  == Ratchet[pos.strategy]
      advance == pos.dir * (100 * extreme - Trigger(params, pos.entry, pos.dir))
      step    == pos.entry * params.step
      steps   == IF step > 0 THEN advance \div step ELSE 0
  IN IF params.trigger = None \/ params.lock = None THEN {}
     ELSE IF advance < 0 THEN {}
     ELSE {params.lock + steps * params.step}

Candidates(pos, extreme) ==
  LET params == Ratchet[pos.strategy]
  IN IF params.kind = "percent"
     THEN {pos.entry * (100 + pos.dir * f) : f \in LockedFloor(pos, extreme)}
     ELSE {100 * extreme - pos.dir * params.trail * Atr}

\* Mutant of Extreme: the high-water mark of a short as well.
HighWater(pos, close) == Better(1, pos.extreme, close)

Extreme(pos, close) == Better(pos.dir, pos.extreme, close)

Update(pos, close) ==
  LET extreme == Extreme(pos, close)
  IN [pos EXCEPT !.extreme = extreme,
                 !.stop = IF \E c \in Candidates(pos, extreme) : pos.dir * c > pos.dir * @
                          THEN CHOOSE c \in Candidates(pos, extreme) : TRUE ELSE @,
                 !.best = Better(pos.dir, @, close)]

(***************************************************************************)
(* Fills and exits                                                         *)
(***************************************************************************)
Target(params, entry, d) ==
  IF params.target = None THEN None ELSE entry * (100 + d * params.target)

\* best: history, the best close since the entry.
Fill(s, price) ==
  LET order  == pending[s]
      params == Ratchet[order.strategy]
  IN [strategy |-> order.strategy, dir |-> order.dir, entry |-> price, entered |-> today,
      extreme |-> price, stop |-> InitialStop(params, price, order.dir),
      target |-> Target(params, price, order.dir), best |-> price]

Bars == {b \in [open : Prices, low : Prices, high : Prices, close : Prices] :
           /\ b.low <= b.open /\ b.open <= b.high
           /\ b.low <= b.close /\ b.close <= b.high}

Reached(level, b, d) == 100 * (IF d = 1 THEN b.high ELSE b.low) * d >= level * d

StopHit(pos, b)   == Reached(pos.stop, b, -pos.dir)
TargetHit(pos, b) == pos.target # None /\ Reached(pos.target, b, pos.dir)

\* Exits first, else the stop is raised.
Managed(s, pos, b, exits) ==
  IF StopHit(pos, b) \/ TargetHit(pos, b) \/ exits \/ LastBar(s) THEN None
  ELSE Update(pos, b.close)

NextAt(a) ==
  IF a[2] < NumSymbols THEN <<a[1], a[2] + 1>>
  ELSE IF a[1] = "manage" THEN <<"enter", 1>> ELSE <<"manage", 1>>

Advance ==
  /\ at' = NextAt(at)
  /\ today' = IF at = <<"enter", NumSymbols>> THEN today + 1 ELSE today
  /\ UNCHANGED <<bars, window>>

\* The fill at today's open and the management of one symbol.  The fills of
\* all symbols come first in the code; they do not depend on each other.
Manage(s) ==
  /\ today <= window.end
  /\ at = <<"manage", s>>
  /\ HasBar(s)
  /\ pending' = [pending EXCEPT ![s] = None]
  /\ \E b \in Bars :
       LET pos == IF pending[s] # None THEN Fill(s, b.open) ELSE positions[s]
       IN IF pos = None THEN UNCHANGED positions
          ELSE \E exits \in {FALSE} \cup {leave = <<pos.strategy, pos.dir>> : leave \in Exits} :
                 positions' = [positions EXCEPT ![s] = Managed(s, pos, b, exits)]
  /\ Advance

Held    == {s \in Symbols : positions[s] # None}
Ordered == {s \in Symbols : pending[s] # None}

\* Mutant of Full: what is ordered does not take a slot yet.
FullOfPositions == Cardinality(Held) >= MaxOpen

Full == Cardinality(Held) + Cardinality(Ordered) >= MaxOpen

\* Before entries_start nothing is entered.
Considered(s) ==
  /\ today >= window.start
  /\ s \notin Held \cup Ordered
  /\ HasBar(s)
  /\ ~Full

\* The regime, the setup, the sentiment gate and the risk gate, any of which
\* may leave it at that.
Enter(s) ==
  /\ today <= window.end
  /\ at = <<"enter", s>>
  /\ Considered(s)
  /\ \E sig \in Entries :
       /\ sig.dir = -1 => s \notin NoShorts
       /\ pending' = [pending EXCEPT ![s] = sig]
  /\ UNCHANGED positions
  /\ Advance

Pass(s) ==
  /\ today <= window.end
  /\ at = <<"enter", s>> \/ (at = <<"manage", s>> /\ ~HasBar(s))
  /\ UNCHANGED <<positions, pending>>
  /\ Advance

Next == \E s \in Symbols : Manage(s) \/ Enter(s) \/ Pass(s)

Spec == Init /\ [][Next]_vars

(***************************************************************************)
(* Parts of an inductive invariant                                         *)
(***************************************************************************)
TypeOK ==
  /\ bars \in [Symbols -> SUBSET (1..Days)]
  /\ window \in [start : Nat, end : Nat] /\ today \in Nat
  /\ at \in {"manage", "enter"} \X Symbols
  /\ positions \in [Symbols -> Position \cup {None}]
  /\ pending \in [Symbols -> Entries \cup {None}]

\* Managed on the day it is.
ManagedToday(s) == at[1] = "enter" \/ s < at[2]

\* An order is given from entries_start on and is filled on a later day.
OrdersInFold ==
  \A s \in Ordered : today >= window.start /\ (at[1] = "manage" => today > window.start)

\* What is open has a bar left in the window, after today once it is managed:
\* on the last one it would have been closed.
PositionsInFold ==
  \A s \in Held :
    /\ positions[s].entered > window.start
    /\ \E d \in Frame(s) : d >= today /\ (ManagedToday(s) => d > today)

\* Where the ratchet of a position stands after its update: the extreme it
\* keeps is the best close, and the stop is not behind what that offers.
RatchetsFed ==
  \A s \in Held :
    LET pos == positions[s]
    IN /\ pos.best = pos.extreme
       /\ \A c \in Candidates(pos, pos.extreme) : pos.dir * pos.stop >= pos.dir * c

IInv == TypeOK /\ OrdersInFold /\ PositionsInFold /\ RatchetsFed

(***************************************************************************)
(* Properties                                                              *)
(***************************************************************************)
\* A run only trades within its window: what is open was entered after
\* entries_start, and is not open beyond the end of the window or the last bar
\* of its symbol, so that every entry is counted as a trade, also where a
\* symbol stops trading.
FoldIsolated ==
  \A s \in Held :
    /\ positions[s].entered > window.start
    /\ today <= window.end
    /\ \E d \in bars[s] : d >= today

\* Positions and the orders that will become positions share the slots, over
\* fills and exits of other days.
SlotsBounded == Cardinality(Held) + Cardinality(Ordered) <= MaxOpen

\* The stop is never behind what the best close since the entry has earned,
\* for longs and shorts: each full step past the trigger locks as much again.
StopFollowsBest ==
  \A s \in Held :
    LET pos    == positions[s]
        params == Ratchet[pos.strategy]
        ahead(level) == pos.dir * pos.stop >= pos.dir * level
    IN IF params.kind = "atr" THEN ahead(100 * pos.best - pos.dir * params.trail * Atr)
       ELSE params.trigger # None /\ params.lock # None =>
              \A k \in 0..3 :
                100 * pos.best * pos.dir >= pos.entry * (100 + pos.dir * (params.trigger + k * params.step)) * pos.dir
                => ahead(pos.entry * (100 + pos.dir * (params.lock + k * params.step)))

\* Trend following and breakouts do not enter where they would leave at once.
\* Mean reversion may: the stretch may be some bars old and already reverted.
NotSpent == \A s \in Ordered : pending[s].spent => pending[s].strategy = "mean_reversion"
=============================================================================
