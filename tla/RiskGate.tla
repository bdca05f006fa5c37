------------------------------ MODULE RiskGate ------------------------------
(***************************************************************************)
(* The risk gate (RiskManager.evaluate) and the three paths that go        *)
(* through it: the entries of a scheduled cycle, the proposals of a        *)
(* propose cycle and of discovery, and the phone's /buy and approve.       *)
(*                                                                         *)
(* The gate is a function of an exposure its caller sums up; the question  *)
(* is whether the caps hold of the positions that result, over the entries *)
(* of a cycle and over all paths.  Order and failure of the broker calls   *)
(* are those of OrderLifecycle; here an entry is recorded, with some of    *)
(* its shares filled, or its record is lost.  The lock holders run one at  *)
(* a time.  A cycle that ends without a save leaves the records it found,  *)
(* as if it had not run, and is left out.                                  *)
(*                                                                         *)
(* Prices are whole numbers and sides are long: the gate uses distances.   *)
(***************************************************************************)
EXTENDS Integers, FiniteSets, FiniteSetsExt

CONSTANTS
  Symbols,
  History,       \* symbols with price history enough to correlate
  Correlated,    \* pairs {s, t} at or above correlated_risk_threshold
  Prices,
  Levels,        \* levels a ratchet may move a stop to
  StopPct,       \* initial_stop_pct
  RiskBudget,    \* equity * per_strategy_risk_pct
  Budgets,       \* the same, scaled by an intent's confidence
  BuyingPowers,
  MaxPosition,   \* equity * max_position_pct
  MaxOpen,       \* max_open_positions
  MaxOpenRisk, MaxCorrRisk, MaxGross

Distance(p) == (p * StopPct) \div 100

ASSUME CapsAssumption ==
  /\ IsFiniteSet(Symbols)
  /\ History \subseteq Symbols
  /\ Prices \subseteq Nat \ {0}
  /\ Levels \subseteq Nat
  /\ \A p \in Prices : Distance(p) \in 1..(p - 1)
  /\ RiskBudget \in Nat
  /\ Budgets \subseteq 0..RiskBudget
  /\ BuyingPowers \subseteq Nat
  /\ {MaxPosition, MaxOpen, MaxOpenRisk, MaxCorrRisk, MaxGross} \subseteq Nat

VARIABLES
  rec,     \* positions[symbol], in memory and in positions.json
  prop,    \* the proposal waiting for each symbol
  phase,   \* of the lock holder: "off", "manage" or "enter"
  mode,
  seen,    \* open_positions, listed once before the loop over symbols
  known,   \* keys of correlation_closes
  todo     \* symbols the loop has still to visit

vars == <<rec, prop, phase, mode, seen, known, todo>>

(***************************************************************************)
(* Records.  filled = 0 is PENDING_ENTRY.  stop is the ratchet's, cur is   *)
(* current_stop, the level of the order that rests.                        *)
(***************************************************************************)
\* A record remembers whether it was opened at the price the gate saw.
Paths == {"gated", "approved"}
NoRec == [qty |-> 0, filled |-> 0, entry |-> 0, stop |-> 0, cur |-> 0, via |-> "gated"]
NewRec(q, f, p, path) == [qty |-> q, filled |-> f, entry |-> p,
                          stop |-> p - Distance(p), cur |-> p - Distance(p), via |-> path]

NoProp == [qty |-> 0, price |-> 0, budget |-> 0]

Tracked == {s \in Symbols : rec[s].qty > 0}

TypeOK ==
  /\ rec \in [Symbols -> [qty : Nat, filled : Nat, entry : Nat, stop : Nat, cur : Nat, via : Paths]]
  /\ prop \in [Symbols -> [qty : Nat, price : Prices \cup {0}, budget : 0..RiskBudget]]
  /\ phase \in {"off", "manage", "enter"}
  /\ mode \in {"execute", "propose", "none"}
  /\ {seen, known, todo} \subseteq SUBSET Symbols

Init ==
  /\ rec = [s \in Symbols |-> NoRec]
  /\ prop = [s \in Symbols |-> NoProp]
  /\ phase = "off"
  /\ mode = "none"
  /\ seen = {} /\ known = {} /\ todo = {}

(***************************************************************************)
(* Exposure: filled_qty or qty, at cost, and at the ratchet's stop.        *)
(***************************************************************************)
Shares(s) == IF rec[s].filled > 0 THEN rec[s].filled ELSE rec[s].qty
RiskOf(s) == Shares(s) * (IF rec[s].entry > rec[s].stop THEN rec[s].entry - rec[s].stop
                                                        ELSE rec[s].stop - rec[s].entry)
CostOf(s) == Shares(s) * rec[s].entry

OpenRisk(S) == MapThenSumSet(RiskOf, S)
Gross(S)    == MapThenSumSet(CostOf, S)

CorrelatedWith(s, S) == {t \in S : {s, t} \in Correlated}

\* size_position: the risk of the trade, its cost, and the buying power.
Sized(q, price, budget, bp) ==
  /\ q * Distance(price) <= budget
  /\ q * price <= MaxPosition
  /\ q * price <= bp

\* Mutants of Fits: the risk budget of the trade is left out of the least cap;
\* gross exposure is that of the entry alone.
FitsAnyTradeRisk(q, open, correlated, price, budget, bp) ==
  /\ q * price <= MaxPosition
  /\ q * price <= bp
  /\ OpenRisk(open) + q * Distance(price) <= MaxOpenRisk
  /\ OpenRisk(correlated) + q * Distance(price) <= MaxCorrRisk
  /\ Gross(open) + q * price <= MaxGross

FitsGrossAlone(q, open, correlated, price, budget, bp) ==
  /\ Sized(q, price, budget, bp)
  /\ OpenRisk(open) + q * Distance(price) <= MaxOpenRisk
  /\ OpenRisk(correlated) + q * Distance(price) <= MaxCorrRisk
  /\ q * price <= MaxGross

\* The caller of the gate names the positions it listed, and those of them it
\* could correlate with the symbol.
Fits(q, open, correlated, price, budget, bp) ==
  /\ Sized(q, price, budget, bp)
  /\ OpenRisk(open) + q * Distance(price) <= MaxOpenRisk
  /\ OpenRisk(correlated) + q * Distance(price) <= MaxCorrRisk
  /\ Gross(open) + q * price <= MaxGross

\* evaluate approves the whole number of shares that is the least of the
\* floors: the greatest q that fits every cap.
Approves(q, open, correlated, price, budget, bp) ==
  /\ Cardinality(open) < MaxOpen
  /\ q > 0
  /\ Fits(q, open, correlated, price, budget, bp)
  /\ ~Fits(q + 1, open, correlated, price, budget, bp)

(***************************************************************************)
(* The scheduled cycle up to the entries: settle, reconcile, stops, exits. *)
(***************************************************************************)
StartCycle ==
  /\ phase = "off"
  /\ phase' = "manage"
  /\ mode' \in {"execute", "propose"}
  /\ UNCHANGED <<rec, prop, seen, known, todo>>

\* The first fill seen; what fills later raises and is never recorded.
SettleFill(s) ==
  /\ phase = "manage"
  /\ mode = "execute"
  /\ rec[s].qty > 0 /\ rec[s].filled = 0
  /\ \E f \in 1..rec[s].qty : rec' = [rec EXCEPT ![s].filled = f]
  /\ UNCHANGED <<prop, phase, mode, seen, known, todo>>

\* Dead entries and signal exits in execute mode, auto-closes in any.
Drop(s) ==
  /\ phase = "manage"
  /\ rec[s].qty > 0
  /\ mode = "execute" \/ rec[s].filled > 0
  /\ rec' = [rec EXCEPT ![s] = NoRec]
  /\ UNCHANGED <<prop, phase, mode, seen, known, todo>>

\* The ratchet advances in every mode; the order that rests follows it only in
\* execute mode and when the replace succeeds.
RaiseStop(s) ==
  /\ phase = "manage"
  /\ rec[s].qty > 0 /\ rec[s].filled > 0
  /\ \E lvl \in Levels :
       LET new == IF lvl > rec[s].stop THEN lvl ELSE rec[s].stop
       IN \/ rec' = [rec EXCEPT ![s].stop = new]
          \/ /\ mode = "execute"
             /\ new > rec[s].cur
             /\ rec' = [rec EXCEPT ![s].stop = new, ![s].cur = new]
  /\ UNCHANGED <<prop, phase, mode, seen, known, todo>>

\* Mutant of BeginEntries: symbols that have a record are considered again.
BeginAll ==
  /\ phase = "manage"
  /\ phase' = "enter"
  /\ seen' = Tracked
  /\ known' = Tracked \cap History
  /\ todo' = Symbols
  /\ UNCHANGED <<rec, prop, mode>>

BeginEntries ==
  /\ phase = "manage"
  /\ phase' = "enter"
  /\ seen' = Tracked
  /\ known' = Tracked \cap History
  /\ todo' = Symbols \ Tracked
  /\ UNCHANGED <<rec, prop, mode>>

(***************************************************************************)
(* _consider_entry.                                                        *)
(***************************************************************************)
\* no setup, stale, blocked, vetoed, or shadow
Skip(s) ==
  /\ phase = "enter"
  /\ s \in todo
  /\ todo' = todo \ {s}
  /\ UNCHANGED <<rec, prop, phase, mode, seen, known>>

CorrelatedKnown(s) == IF s \in History THEN CorrelatedWith(s, known) ELSE {}

\* Mutants of Enter: the entry is not added to open_positions; its closes are
\* not added to correlation_closes.
EnterUnseen(s) ==
  /\ phase = "enter" /\ mode = "execute"
  /\ s \in todo
  /\ \E p \in Prices, b \in Budgets, bp \in BuyingPowers, q \in 1..MaxPosition :
       /\ Approves(q, seen, CorrelatedKnown(s), p, b, bp)
       /\ \E f \in 0..q : rec' = [rec EXCEPT ![s] = NewRec(q, f, p, "gated")]
  /\ todo' = todo \ {s}
  /\ UNCHANGED <<prop, phase, mode, seen, known>>

EnterUncorrelated(s) ==
  /\ phase = "enter" /\ mode = "execute"
  /\ s \in todo
  /\ \E p \in Prices, b \in Budgets, bp \in BuyingPowers, q \in 1..MaxPosition :
       /\ Approves(q, seen, CorrelatedKnown(s), p, b, bp)
       /\ \E f \in 0..q : rec' = [rec EXCEPT ![s] = NewRec(q, f, p, "gated")]
  /\ seen' = seen \cup {s}
  /\ todo' = todo \ {s}
  /\ UNCHANGED <<prop, phase, mode, known>>

Enter(s) ==
  /\ phase = "enter" /\ mode = "execute"
  /\ s \in todo
  /\ \E p \in Prices, b \in Budgets, bp \in BuyingPowers, q \in 1..MaxPosition :
       /\ Approves(q, seen, CorrelatedKnown(s), p, b, bp)
       /\ \E f \in 0..q : rec' = [rec EXCEPT ![s] = NewRec(q, f, p, "gated")]
  /\ seen' = seen \cup {s}
  /\ known' = known \cup ({s} \cap History)
  /\ todo' = todo \ {s}
  /\ UNCHANGED <<prop, phase, mode>>

Propose(s) ==
  /\ phase = "enter" /\ mode = "propose"
  /\ s \in todo
  /\ \E p \in Prices, b \in Budgets, bp \in BuyingPowers, q \in 1..MaxPosition :
       /\ Approves(q, seen, CorrelatedKnown(s), p, b, bp)
       /\ prop' = [prop EXCEPT ![s] = [qty |-> q, price |-> p, budget |-> b]]
  /\ todo' = todo \ {s}
  /\ UNCHANGED <<rec, phase, mode, seen, known>>

EndCycle ==
  /\ phase # "off"
  /\ phase' = "off"
  /\ mode' = "none"
  /\ seen' = {} /\ known' = {} /\ todo' = {}
  /\ UNCHANGED <<rec, prop>>

(***************************************************************************)
(* Discovery (no lock) and the phone (under the lock).  Neither fills in   *)
(* correlated_open_risk_dollars.                                           *)
(***************************************************************************)
Discover(s) ==
  /\ \E p \in Prices, b \in Budgets, bp \in BuyingPowers, q \in 1..MaxPosition :
       /\ Approves(q, Tracked, {}, p, b, bp)
       /\ prop' = [prop EXCEPT ![s] = [qty |-> q, price |-> p, budget |-> b]]
  /\ UNCHANGED <<rec, phase, mode, seen, known, todo>>

Expire(s) ==
  /\ prop[s].qty > 0
  /\ prop' = [prop EXCEPT ![s] = NoProp]
  /\ UNCHANGED <<rec, phase, mode, seen, known, todo>>

\* /buy: trimmed to what was asked for.
Buy(s) ==
  /\ phase = "off"
  /\ s \notin Tracked
  /\ \E p \in Prices, bp \in BuyingPowers, q \in 1..MaxPosition :
       /\ Approves(q, Tracked, {}, p, RiskBudget, bp)
       /\ \E asked \in 1..q : \E f \in 0..asked :
            rec' = [rec EXCEPT ![s] = NewRec(asked, f, p, "gated")]
  /\ UNCHANGED <<prop, phase, mode, seen, known, todo>>

\* Gated at the proposal's price and stop, opened with a ratchet built at the
\* price of the moment.
Approve(s) ==
  /\ phase = "off"
  /\ s \notin Tracked
  /\ prop[s].qty > 0
  /\ \E now \in Prices, bp \in BuyingPowers, q \in 1..MaxPosition :
       /\ Approves(q, Tracked, {}, prop[s].price, prop[s].budget, bp)
       /\ \E f \in 0..Min({q, prop[s].qty}) :
            rec' = [rec EXCEPT ![s] = NewRec(Min({q, prop[s].qty}), f, now, "approved")]
  /\ prop' = [prop EXCEPT ![s] = NoProp]
  /\ UNCHANGED <<phase, mode, seen, known, todo>>

Close(s) ==
  /\ phase = "off"
  /\ s \in Tracked
  /\ rec' = [rec EXCEPT ![s] = NoRec]
  /\ UNCHANGED <<prop, phase, mode, seen, known, todo>>

Next ==
  \/ StartCycle \/ BeginEntries \/ EndCycle
  \/ \E s \in Symbols :
       \/ SettleFill(s) \/ Drop(s) \/ RaiseStop(s)
       \/ Skip(s) \/ Enter(s) \/ Propose(s)
       \/ Discover(s) \/ Expire(s) \/ Buy(s) \/ Approve(s) \/ Close(s)

Spec == Init /\ [][Next]_vars

(***************************************************************************)
(* Properties                                                              *)
(***************************************************************************)
\* Never more positions than max_open_positions, pending ones included, over
\* the entries of one cycle and over all paths.
WithinMaxOpen == Cardinality(Tracked) <= MaxOpen

\* The stop of a position, wherever it rests, costs at most the risk budget of
\* one trade: also after ratchets that no order followed, and when the whole
\* of a partly filled order fills.  Not so of approved proposals.
TradeRiskBounded ==
  \A s \in Symbols :
    rec[s].via # "approved" => rec[s].qty * (rec[s].entry - rec[s].cur) <= RiskBudget

\* Memory and the listing the gate sees agree while the loop runs.
LoopAgrees ==
  /\ phase = "enter" => seen = Tracked /\ todo \cap Tracked = {}
  /\ phase = "enter" => known = Tracked \cap History
  /\ phase # "enter" => seen = {} /\ todo = {}

IInv == TypeOK /\ LoopAgrees /\ WithinMaxOpen /\ TradeRiskBounded

Entered(s) == rec[s].qty = 0 /\ rec'[s].qty > 0

RiskAdded(s) == rec'[s].qty * (rec'[s].entry - rec'[s].stop)
CostAdded(s) == rec'[s].qty * rec'[s].entry

\* An entry at the price it was gated at, whether the first of a cycle or a
\* later one or a /buy, keeps the open risk and the gross exposure of all the
\* records within the caps.
EntriesWithinCaps ==
  [][\A s \in Symbols : Entered(s) /\ rec'[s].via # "approved" =>
       /\ OpenRisk(Tracked) + RiskAdded(s) <= MaxOpenRisk
       /\ Gross(Tracked) + CostAdded(s) <= MaxGross]_vars

\* The same of the risk in the symbol's correlated cluster, for the entries of
\* a cycle and as far as there is price history.
ClusterWithinCap ==
  [][\A s \in History : Entered(s) /\ phase = "enter" =>
       OpenRisk(CorrelatedWith(s, Tracked \cap History)) + RiskAdded(s) <= MaxCorrRisk]_vars

\* risk_limits.yaml: the sum of qty * |entry - stop| over all open positions,
\* enforced at entry time, on every path.
RiskEnforcedAtEntry ==
  [][\A s \in Symbols : Entered(s) => OpenRisk(Tracked) + RiskAdded(s) <= MaxOpenRisk]_vars
=============================================================================
