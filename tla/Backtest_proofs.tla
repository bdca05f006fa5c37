-------------------------- MODULE Backtest_proofs --------------------------
(***************************************************************************)
(* Slots, spent setups, folds and ratchets of the backtester, for any      *)
(* number of symbols, days and folds, any prices and any ratchets.         *)
(***************************************************************************)
EXTENDS Backtest, FiniteSetTheorems, WellFoundedInduction, TLAPS

(***************************************************************************)
(* Signals                                                                 *)
(***************************************************************************)
\* A trend or breakout entry is never taken on a bar its own exit is due on:
\* the close is beyond the 50 EMA on the side of the trade, not the other.
LEMMA EntryNotSpent ==
  ASSUME NEW sig \in Entries, sig.spent
  PROVE  sig.strategy = "mean_reversion"
  <1>1. PICK st \in Strategies, d \in Dirs :
          sig \in {[strategy |-> st, dir |-> d, spent |-> ShouldExit(st, v, d)] :
                     v \in {v \in View : Enters(st, v, d)}}
    BY DEF Entries
  <1>2. PICK v \in View :
          /\ Enters(st, v, d)
          /\ sig = [strategy |-> st, dir |-> d, spent |-> ShouldExit(st, v, d)]
    BY <1>1
  <1>3. sig.strategy = st /\ ShouldExit(st, v, d)
    BY <1>2
  <1>4. CASE st = "trend_following"
    <2>1. v.ema50 = d
      BY <1>2, <1>4 DEF Enters, Setup, TrendSetup
    <2>2. v.ema50 = -d
      BY <1>3, <1>4 DEF ShouldExit
    <2>3. QED
      BY <2>1, <2>2 DEF Dirs
  <1>5. CASE st = "breakout"
    BY <1>3, <1>5 DEF ShouldExit
  <1>6. QED
    BY <1>3, <1>4, <1>5 DEF Strategies

(***************************************************************************)
(* Slots                                                                   *)
(***************************************************************************)
Slots == Cardinality(Held) + Cardinality(Ordered)

BInv ==
  /\ DOMAIN positions = Symbols /\ DOMAIN pending = Symbols
  /\ positions = [s \in Symbols |-> positions[s]] /\ pending = [s \in Symbols |-> pending[s]]
  /\ \A s \in Ordered : pending[s] \in Entries
  /\ Slots <= MaxOpen

\* Symbols are finitely many, so slots are a number.
LEMMA SlotsFinite ==
  ASSUME NEW S \in SUBSET Symbols
  PROVE  IsFiniteSet(S) /\ Cardinality(S) \in Nat
  <1>1. IsFiniteSet(Symbols)
    BY BacktestAssumption, FS_Interval DEF Symbols
  <1>2. QED
    BY <1>1, FS_Subset, FS_CardinalityType

\* Managing a symbol turns its order into a position, or ends the position, or
\* does neither: it takes no further slot.
LEMMA ManageKeeps ==
  ASSUME BInv, NEW s \in Symbols, Manage(s)
  PROVE  BInv'
  <1>1. pending' = [pending EXCEPT ![s] = None]
    BY DEF Manage
  <1>2. /\ \/ positions' = positions
           \/ \E p : positions' = [positions EXCEPT ![s] = p]
        /\ pending[s] = None /\ positions[s] = None => positions' = positions
    BY DEF Manage
  <1>3. /\ DOMAIN positions' = Symbols /\ DOMAIN pending' = Symbols
        /\ positions' = [x \in Symbols |-> positions'[x]]
        /\ pending' = [x \in Symbols |-> pending'[x]]
    BY <1>1, <1>2 DEF BInv
  <1>4. Ordered' = Ordered \ {s}
    BY <1>1 DEF BInv, Ordered
  <1>5. Held' \subseteq Held \cup {s} /\ (s \notin Ordered => Held' \subseteq Held)
    BY <1>2 DEF BInv, Held, Ordered
  <1>6. Slots' <= Slots
    <2>1. /\ IsFiniteSet(Held) /\ IsFiniteSet(Ordered) /\ IsFiniteSet(Held')
          /\ Cardinality(Held) \in Nat /\ Cardinality(Ordered) \in Nat /\ Cardinality(Held') \in Nat
      BY SlotsFinite DEF Held, Ordered
    <2>2. CASE s \in Ordered
      <3>1. Cardinality(Ordered') = Cardinality(Ordered) - 1
        BY <1>4, <2>1, <2>2, FS_RemoveElement
      <3>2. IsFiniteSet(Held \cup {s}) /\ Cardinality(Held \cup {s}) <= Cardinality(Held) + 1
        <4>1. /\ IsFiniteSet(Held \cup {s})
              /\ s \in Held => Cardinality(Held \cup {s}) = Cardinality(Held)
              /\ s \notin Held => Cardinality(Held \cup {s}) = Cardinality(Held) + 1
          BY <2>1, FS_AddElement
        <4>2. QED
          BY <2>1, <4>1
      <3>3. Cardinality(Held') <= Cardinality(Held \cup {s})
        BY <1>5, <3>2, FS_Subset
      <3>4. Cardinality(Held \cup {s}) \in Nat
        BY <3>2, FS_CardinalityType
      <3>5. QED
        BY <2>1, <3>1, <3>2, <3>3, <3>4 DEF Slots
    <2>3. CASE s \notin Ordered
      <3>1. Ordered' = Ordered
        BY <1>4, <2>3
      <3>2. Cardinality(Held') <= Cardinality(Held)
        BY <1>5, <2>1, <2>3, FS_Subset
      <3>3. QED
        BY <2>1, <3>1, <3>2 DEF Slots
    <2>4. QED
      BY <2>2, <2>3
  <1>7. Slots \in Nat /\ Slots' \in Nat
    <2>1. Held \subseteq Symbols /\ Ordered \subseteq Symbols /\ Held' \subseteq Symbols /\ Ordered' \subseteq Symbols
      BY DEF Held, Ordered
    <2>2. QED
      BY <2>1, SlotsFinite DEF Slots
  <1>8. Slots' <= MaxOpen
    BY <1>6, <1>7, BacktestAssumption DEF BInv
  <1>9. \A x \in Ordered' : pending'[x] \in Entries
    BY <1>1, <1>4 DEF BInv, Ordered
  <1>10. QED
    BY <1>3, <1>8, <1>9 DEF BInv

\* An order is placed only while a slot is free.
LEMMA EnterKeeps ==
  ASSUME BInv, NEW s \in Symbols, Enter(s)
  PROVE  BInv'
  <1>1. PICK sig \in Entries : pending' = [pending EXCEPT ![s] = sig]
    BY DEF Enter
  <1>2. positions' = positions /\ ~Full
    BY DEF Enter, Considered
  <1>3. /\ DOMAIN pending' = Symbols
        /\ pending' = [x \in Symbols |-> pending'[x]]
        /\ \A x \in Ordered' : pending'[x] \in Entries
        /\ Ordered' \subseteq Ordered \cup {s}
    BY <1>1 DEF BInv, Ordered
  <1>4. Held' = Held
    BY <1>2 DEF Held
  <1>5. /\ IsFiniteSet(Ordered) /\ Cardinality(Held) \in Nat
        /\ Cardinality(Ordered) \in Nat /\ Cardinality(Ordered') \in Nat
    BY SlotsFinite DEF Held, Ordered
  <1>6. IsFiniteSet(Ordered \cup {s}) /\ Cardinality(Ordered \cup {s}) <= Cardinality(Ordered) + 1
    BY <1>5, FS_AddElement
  <1>7. Cardinality(Ordered') <= Cardinality(Ordered \cup {s})
    BY <1>3, <1>6, FS_Subset
  <1>8. Cardinality(Ordered \cup {s}) \in Nat
    BY <1>6, FS_CardinalityType
  <1>9. Slots' <= MaxOpen
    BY <1>2, <1>4, <1>5, <1>6, <1>7, <1>8, BacktestAssumption DEF Full, Slots
  <1>10. QED
    BY <1>2, <1>3, <1>9 DEF BInv

\* Nothing but these touches positions and orders.
LEMMA BStep ==
  ASSUME BInv, [Next]_vars
  PROVE  BInv'
  <1>1. CASE UNCHANGED <<positions, pending>>
    BY <1>1 DEF BInv, Slots, Held, Ordered
  <1>2. CASE UNCHANGED vars
    BY <1>1, <1>2 DEF vars
  <1>3. ASSUME NEW s \in Symbols, Pass(s)
        PROVE  BInv'
    BY <1>1, <1>3 DEF Pass
  <1>4. QED
    BY <1>2, <1>3, ManageKeeps, EnterKeeps DEF Next

\* A fold begins with no position and no order.
LEMMA BInitially == Init => BInv
  <1>1. SUFFICES ASSUME Init PROVE BInv
    OBVIOUS
  <1>2. Held = {} /\ Ordered = {}
    BY <1>1 DEF Init, Held, Ordered
  <1>3. Slots = 0
    BY <1>2, FS_EmptySet DEF Slots
  <1>4. QED
    BY <1>1, <1>2, <1>3, BacktestAssumption DEF Init, BInv

(***************************************************************************)
(* Least and greatest days                                                 *)
(***************************************************************************)
NatLess == {ss \in Nat \X Nat : ss[1] < ss[2]}

\* There is no endless descent in the natural numbers.
LEMMA NatLessWellFounded == IsWellFoundedOn(NatLess, Nat)
  BY NatLessThanWellFounded DEF NatLess, OpToRel

\* A set of natural numbers has a least one.
LEMMA Least ==
  ASSUME NEW S \in SUBSET Nat, S # {}
  PROVE  \E m \in S : \A n \in S : m <= n
  <1>1. PICK m \in S : \A n \in S : ~(<<n, m>> \in NatLess)
    BY NatLessWellFounded, WFMin
  <1>2. ASSUME NEW n \in S, n < m
        PROVE  <<n, m>> \in NatLess
    <2>1. <<n, m>> \in Nat \X Nat /\ <<n, m>>[1] < <<n, m>>[2]
      BY <1>2
    <2>2. QED
      BY <2>1 DEF NatLess
  <1>3. \A n \in S : ~(n < m)
    BY <1>1, <1>2
  <1>4. QED
    BY <1>3

\* A set of natural numbers with a bound has a greatest one.
LEMMA Greatest ==
  ASSUME NEW n \in Nat, NEW S \in SUBSET (1..n), S # {}
  PROVE  \E m \in S : \A x \in S : m >= x
  <1> DEFINE T == {n - x : x \in S}
  <1>1. T \in SUBSET Nat /\ T # {}
    <2>1. \A x \in S : n - x \in Nat
      OBVIOUS
    <2>2. QED
      BY <2>1
  <1>2. PICK l \in T : \A y \in T : l <= y
    BY <1>1, Least
  <1>3. PICK m \in S : l = n - m
    BY <1>2
  <1>4. \A x \in S : n - m <= n - x
    BY <1>2, <1>3
  <1>5. QED
    BY <1>4

\* What the helpers of the library return where there is something to return.
LEMMA MinMax ==
  ASSUME NEW n \in Nat, NEW S \in SUBSET (1..n), S # {}
  PROVE  /\ Min(S) \in S /\ Max(S) \in S
         /\ \A x \in S : x <= Max(S)
  <1>1. \E m \in S : \A x \in S : m <= x
    BY Least
  <1>2. \E m \in S : \A x \in S : m >= x
    BY Greatest
  <1>3. Min(S) \in S
    BY <1>1 DEF Min
  <1>4. Max(S) \in S /\ \A x \in S : Max(S) >= x
    BY <1>2 DEF Max
  <1>5. QED
    BY <1>3, <1>4

(***************************************************************************)
(* Folds                                                                   *)
(***************************************************************************)
\* Every rank is taken: the least day by which j dates have come is one of them.
LEMMA RankTaken ==
  ASSUME NEW D \in SUBSET (1..Days), NEW j \in 1..Cardinality(D)
  PROVE  \E d \in D : Rank(D, d) = j
  <1> DEFINE Upto(d) == {e \in D : e <= d}
             L == {d \in Nat : Rank(D, d) >= j}
  <1>1. IsFiniteSet(1..Days) /\ Days \in Nat
    BY BacktestAssumption, FS_Interval
  <1>2. IsFiniteSet(D) /\ Cardinality(D) \in Nat
    BY <1>1, FS_Subset, FS_CardinalityType
  <1>3. \A d \in Nat : IsFiniteSet(Upto(d)) /\ Rank(D, d) = Cardinality(Upto(d)) /\ Rank(D, d) \in Nat
    <2>1. SUFFICES ASSUME NEW d \in Nat
                   PROVE  IsFiniteSet(Upto(d)) /\ Rank(D, d) = Cardinality(Upto(d)) /\ Rank(D, d) \in Nat
      OBVIOUS
    <2>2. Upto(d) \in SUBSET D
      OBVIOUS
    <2>3. IsFiniteSet(Upto(d)) /\ Cardinality(Upto(d)) \in Nat
      BY <1>2, <2>2, FS_Subset, FS_CardinalityType
    <2>4. QED
      BY <2>3 DEF Rank
  <1>4. Upto(Days) = D /\ Upto(0) = {}
    <2>1. \A e \in D : e <= Days /\ ~(e <= 0)
      BY <1>1
    <2>2. QED
      BY <2>1
  <1>5. \A d \in Nat \ {0} : Upto(d) = Upto(d - 1) \cup (D \cap {d})
    <2>1. SUFFICES ASSUME NEW d \in Nat \ {0}
                   PROVE  Upto(d) = Upto(d - 1) \cup (D \cap {d})
      OBVIOUS
    <2>2. \A e \in D : e <= d <=> (e <= d - 1 \/ e = d)
      BY <1>1
    <2>3. QED
      BY <2>2
  <1>6. \A d \in Nat \ {0} : d \notin Upto(d - 1)
    OBVIOUS
  <1> HIDE DEF Upto
  <1>7. Days \in L
    BY <1>1, <1>2, <1>3, <1>4
  <1>8. PICK d \in L : \A x \in L : d <= x
    <2>1. L \in SUBSET Nat /\ L # {}
      BY <1>7
    <2>2. QED
      BY <2>1, Least
  <1>9. d # 0
    BY <1>3, <1>4, FS_EmptySet
  <1>10. d \in Nat \ {0} /\ d - 1 \in Nat /\ Rank(D, d) >= j /\ Rank(D, d - 1) < j
    <2>1. d - 1 \in Nat /\ d - 1 \notin L
      BY <1>8, <1>9
    <2>2. QED
      BY <1>3, <1>9, <2>1
  <1> HIDE DEF L
  <1>11. d \in D
    <2>1. SUFFICES ASSUME d \notin D PROVE FALSE
      OBVIOUS
    <2>2. D \cap {d} = {}
      BY <2>1
    <2>3. Upto(d) = Upto(d - 1)
      BY <1>5, <1>10, <2>2
    <2>4. QED
      BY <1>3, <1>10, <2>3
  <1>12. Upto(d) = Upto(d - 1) \cup {d}
    <2>1. D \cap {d} = {d}
      BY <1>11
    <2>2. QED
      BY <1>5, <1>10, <2>1
  <1>13. Rank(D, d) = Rank(D, d - 1) + 1
    <2>1. IsFiniteSet(Upto(d - 1)) /\ d \notin Upto(d - 1)
      BY <1>3, <1>6, <1>10
    <2>2. Cardinality(Upto(d)) = Cardinality(Upto(d - 1)) + 1
      BY <1>12, <2>1, FS_AddElement
    <2>3. QED
      BY <1>3, <1>10, <2>2
  <1>14. Rank(D, d) = j
    BY <1>3, <1>10, <1>13
  <1>15. QED
    BY <1>11, <1>14

\* With two dates to a fold no fold is empty.
LEMMA FoldStarts ==
  ASSUME NEW n \in Nat, n >= 2 * NumFolds, NEW i \in 1..NumFolds
  PROVE  /\ Before(n, i - 1) \in Nat /\ Before(n, i) \in Nat
         /\ Before(n, i - 1) < Before(n, i) /\ Before(n, i) <= n
  <1> DEFINE k == n \div NumFolds
             m == n % NumFolds
  <1>1. NumFolds \in Nat /\ NumFolds >= 2
    BY BacktestAssumption
  <1>2. k \in Nat /\ m \in 0..NumFolds - 1 /\ n = NumFolds * k + m
    BY <1>1
  <1>3. k >= 1
    BY <1>1, <1>2
  <1> HIDE DEF k, m
  <1>4. (i - 1) * k \in Nat /\ i * k = (i - 1) * k + k
    BY <1>1, <1>2
  <1>5. i * k <= NumFolds * k
    BY <1>1, <1>2
  <1>6. /\ Before(n, i - 1) = (i - 1) * k + (IF i - 1 < m THEN i - 1 ELSE m)
        /\ Before(n, i) = i * k + (IF i < m THEN i ELSE m)
    BY DEF Before, k, m
  <1>7. QED
    BY <1>1, <1>2, <1>3, <1>4, <1>5, <1>6

\* Each fold of a walk-forward run is a span of dates.
LEMMA FoldsAreWindows ==
  ASSUME NEW b \in [Symbols -> SUBSET (1..Days)], NEW w \in Folds(b)
  PROVE  w \in [start : Nat, end : Nat]
  <1> DEFINE D == AllDates(b)
             n == Cardinality(D)
  <1>1. D \in SUBSET (1..Days)
    BY DEF AllDates
  <1> HIDE DEF D
  <1>2. Days \in Nat /\ n \in Nat
    <2>1. IsFiniteSet(1..Days) /\ Days \in Nat
      BY BacktestAssumption, FS_Interval
    <2>2. IsFiniteSet(D)
      BY <1>1, <2>1, FS_Subset
    <2>3. QED
      BY <2>1, <2>2, FS_CardinalityType
  <1>3. n >= 2 * NumFolds
    BY <1>2, BacktestAssumption DEF Folds, D
  <1>4. PICK i \in 1..NumFolds : w = [start |-> Min(FoldDates(D, i)), end |-> Max(FoldDates(D, i))]
    BY <1>2, <1>3, BacktestAssumption DEF Folds, D
  <1> DEFINE j == Before(n, i - 1) + 1
  <1>5. j \in 1..n /\ j \in Before(n, i - 1) + 1 .. Before(n, i)
    BY <1>2, <1>3, FoldStarts
  <1> HIDE DEF j
  <1>6. PICK d \in D : Rank(D, d) = j
    BY <1>1, <1>5, RankTaken
  <1>7. d \in FoldDates(D, i)
    BY <1>5, <1>6 DEF FoldDates
  <1>8. FoldDates(D, i) \in SUBSET (1..Days)
    BY <1>1 DEF FoldDates
  <1>9. Min(FoldDates(D, i)) \in Nat /\ Max(FoldDates(D, i)) \in Nat
    <2>1. Min(FoldDates(D, i)) \in FoldDates(D, i) /\ Max(FoldDates(D, i)) \in FoldDates(D, i)
      BY <1>2, <1>7, <1>8, MinMax
    <2>2. QED
      BY <1>2, <1>8, <2>1
  <1>10. QED
    BY <1>4, <1>9

(***************************************************************************)
(* Ratchets                                                                *)
(***************************************************************************)
LEMMA RatchetTyped ==
  ASSUME NEW st \in Strategies
  PROVE  /\ Ratchet[st].kind = "percent" => Ratchet[st] \in Percent
         /\ Ratchet[st].kind # "percent" => Ratchet[st] \in AtrKind
         /\ Ratchet[st].kind \in {"percent", "atr"}
  <1>1. Ratchet[st] \in Percent \/ Ratchet[st] \in AtrKind
    BY BacktestAssumption
  <1>2. QED
    BY <1>1 DEF Percent, AtrKind

\* What is locked in past the trigger is a percentage.
LEMMA FloorTyped ==
  ASSUME NEW pos \in Position, NEW extreme \in Nat, Ratchet[pos.strategy].kind = "percent",
         NEW f \in LockedFloor(pos, extreme)
  PROVE  f \in Int
  <1> DEFINE params  == Ratchet[pos.strategy]
             advance == pos.dir * (100 * extreme - Trigger(params, pos.entry, pos.dir))
             step    == pos.entry * params.step
             steps   == IF step > 0 THEN advance \div step ELSE 0
  <1>1. pos.strategy \in Strategies /\ pos.entry \in Nat /\ pos.dir \in Int
    BY DEF Position, Dirs
  <1>2. params.trigger # None /\ params.lock # None /\ f = params.lock + steps * params.step
    BY DEF LockedFloor
  <1>3. params.lock \in Nat /\ params.step \in Nat /\ params.trigger \in Nat
    BY <1>1, <1>2, RatchetTyped DEF Percent, Percentage
  <1> HIDE DEF params
  <1>4. advance \in Int
    BY <1>1, <1>3 DEF Trigger
  <1>5. step \in Nat
    BY <1>1, <1>3
  <1> HIDE DEF advance, step
  <1>6. steps \in Int
    BY <1>4, <1>5
  <1> HIDE DEF steps
  <1>7. QED
    BY <1>2, <1>3, <1>6

\* A ratchet offers levels in whole hundredths, one at most.
LEMMA CandidatesTyped ==
  ASSUME NEW pos \in Position, NEW extreme \in Nat
  PROVE  /\ Candidates(pos, extreme) \subseteq Int
         /\ \A c, e \in Candidates(pos, extreme) : c = e
  <1> DEFINE params == Ratchet[pos.strategy]
  <1>1. pos.strategy \in Strategies /\ pos.entry \in Nat /\ pos.dir \in Int
    BY DEF Position, Dirs
  <1>2. CASE params.kind = "percent"
    <2>1. Candidates(pos, extreme) = {pos.entry * (100 + pos.dir * f) : f \in LockedFloor(pos, extreme)}
      BY <1>2 DEF Candidates
    <2>2. \A f \in LockedFloor(pos, extreme) : f \in Int
      BY <1>2, FloorTyped
    <2>3. \A f, g \in LockedFloor(pos, extreme) : f = g
      BY DEF LockedFloor
    <2>4. \A f \in LockedFloor(pos, extreme) : pos.entry * (100 + pos.dir * f) \in Int
      BY <1>1, <2>2
    <2>5. QED
      BY <2>1, <2>3, <2>4
  <1>3. CASE params.kind # "percent"
    <2>1. Candidates(pos, extreme) = {100 * extreme - pos.dir * params.trail * Atr}
      BY <1>3 DEF Candidates
    <2>2. params.trail \in Nat /\ Atr \in Nat
      BY <1>1, <1>3, RatchetTyped, BacktestAssumption DEF AtrKind, Percentage
    <2>3. 100 * extreme - pos.dir * params.trail * Atr \in Int
      <3> HIDE DEF params
      <3>1. pos.dir * params.trail \in Int
        BY <1>1, <2>2
      <3>2. pos.dir * params.trail * Atr \in Int
        BY <2>2, <3>1
      <3>3. QED
        BY <3>2
    <2>4. QED
      BY <2>1, <2>3
  <1>4. QED
    BY <1>2, <1>3

\* The ratchet takes the better extreme and never lags what it offers.
LEMMA UpdateFeeds ==
  ASSUME NEW pos \in Position, pos.best = pos.extreme, NEW close \in Nat
  PROVE  LET new == Update(pos, close)
         IN /\ new \in Position
            /\ new.entered = pos.entered
            /\ new.best = new.extreme
            /\ \A c \in Candidates(new, new.extreme) : new.dir * new.stop >= new.dir * c
  <1> DEFINE extreme == Extreme(pos, close)
             C       == Candidates(pos, extreme)
             better  == \E c \in C : pos.dir * c > pos.dir * pos.stop
             stop    == IF better THEN CHOOSE c \in C : TRUE ELSE pos.stop
             best    == Better(pos.dir, pos.best, close)
             new     == Update(pos, close)
  <1>1. /\ pos.extreme \in Nat /\ pos.stop \in Int /\ pos.dir \in Int
        /\ pos = [strategy |-> pos.strategy, dir |-> pos.dir, entry |-> pos.entry,
                  entered |-> pos.entered, extreme |-> pos.extreme, stop |-> pos.stop,
                  target |-> pos.target, best |-> pos.best]
    BY DEF Position, Dirs
  <1>2. extreme \in Nat /\ best = extreme
    BY <1>1 DEF Extreme, Better
  <1>3. new = [pos EXCEPT !.extreme = extreme, !.stop = stop, !.best = best]
    BY DEF Update
  <1> HIDE DEF extreme, best
  <1>4. C \subseteq Int /\ \A c, e \in C : c = e
    BY <1>2, CandidatesTyped
  <1> HIDE DEF C
  <1>5. stop \in Int /\ \A c \in C : pos.dir * stop >= pos.dir * c
    <2>1. CASE better
      <3>1. PICK c \in C : pos.dir * c > pos.dir * pos.stop
        BY <2>1
      <3>2. stop = c
        BY <1>4, <2>1
      <3> HIDE DEF stop
      <3>3. c \in Int /\ pos.dir * c \in Int
        BY <1>1, <1>4
      <3>4. \A e \in C : e = c
        BY <1>4
      <3>5. QED
        BY <3>2, <3>3, <3>4
    <2>2. CASE ~better
      <3>1. \A c \in C : ~(pos.dir * c > pos.dir * pos.stop)
        BY <2>2
      <3>2. stop = pos.stop
        BY <2>2
      <3> HIDE DEF stop
      <3>3. \A c \in C : pos.dir * c \in Int
        BY <1>1, <1>4
      <3>4. pos.dir * pos.stop \in Int
        BY <1>1
      <3>5. QED
        BY <1>1, <3>1, <3>2, <3>3, <3>4
    <2>3. QED
      BY <2>1, <2>2
  <1> HIDE DEF stop
  <1>6. new = [strategy |-> pos.strategy, dir |-> pos.dir, entry |-> pos.entry,
               entered |-> pos.entered, extreme |-> extreme, stop |-> stop,
               target |-> pos.target, best |-> best]
    BY <1>1, <1>3
  <1>7. new \in Position
    BY <1>2, <1>5, <1>6 DEF Position
  <1>8. /\ new.entered = pos.entered /\ new.best = best /\ new.extreme = extreme
        /\ new.stop = stop /\ new.dir = pos.dir
        /\ new.strategy = pos.strategy /\ new.entry = pos.entry
    BY <1>6
  <1> HIDE DEF new
  <1>9. Candidates(new, new.extreme) = C
    BY <1>8 DEF C, Candidates, LockedFloor
  <1>10. QED
    BY <1>2, <1>5, <1>7, <1>8, <1>9 DEF new

\* An order is filled at a price, and its ratchet starts there.
LEMMA FillTyped ==
  ASSUME TypeOK, NEW s \in Ordered, NEW price \in Prices
  PROVE  /\ Fill(s, price) \in Position
         /\ Fill(s, price).best = Fill(s, price).extreme
         /\ Fill(s, price).entered = today
  <1> DEFINE order  == pending[s]
             params == Ratchet[order.strategy]
             stop   == InitialStop(params, price, order.dir)
             target == Target(params, price, order.dir)
  <1>1. order \in Entries
    BY DEF TypeOK, Ordered
  <1>2. order.strategy \in Strategies /\ order.dir \in Dirs
    BY <1>1 DEF Entries
  <1>3. order.dir \in Int /\ price \in Nat /\ today \in Nat /\ Atr \in Nat
    BY <1>2, BacktestAssumption DEF Dirs, TypeOK
  <1> HIDE DEF order
  <1>4. stop \in Int
    <2>1. CASE params.kind = "percent"
      <3>1. params.initial \in Int
        BY <1>2, <2>1, RatchetTyped DEF Percent
      <3> HIDE DEF params
      <3>2. order.dir * params.initial \in Int
        BY <1>3, <3>1
      <3>3. price * (100 - order.dir * params.initial) \in Int
        BY <1>3, <3>2
      <3>4. QED
        BY <2>1, <3>3 DEF InitialStop
    <2>2. CASE params.kind # "percent"
      <3>1. params.initial \in Int
        BY <1>2, <2>2, RatchetTyped DEF AtrKind, Percentage
      <3> HIDE DEF params
      <3>2. order.dir * params.initial \in Int
        BY <1>3, <3>1
      <3>3. order.dir * params.initial * Atr \in Int
        BY <1>3, <3>2
      <3>4. QED
        BY <1>3, <2>2, <3>3 DEF InitialStop
    <2>3. QED
      BY <2>1, <2>2
  <1>5. target \in Int \cup {None}
    <2>1. CASE params.target = None
      BY <2>1 DEF Target
    <2>2. CASE params.target # None
      <3>1. params.target \in Nat
        BY <1>2, <2>2, RatchetTyped DEF Percent, AtrKind, Percentage
      <3> HIDE DEF params
      <3>2. order.dir * params.target \in Int
        BY <1>3, <3>1
      <3>3. QED
        BY <1>3, <2>2, <3>2 DEF Target
    <2>3. QED
      BY <2>1, <2>2
  <1>6. Fill(s, price) = [strategy |-> order.strategy, dir |-> order.dir, entry |-> price,
                          entered |-> today, extreme |-> price, stop |-> stop,
                          target |-> target, best |-> price]
    BY DEF Fill, order
  <1> HIDE DEF stop, target
  <1>7. QED
    BY <1>2, <1>3, <1>4, <1>5, <1>6 DEF Position

(***************************************************************************)
(* The days                                                                *)
(***************************************************************************)
\* A day passes from managing to entering to the next day, symbol by symbol.
LEMMA Moves ==
  ASSUME TypeOK, Advance
  PROVE  /\ at' \in {"manage", "enter"} \X Symbols /\ today' \in Nat
         /\ UNCHANGED <<bars, window>>
         /\ at[1] = "manage" =>
              /\ today' = today
              /\ \A x \in Symbols : ManagedToday(x)' => ManagedToday(x) \/ x = at[2]
         /\ at[1] = "enter" =>
              \/ today' = today /\ at'[1] = "enter"
              \/ today' = today + 1 /\ at'[1] = "manage" /\ \A x \in Symbols : ~ManagedToday(x)'
  <1>1. /\ at' = NextAt(at) /\ UNCHANGED <<bars, window>>
        /\ today' = IF at = <<"enter", NumSymbols>> THEN today + 1 ELSE today
    BY DEF Advance
  <1>2. /\ today \in Nat /\ NumSymbols \in Nat \ {0} /\ Symbols = 1..NumSymbols
        /\ at[1] \in {"manage", "enter"} /\ at[2] \in Symbols /\ at = <<at[1], at[2]>>
    BY BacktestAssumption DEF TypeOK, Symbols
  <1>3. CASE at[1] = "manage"
    <2>1. today' = today
      BY <1>1, <1>2, <1>3
    <2>2. CASE at[2] < NumSymbols
      <3>1. at' = <<"manage", at[2] + 1>>
        BY <1>1, <1>3, <2>2 DEF NextAt
      <3>2. at[2] + 1 \in Symbols
        BY <1>2, <2>2
      <3>3. \A x \in Symbols : x < at[2] + 1 => x < at[2] \/ x = at[2]
        BY <1>2
      <3>4. \A x \in Symbols : ManagedToday(x)' => ManagedToday(x) \/ x = at[2]
        BY <3>1, <3>3 DEF ManagedToday
      <3>5. QED
        BY <1>1, <1>2, <1>3, <2>1, <3>1, <3>2, <3>4
    <2>3. CASE ~(at[2] < NumSymbols)
      <3>1. at' = <<"enter", 1>> /\ at[2] = NumSymbols
        BY <1>1, <1>2, <1>3, <2>3 DEF NextAt
      <3>2. \A x \in Symbols : x < at[2] \/ x = at[2]
        BY <1>2, <3>1
      <3>3. QED
        BY <1>1, <1>2, <1>3, <2>1, <3>1, <3>2 DEF ManagedToday
    <2>4. QED
      BY <2>2, <2>3
  <1>4. CASE at[1] = "enter"
    <2>1. CASE at[2] < NumSymbols
      <3>1. at' = <<"enter", at[2] + 1>>
        BY <1>1, <1>4, <2>1 DEF NextAt
      <3>2. today' = today
        BY <1>1, <1>2, <2>1
      <3>3. QED
        BY <1>1, <1>2, <1>4, <3>1, <3>2
    <2>2. CASE ~(at[2] < NumSymbols)
      <3>1. at[2] = NumSymbols
        BY <1>2, <2>2
      <3>2. at' = <<"manage", 1>>
        BY <1>1, <1>4, <2>2 DEF NextAt
      <3>3. today' = today + 1
        BY <1>1, <1>2, <1>4, <3>1
      <3>4. \A x \in Symbols : ~ManagedToday(x)'
        BY <1>2, <3>2 DEF ManagedToday
      <3>5. QED
        BY <1>1, <1>2, <1>4, <3>2, <3>3, <3>4
    <2>3. QED
      BY <2>1, <2>2
  <1>5. QED
    BY <1>2, <1>3, <1>4

\* A day that is not the last with a bar has another one after it.
LEMMA NotLastBar ==
  ASSUME TypeOK, NEW s \in Symbols, HasBar(s), ~LastBar(s)
  PROVE  \E d \in Frame(s) : d > today
  <1>1. Frame(s) \in SUBSET (1..Days) /\ Days \in Nat /\ today \in Nat
    BY BacktestAssumption DEF TypeOK, Frame
  <1>2. today \in Frame(s)
    BY DEF HasBar
  <1>3. Max(Frame(s)) \in Frame(s) /\ today <= Max(Frame(s))
    BY <1>1, <1>2, MinMax
  <1>4. Max(Frame(s)) > today
    <2>1. Max(Frame(s)) # today
      BY DEF LastBar
    <2>2. Max(Frame(s)) \in Nat
      BY <1>1, <1>3
    <2>3. QED
      BY <1>1, <1>3, <2>1, <2>2
  <1>5. QED
    BY <1>3, <1>4

\* What a symbol holds after it was managed: nothing, what it held where there
\* is no bar, or what was fed this close and has a bar to come.
LEMMA Manages ==
  ASSUME IInv, NEW s \in Symbols, Manage(s)
  PROVE  \/ positions' = positions /\ s \notin Held
         \/ positions' = [positions EXCEPT ![s] = None]
         \/ \E pos \in Position :
              /\ positions' = [positions EXCEPT ![s] = pos]
              /\ pos.entered > window.start
              /\ pos.best = pos.extreme
              /\ \A c \in Candidates(pos, pos.extreme) : pos.dir * pos.stop >= pos.dir * c
              /\ ~LastBar(s)
  <1>1. HasBar(s) /\ at = <<"manage", s>>
    BY DEF Manage
  <1>2. PICK b \in Bars :
          LET pos == IF pending[s] # None THEN Fill(s, b.open) ELSE positions[s]
          IN IF pos = None THEN UNCHANGED positions
             ELSE \E exits \in {FALSE} \cup {leave = <<pos.strategy, pos.dir>> : leave \in Exits} :
                    positions' = [positions EXCEPT ![s] = Managed(s, pos, b, exits)]
    BY DEF Manage
  <1> DEFINE pos == IF pending[s] # None THEN Fill(s, b.open) ELSE positions[s]
  <1>3. b.open \in Prices /\ b.close \in Prices /\ b.close \in Nat
    BY BacktestAssumption DEF Bars
  <1>4. CASE pos = None
    <2>1. positions' = positions
      BY <1>2, <1>4
    <2>2. s \notin Held
      <3>1. CASE pending[s] # None
        <4>1. Fill(s, b.open) \in Position
          BY <1>3, <3>1, FillTyped DEF IInv, Ordered
        <4>2. QED
          BY <1>4, <3>1, <4>1, BacktestAssumption
      <3>2. CASE pending[s] = None
        BY <1>4, <3>2 DEF Held
      <3>3. QED
        BY <3>1, <3>2
    <2>3. QED
      BY <2>1, <2>2
  <1>5. CASE pos # None
    <2>1. PICK exits : positions' = [positions EXCEPT ![s] = Managed(s, pos, b, exits)]
      BY <1>2, <1>5
    <2>2. pos \in Position /\ pos.best = pos.extreme /\ pos.entered > window.start
      <3>1. CASE pending[s] # None
        <4>1. s \in Ordered /\ TypeOK
          BY <3>1 DEF IInv, Ordered
        <4>2. today > window.start
          BY <1>1, <4>1 DEF IInv, OrdersInFold
        <4>3. QED
          BY <1>3, <3>1, <4>1, <4>2, FillTyped
      <3>2. CASE pending[s] = None
        <4>1. s \in Held
          BY <1>5, <3>2 DEF Held
        <4>2. positions[s] \in Position
          BY <4>1 DEF IInv, TypeOK, Held
        <4>3. QED
          BY <3>2, <4>1, <4>2 DEF IInv, PositionsInFold, RatchetsFed
      <3>3. QED
        BY <3>1, <3>2
    <2> HIDE DEF pos
    <2>3. CASE Managed(s, pos, b, exits) = None
      BY <2>1, <2>3
    <2>4. CASE Managed(s, pos, b, exits) # None
      <3>1. Managed(s, pos, b, exits) = Update(pos, b.close) /\ ~LastBar(s)
        BY <2>4 DEF Managed
      <3>2. QED
        BY <1>3, <2>1, <2>2, <3>1, UpdateFeeds
    <2>5. QED
      BY <2>3, <2>4
  <1>6. QED
    BY <1>4, <1>5

(***************************************************************************)
(* Every step                                                              *)
(***************************************************************************)
\* What a step leaves of positions and orders, and the day it ends on.
LEMMA FoldManage ==
  ASSUME IInv, NEW s \in Symbols, Manage(s)
  PROVE  IInv'
  <1>1. /\ at[1] = "manage" /\ at[2] = s /\ Advance
        /\ pending' = [pending EXCEPT ![s] = None]
    BY DEF Manage
  <1>2. /\ at' \in {"manage", "enter"} \X Symbols /\ today' = today
        /\ UNCHANGED <<bars, window>>
        /\ \A x \in Symbols : ManagedToday(x)' => ManagedToday(x) \/ x = s
    BY <1>1, Moves DEF IInv
  <1>3. \A x \in Symbols : Frame(x)' = Frame(x)
    BY <1>2 DEF Frame
  <1>4. Ordered' \subseteq Ordered
    BY <1>1 DEF IInv, TypeOK, Ordered
  <1>5. OrdersInFold'
    BY <1>1, <1>2, <1>4 DEF IInv, OrdersInFold
  <1>6. \A x \in Symbols \ {s} : positions'[x] = positions[x]
    BY Manages DEF IInv, TypeOK
  <1>7. positions' \in [Symbols -> Position \cup {None}]
    BY Manages DEF IInv, TypeOK
  <1>8. TypeOK'
    <2>1. pending' \in [Symbols -> Entries \cup {None}]
      BY <1>1 DEF IInv, TypeOK
    <2>2. QED
      BY <1>2, <1>7, <2>1 DEF IInv, TypeOK
  <1>9. ASSUME NEW x \in Held', x # s
        PROVE  /\ positions'[x].entered > window'.start
               /\ \E d \in Frame(x)' : d >= today' /\ (ManagedToday(x)' => d > today')
               /\ positions'[x].best = positions'[x].extreme
               /\ \A c \in Candidates(positions'[x], positions'[x].extreme) :
                    positions'[x].dir * positions'[x].stop >= positions'[x].dir * c
    <2>1. x \in Held /\ x \in Symbols /\ positions'[x] = positions[x]
      BY <1>6, <1>9 DEF Held
    <2>2. positions[x].entered > window.start
      BY <2>1 DEF IInv, PositionsInFold
    <2>3. PICK d \in Frame(x) : d >= today /\ (ManagedToday(x) => d > today)
      BY <2>1 DEF IInv, PositionsInFold
    <2>4. d >= today' /\ (ManagedToday(x)' => d > today') /\ d \in Frame(x)'
      BY <1>2, <1>3, <1>9, <2>1, <2>3
    <2>5. QED
      BY <1>2, <2>1, <2>2, <2>4 DEF IInv, RatchetsFed
  <1>10. ASSUME s \in Held'
         PROVE  /\ positions'[s].entered > window'.start
                /\ \E d \in Frame(s)' : d >= today' /\ (ManagedToday(s)' => d > today')
                /\ positions'[s].best = positions'[s].extreme
                /\ \A c \in Candidates(positions'[s], positions'[s].extreme) :
                     positions'[s].dir * positions'[s].stop >= positions'[s].dir * c
    <2>1. positions'[s] # None /\ DOMAIN positions = Symbols
      BY <1>10 DEF Held, IInv, TypeOK
    <2>2. PICK pos \in Position :
            /\ positions' = [positions EXCEPT ![s] = pos]
            /\ pos.entered > window.start
            /\ pos.best = pos.extreme
            /\ \A c \in Candidates(pos, pos.extreme) : pos.dir * pos.stop >= pos.dir * c
            /\ ~LastBar(s)
      <3>1. ~(positions' = positions /\ s \notin Held)
        BY <2>1 DEF Held
      <3>2. ~(positions' = [positions EXCEPT ![s] = None])
        BY <2>1
      <3>3. QED
        BY <3>1, <3>2, Manages
    <2>3. positions'[s] = pos
      BY <2>1, <2>2
    <2>4. PICK d \in Frame(s) : d > today
      <3>1. HasBar(s)
        BY DEF Manage
      <3>2. QED
        BY <2>2, <3>1, NotLastBar DEF IInv
    <2>5. d \in Frame(s)' /\ d > today' /\ d >= today'
      <3>1. d \in Nat /\ today \in Nat
        BY BacktestAssumption DEF IInv, TypeOK, Frame
      <3>2. QED
        BY <1>2, <1>3, <2>4, <3>1
    <2>6. QED
      BY <1>2, <2>2, <2>3, <2>5
  <1>11. PositionsInFold' /\ RatchetsFed'
    BY <1>9, <1>10 DEF PositionsInFold, RatchetsFed
  <1>12. QED
    BY <1>5, <1>8, <1>11 DEF IInv

\* A step of the loop that manages no position keeps the invariant.
LEMMA FoldOther ==
  ASSUME IInv, NEW s \in Symbols, Enter(s) \/ Pass(s)
  PROVE  IInv'
  <1>1. /\ positions' = positions /\ Advance
        /\ at[1] = "enter" \/ (at[1] = "manage" /\ at[2] = s /\ ~HasBar(s))
    BY DEF Enter, Pass
  <1>2. /\ at' \in {"manage", "enter"} \X Symbols /\ today' \in Nat
        /\ UNCHANGED <<bars, window>>
        /\ at[1] = "manage" =>
             /\ today' = today
             /\ \A x \in Symbols : ManagedToday(x)' => ManagedToday(x) \/ x = s
        /\ at[1] = "enter" =>
             \/ today' = today /\ at'[1] = "enter"
             \/ today' = today + 1 /\ at'[1] = "manage" /\ \A x \in Symbols : ~ManagedToday(x)'
    BY <1>1, Moves DEF IInv
  <1>3. \A x \in Symbols : Frame(x)' = Frame(x)
    BY <1>2 DEF Frame
  <1>4. pending' \in [Symbols -> Entries \cup {None}]
    <2>1. CASE \E sig \in Entries : pending' = [pending EXCEPT ![s] = sig]
      BY <2>1 DEF IInv, TypeOK
    <2>2. CASE pending' = pending
      BY <2>2 DEF IInv, TypeOK
    <2>3. QED
      BY <2>1, <2>2 DEF Enter, Pass
  <1>5. TypeOK'
    BY <1>1, <1>2, <1>4 DEF IInv, TypeOK
  <1>6. today \in Nat /\ window.start \in Nat
    BY DEF IInv, TypeOK
  <1>7. OrdersInFold'
    <2>1. \A x \in Ordered' : today >= window.start /\ (at[1] = "manage" => today > window.start)
      <3>1. CASE Enter(s)
        <4>1. at[1] = "enter" /\ today >= window.start /\ Ordered' \subseteq Ordered \cup {s}
          BY <3>1 DEF Enter, Considered, IInv, TypeOK, Ordered
        <4>2. QED
          BY <4>1 DEF IInv, OrdersInFold
      <3>2. CASE Pass(s)
        BY <3>2 DEF Pass, Ordered, IInv, OrdersInFold
      <3>3. QED
        BY <3>1, <3>2
    <2>2. QED
      BY <1>1, <1>2, <1>6, <2>1 DEF OrdersInFold
  <1>8. PositionsInFold'
    <2>1. SUFFICES ASSUME NEW x \in Held'
                   PROVE  /\ positions'[x].entered > window'.start
                          /\ \E d \in Frame(x)' : d >= today' /\ (ManagedToday(x)' => d > today')
      BY DEF PositionsInFold
    <2>2. x \in Held /\ x \in Symbols
      BY <1>1 DEF Held
    <2>3. PICK d \in Frame(x) : d >= today /\ (ManagedToday(x) => d > today)
      BY <2>2 DEF IInv, PositionsInFold
    <2>4. d \in Frame(x)' /\ d \in Nat
      BY <1>3, <2>2, BacktestAssumption DEF IInv, TypeOK, Frame
    <2>5. CASE at[1] = "manage"
      <3>1. x = s => d # today
        BY <1>1, <2>3, <2>5 DEF HasBar
      <3>2. d >= today' /\ (ManagedToday(x)' => d > today')
        BY <1>1, <1>2, <1>6, <2>2, <2>3, <2>4, <2>5, <3>1
      <3>3. QED
        BY <1>1, <1>2, <2>2, <2>4, <3>2 DEF IInv, PositionsInFold
    <2>6. CASE at[1] = "enter"
      <3>1. d > today
        BY <2>3, <2>6 DEF ManagedToday
      <3>2. d >= today' /\ (ManagedToday(x)' => d > today')
        BY <1>2, <1>6, <2>2, <2>4, <2>6, <3>1
      <3>3. QED
        BY <1>1, <1>2, <2>2, <2>4, <3>2 DEF IInv, PositionsInFold
    <2>7. QED
      BY <1>1, <2>5, <2>6
  <1>9. RatchetsFed'
    BY <1>1 DEF IInv, RatchetsFed, Held
  <1>10. QED
    BY <1>5, <1>7, <1>8, <1>9 DEF IInv

\* Every step keeps it.
LEMMA FoldStep ==
  ASSUME IInv, [Next]_vars
  PROVE  IInv'
  <1>1. CASE UNCHANGED vars
    BY <1>1 DEF vars, IInv, TypeOK, OrdersInFold, PositionsInFold, RatchetsFed,
                Held, Ordered, Frame, ManagedToday
  <1>2. QED
    BY <1>1, FoldManage, FoldOther DEF Next

\* A run starts in it.
LEMMA FoldInitially == Init => IInv
  <1>1. SUFFICES ASSUME Init PROVE IInv
    OBVIOUS
  <1>2. Held = {} /\ Ordered = {}
    BY <1>1 DEF Init, Held, Ordered
  <1>3. bars \in [Symbols -> SUBSET (1..Days)]
    BY <1>1 DEF Init
  <1>4. window \in [start : Nat, end : Nat]
    <2>1. CASE window = [start |-> 1, end |-> Days]
      BY <2>1, BacktestAssumption
    <2>2. CASE window \in Folds(bars)
      BY <1>3, <2>2, FoldsAreWindows
    <2>3. QED
      BY <1>1, <2>1, <2>2 DEF Init
  <1>5. TypeOK
    <2>1. 1 \in Symbols
      BY BacktestAssumption DEF Symbols
    <2>2. QED
      BY <1>1, <1>3, <1>4, <2>1 DEF Init, TypeOK
  <1>6. QED
    BY <1>2, <1>5 DEF IInv, OrdersInFold, PositionsInFold, RatchetsFed

(***************************************************************************)
(* What a position has earned                                              *)
(***************************************************************************)
\* k full steps are in an advance of k steps or more.
LEMMA StepsCounted ==
  ASSUME NEW advance \in Nat, NEW step \in Nat, step > 0, NEW k \in 0..3, advance >= k * step
  PROVE  advance \div step \in Nat /\ advance \div step >= k
  <1> DEFINE q == advance \div step
             r == advance % step
  <1>1. q \in Nat /\ r \in Nat /\ r < step /\ advance = q * step + r
    OBVIOUS
  <1> HIDE DEF q, r
  <1>2. ASSUME q < k
        PROVE  FALSE
    <2>1. k - q >= 1 /\ k - q \in Nat
      BY <1>1, <1>2
    <2>2. (k - q) * step >= step
      BY <2>1
    <2>3. k * step = q * step + (k - q) * step
      BY <1>1
    <2>4. QED
      BY <1>1, <2>2, <2>3
  <1>3. q >= k
    BY <1>1, <1>2
  <1>4. QED
    BY <1>1, <1>3 DEF q

\* Past the k-th step a percentage ratchet offers the k-th level or a better one.
LEMMA StepsLocked ==
  ASSUME NEW pos \in Position, NEW k \in 0..3,
         Ratchet[pos.strategy].kind = "percent",
         Ratchet[pos.strategy].trigger # None, Ratchet[pos.strategy].lock # None,
         100 * pos.extreme * pos.dir >=
           pos.entry * (100 + pos.dir * (Ratchet[pos.strategy].trigger + k * Ratchet[pos.strategy].step)) * pos.dir
  PROVE  \E c \in Candidates(pos, pos.extreme) :
           pos.dir * c >= pos.dir * (pos.entry * (100 + pos.dir * (Ratchet[pos.strategy].lock + k * Ratchet[pos.strategy].step)))
  <1> DEFINE params  == Ratchet[pos.strategy]
             d       == pos.dir
             entry   == pos.entry
             extreme == pos.extreme
             trigger == params.trigger
             lock    == params.lock
             by      == params.step
             step    == entry * by
             advance == d * (100 * extreme - Trigger(params, entry, d))
             steps   == IF step > 0 THEN advance \div step ELSE 0
             floor   == lock + steps * by
  <1>1. /\ pos.strategy \in Strategies /\ d \in {1, -1} /\ entry \in Nat /\ extreme \in Nat
        /\ params \in Percent
    BY RatchetTyped DEF Position, Dirs
  <1>2. trigger \in Nat /\ lock \in Nat /\ by \in Nat
    BY <1>1 DEF Percent, Percentage
  <1>3. Trigger(params, entry, d) = entry * (100 + d * trigger)
    BY DEF Trigger
  <1>4. /\ LockedFloor(pos, extreme) = IF advance < 0 THEN {} ELSE {floor}
        /\ Candidates(pos, extreme) = {entry * (100 + d * f) : f \in LockedFloor(pos, extreme)}
    BY DEF LockedFloor, Candidates
  <1>5. 100 * extreme * d >= entry * (100 + d * (trigger + k * by)) * d
    OBVIOUS
  <1>6. advance = d * (100 * extreme - entry * (100 + d * trigger))
    BY <1>3
  <1>7. step = entry * by
    OBVIOUS
  <1> HIDE DEF params, d, entry, extreme, trigger, lock, by, step, advance
  <1>8. step \in Nat /\ k * step \in Nat /\ entry * trigger \in Nat
    BY <1>1, <1>2, <1>7
  <1>9. k * by \in Nat /\ entry * (k * by) = k * step
    BY <1>1, <1>2, <1>7
  <1>10. advance \in Int /\ advance >= k * step
    <2>1. CASE d = 1
      <3>1. 100 * extreme >= entry * 100 + entry * trigger + entry * (k * by)
        BY <1>1, <1>2, <1>5, <1>9, <2>1
      <3>2. advance = 100 * extreme - entry * 100 - entry * trigger
        BY <1>1, <1>2, <1>6, <2>1
      <3>3. QED
        BY <1>1, <1>8, <1>9, <3>1, <3>2
    <2>2. CASE d = -1
      <3>1. -100 * extreme >= entry * trigger + entry * (k * by) - entry * 100
        BY <1>1, <1>2, <1>5, <1>9, <2>2
      <3>2. advance = entry * 100 - entry * trigger - 100 * extreme
        BY <1>1, <1>2, <1>6, <2>2
      <3>3. QED
        BY <1>1, <1>8, <1>9, <3>1, <3>2
    <2>3. QED
      BY <1>1, <2>1, <2>2
  <1>11. advance \in Nat /\ ~(advance < 0)
    BY <1>8, <1>10
  <1>12. steps \in Nat /\ (step > 0 => steps >= k)
    BY <1>8, <1>10, <1>11, StepsCounted
  <1>13. steps * by \in Nat /\ floor = lock + steps * by
    BY <1>2, <1>12
  <1> HIDE DEF steps, floor
  <1>14. entry * (steps * by) >= entry * (k * by)
    <2>1. entry * (steps * by) = steps * step /\ entry * (k * by) = k * step
      BY <1>1, <1>2, <1>7, <1>12
    <2>2. CASE step > 0
      BY <1>8, <1>12, <2>1, <2>2
    <2>3. CASE step = 0
      BY <1>12, <2>1, <2>3
    <2>4. QED
      BY <1>8, <2>2, <2>3
  <1>15. d * (entry * (100 + d * floor)) >= d * (entry * (100 + d * (lock + k * by)))
    <2>1. /\ entry * floor = entry * lock + entry * (steps * by)
          /\ entry * (lock + k * by) = entry * lock + entry * (k * by)
          /\ floor \in Nat /\ lock + k * by \in Nat
      BY <1>1, <1>2, <1>9, <1>13
    <2>2. entry * floor >= entry * (lock + k * by)
      BY <1>1, <1>2, <1>9, <1>13, <1>14, <2>1
    <2>3. \A f \in Nat : d * (entry * (100 + d * f)) = d * entry * 100 + entry * f
      BY <1>1
    <2>4. entry * floor \in Nat /\ entry * (lock + k * by) \in Nat /\ d * entry * 100 \in Int
      BY <1>1, <2>1
    <2>5. QED
      BY <2>1, <2>2, <2>3, <2>4
  <1>16. entry * (100 + d * floor) \in Candidates(pos, extreme)
    BY <1>4, <1>11
  <1>17. QED
    BY <1>15, <1>16 DEF params, d, entry, extreme, lock, by

(***************************************************************************)
(* Theorems                                                                *)
(***************************************************************************)
\* The strengthening of both theorems below holds of every behaviour.
THEOREM Invariance == Spec => []BInv
  BY BInitially, BStep, PTL DEF Spec

\* Positions and pending orders together never exceed max_open_positions.
THEOREM SlotsHold == Spec => []SlotsBounded
  <1>1. BInv => SlotsBounded
    BY DEF BInv, Slots, SlotsBounded
  <1>2. QED
    BY <1>1, Invariance, PTL

\* Only mean reversion may order where it would already leave.
THEOREM NotSpentHolds == Spec => []NotSpent
  <1>1. BInv => NotSpent
    BY EntryNotSpent DEF BInv, NotSpent
  <1>2. QED
    BY <1>1, Invariance, PTL

\* The strengthening of the two theorems below.
THEOREM FoldInvariance == Spec => []IInv
  BY FoldInitially, FoldStep, PTL DEF Spec

\* Whatever bars the symbols have, nothing is open that was entered before its
\* fold began, and nothing is open past the last bar of its symbol.
THEOREM FoldsDoNotLeak == Spec => []FoldIsolated
  <1>1. ASSUME IInv
        PROVE  FoldIsolated
    <2>1. SUFFICES ASSUME NEW s \in Held
                   PROVE  /\ positions[s].entered > window.start
                          /\ today <= window.end
                          /\ \E d \in bars[s] : d >= today
      BY DEF FoldIsolated
    <2>2. PICK d \in Frame(s) : d >= today
      BY <1>1 DEF IInv, PositionsInFold
    <2>3. d \in bars[s] /\ d <= window.end /\ d \in Nat /\ today \in Nat /\ window.end \in Nat
      BY <1>1, BacktestAssumption DEF IInv, TypeOK, Frame, Held
    <2>4. QED
      BY <1>1, <2>2, <2>3 DEF IInv, PositionsInFold
  <1>2. QED
    BY <1>1, FoldInvariance, PTL

\* The stop of a position is never behind what its best close has earned, for
\* every configured ratchet.
THEOREM StopsFollow == Spec => []StopFollowsBest
  <1>1. ASSUME IInv
        PROVE  StopFollowsBest
    <2>1. SUFFICES ASSUME NEW s \in Held
                   PROVE  LET pos    == positions[s]
                              params == Ratchet[pos.strategy]
                              ahead(level) == pos.dir * pos.stop >= pos.dir * level
                          IN IF params.kind = "atr" THEN ahead(100 * pos.best - pos.dir * params.trail * Atr)
                             ELSE params.trigger # None /\ params.lock # None =>
                                    \A k \in 0..3 :
                                      100 * pos.best * pos.dir >= pos.entry * (100 + pos.dir * (params.trigger + k * params.step)) * pos.dir
                                      => ahead(pos.entry * (100 + pos.dir * (params.lock + k * params.step)))
      BY DEF StopFollowsBest
    <2> DEFINE pos    == positions[s]
               params == Ratchet[pos.strategy]
    <2>2. pos \in Position
      BY <1>1 DEF IInv, TypeOK, Held
    <2>3. /\ pos.best = pos.extreme
          /\ \A c \in Candidates(pos, pos.extreme) : pos.dir * pos.stop >= pos.dir * c
      BY <1>1 DEF IInv, RatchetsFed
    <2>4. pos.strategy \in Strategies /\ pos.extreme \in Nat /\ pos.stop \in Int /\ pos.dir \in Int /\ pos.entry \in Int
      BY <2>2 DEF Position, Dirs
    <2> HIDE DEF pos
    <2>5. CASE params.kind = "atr"
      <3>1. 100 * pos.extreme - pos.dir * params.trail * Atr \in Candidates(pos, pos.extreme)
        BY <2>5 DEF Candidates
      <3>2. QED
        BY <2>3, <2>5, <3>1 DEF pos
    <2>6. CASE params.kind # "atr"
      <3>1. params.kind = "percent"
        BY <2>4, <2>6, RatchetTyped
      <3>2. SUFFICES ASSUME params.trigger # None, params.lock # None, NEW k \in 0..3,
                            100 * pos.extreme * pos.dir >=
                              pos.entry * (100 + pos.dir * (params.trigger + k * params.step)) * pos.dir
                     PROVE  pos.dir * pos.stop >= pos.dir * (pos.entry * (100 + pos.dir * (params.lock + k * params.step)))
        BY <2>3, <2>6 DEF pos
      <3> DEFINE level == pos.entry * (100 + pos.dir * (params.lock + k * params.step))
      <3>3. PICK c \in Candidates(pos, pos.extreme) : pos.dir * c >= pos.dir * level
        BY <2>2, <3>1, <3>2, StepsLocked
      <3>4. params.lock \in Int /\ params.step \in Int
        BY <2>4, <3>1, <3>2, RatchetTyped DEF Percent, Percentage
      <3>5. c \in Int
        BY <2>2, <2>4, CandidatesTyped
      <3> HIDE DEF params
      <3>6. level \in Int
        <4>1. k * params.step \in Int
          BY <3>4
        <4>2. pos.dir * (params.lock + k * params.step) \in Int
          BY <2>4, <3>4, <4>1
        <4>3. QED
          BY <2>4, <4>2
      <3> HIDE DEF level
      <3>7. pos.dir * level \in Int /\ pos.dir * c \in Int /\ pos.dir * pos.stop \in Int
        BY <2>4, <3>5, <3>6
      <3>8. pos.dir * pos.stop >= pos.dir * level
        BY <2>3, <3>3, <3>7
      <3>9. QED
        BY <3>8 DEF level
    <2>7. QED
      BY <2>5, <2>6
  <1>2. QED
    BY <1>1, FoldInvariance, PTL
=============================================================================
