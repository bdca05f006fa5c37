-------------------------- MODULE RiskGate_proofs --------------------------
(***************************************************************************)
(* The caps of module RiskGate hold for every set of symbols and every     *)
(* value of the limits.                                                    *)
(***************************************************************************)
EXTENDS RiskGate, FiniteSetTheorems, WellFoundedInduction, TLAPS

USE DEF Paths

(***************************************************************************)
(* Arithmetic.                                                             *)
(***************************************************************************)

\* A product grows with its second factor.
LEMMA TimesMonotone ==
  ASSUME NEW q \in Nat, NEW a \in Int, NEW b \in Int, a <= b
  PROVE  q * a <= q * b
<1> DEFINE d == b - a
<1>1. d \in Nat /\ b = a + d
  OBVIOUS
<1>2. q * (a + d) = q * a + q * d
  BY <1>1, SMT
<1>3. q * d \in Nat
  BY <1>1, SMT
<1> QED
  BY <1>1, <1>2, <1>3, SMT

\* Trimming to what was asked for lowers the risk of a trade.
LEMMA TrimLowers ==
  ASSUME NEW a \in Nat, NEW q \in Nat, NEW d \in Nat, a <= q
  PROVE  a * d <= q * d
<1>1. d * a <= d * q
  BY TimesMonotone
<1> QED
  BY <1>1, SMT

\* The lesser of what was proposed and what is approved now.
LEMMA LesserOfTwo ==
  ASSUME NEW a \in Nat, NEW b \in Nat
  PROVE  Min({a, b}) \in {a, b} /\ Min({a, b}) <= a /\ Min({a, b}) <= b
<1>1. \E x \in {a, b} : \A y \in {a, b} : x =< y
  BY SMT
<1> QED
  BY <1>1, SMT DEF Min

\* The distance of a price is positive and leaves a stop above zero.
LEMMA DistanceType ==
  ASSUME NEW p \in Prices
  PROVE  Distance(p) \in Nat /\ p \in Nat /\ p > 0 /\ p - Distance(p) \in Nat /\ p - (p - Distance(p)) = Distance(p)
BY CapsAssumption, SMT

(***************************************************************************)
(* What happens to the records.                                            *)
(***************************************************************************)
RecType == [qty : Nat, filled : Nat, entry : Nat, stop : Nat, cur : Nat, via : Paths]

\* What the stop of a record may cost.
Bounded(r) == r.via # "approved" => r.qty * (r.entry - r.cur) <= RiskBudget

\* The records after one symbol's record became r.
LEMMA SetRecord ==
  ASSUME IInv, NEW s \in Symbols, NEW r \in RecType, Bounded(r), rec' = [rec EXCEPT ![s] = r]
  PROVE  /\ rec' \in [Symbols -> RecType]
         /\ TradeRiskBounded'
         /\ r.qty > 0 => Tracked' = Tracked \cup {s}
         /\ r.qty = 0 => Tracked' = Tracked \ {s}
<1>1. rec \in [Symbols -> RecType]
  BY DEF IInv, TypeOK, RecType
<1>2. rec' \in [Symbols -> RecType] /\ \A t \in Symbols : rec'[t] = IF t = s THEN r ELSE rec[t]
  BY <1>1
<1>3. TradeRiskBounded'
  <2> SUFFICES ASSUME NEW t \in Symbols
               PROVE  rec'[t].via # "approved"
                        => rec'[t].qty * (rec'[t].entry - rec'[t].cur) <= RiskBudget
    BY DEF TradeRiskBounded
  <2>1. CASE t = s
    BY <1>2, <2>1 DEF Bounded
  <2>2. CASE t # s
    <3>1. rec'[t] = rec[t]
      BY <1>2, <2>2
    <3> QED
      BY <3>1 DEF IInv, TradeRiskBounded
  <2> QED
    BY <2>1, <2>2
<1>4. \A t \in Symbols : t \in Tracked' <=> IF t = s THEN r.qty > 0 ELSE t \in Tracked
  BY <1>2 DEF Tracked
<1>5. Tracked' \subseteq Symbols /\ Tracked \subseteq Symbols
  BY DEF Tracked
<1> QED
  BY <1>2, <1>3, <1>4, <1>5 DEF RecType

\* The records are finitely many.
LEMMA TrackedFinite == IsFiniteSet(Tracked) /\ Cardinality(Tracked) \in Nat
<1>1. Tracked \subseteq Symbols /\ IsFiniteSet(Symbols)
  BY CapsAssumption DEF Tracked
<1> QED
  BY <1>1, FS_Subset, FS_CardinalityType

\* A gate that saw all the records leaves room for one more.
LEMMA RoomForOne ==
  ASSUME Cardinality(Tracked) < MaxOpen, NEW s \in Symbols, Tracked' = Tracked \cup {s}
  PROVE  WithinMaxOpen'
<1>1. Cardinality(Tracked \cup {s}) <= Cardinality(Tracked) + 1
  BY TrackedFinite, FS_AddElement
<1>2. Cardinality(Tracked \cup {s}) \in Nat
  BY TrackedFinite, FS_AddElement, FS_CardinalityType
<1> QED
  BY <1>1, <1>2, TrackedFinite, CapsAssumption DEF WithinMaxOpen

\* Fewer records are within the limit too.
LEMMA FewerRecords ==
  ASSUME IInv, Tracked' \subseteq Tracked
  PROVE  WithinMaxOpen'
<1>1. Cardinality(Tracked') <= Cardinality(Tracked) /\ Cardinality(Tracked') \in Nat
  BY TrackedFinite, FS_Subset, FS_CardinalityType
<1> QED
  BY <1>1, TrackedFinite, CapsAssumption DEF WithinMaxOpen, IInv

(***************************************************************************)
(* Each action keeps the invariant.                                        *)
(***************************************************************************)

\* What the actions do to the records, in one statement.
RecordsKept == /\ rec' \in [Symbols -> RecType]
               /\ TradeRiskBounded'
               /\ WithinMaxOpen'

\* Opening a position the gate let through, at the gate's price or, from an
\* approval, at another.
LEMMA Opens ==
  ASSUME IInv, NEW s \in Symbols, Cardinality(Tracked) < MaxOpen,
         NEW q \in Nat, q > 0, NEW f \in Nat, NEW p \in Prices, NEW path \in Paths,
         path = "gated" => q * Distance(p) <= RiskBudget,
         rec' = [rec EXCEPT ![s] = NewRec(q, f, p, path)]
  PROVE  RecordsKept /\ Tracked' = Tracked \cup {s}
<1> DEFINE r == NewRec(q, f, p, path)
<1>1. r \in RecType /\ r.qty = q /\ r.via = path /\ r.entry - r.cur = Distance(p)
  BY DistanceType DEF NewRec, RecType
<1>2. Bounded(r)
  BY <1>1 DEF Bounded
<1> HIDE DEF r
<1>3. rec' = [rec EXCEPT ![s] = r]
  BY DEF r
<1>4. rec' \in [Symbols -> RecType] /\ TradeRiskBounded' /\ Tracked' = Tracked \cup {s}
  BY <1>1, <1>2, <1>3, SetRecord
<1> QED
  BY <1>4, RoomForOne DEF RecordsKept

\* A record that is dropped.
LEMMA Drops ==
  ASSUME IInv, NEW s \in Symbols, rec' = [rec EXCEPT ![s] = NoRec]
  PROVE  RecordsKept /\ Tracked' = Tracked \ {s}
<1>1. NoRec \in RecType /\ NoRec.qty = 0 /\ Bounded(NoRec)
  <2>1. NoRec \in RecType /\ NoRec.qty = 0 /\ NoRec.entry = 0 /\ NoRec.cur = 0
    BY DEF NoRec, RecType
  <2>2. 0 * (0 - 0) <= RiskBudget
    BY CapsAssumption
  <2> QED
    BY <2>1, <2>2 DEF Bounded
<1>2. rec' \in [Symbols -> RecType] /\ TradeRiskBounded' /\ Tracked' = Tracked \ {s}
  BY <1>1, SetRecord
<1> QED
  BY <1>2, FewerRecords DEF RecordsKept

\* A record that only advances: a first fill, or a stop that is raised.
LEMMA Advances ==
  ASSUME IInv, NEW s \in Symbols, rec[s].qty > 0, NEW r \in RecType,
         r.qty = rec[s].qty, r.entry = rec[s].entry, r.via = rec[s].via, r.cur >= rec[s].cur,
         rec' = [rec EXCEPT ![s] = r]
  PROVE  RecordsKept /\ Tracked' = Tracked
<1>1. rec[s] \in RecType
  BY DEF IInv, TypeOK, RecType
<1>2. Bounded(r)
  <2> SUFFICES ASSUME r.via # "approved"
               PROVE  r.qty * (r.entry - r.cur) <= RiskBudget
    BY DEF Bounded
  <2>1. rec[s].qty * (rec[s].entry - rec[s].cur) <= RiskBudget
    BY DEF IInv, TradeRiskBounded
  <2>2. r.qty \in Nat /\ r.entry \in Nat /\ r.cur \in Nat /\ rec[s].cur \in Nat
    BY <1>1 DEF RecType
  <2>3. r.qty * (r.entry - r.cur) <= r.qty * (r.entry - rec[s].cur)
    <3>1. r.entry - r.cur \in Int /\ r.entry - rec[s].cur \in Int
          /\ r.entry - r.cur <= r.entry - rec[s].cur
      BY <2>2
    <3> QED
      BY <2>2, <3>1, TimesMonotone
  <2>4. \A a, b \in Int : a <= b /\ b <= RiskBudget => a <= RiskBudget
    BY CapsAssumption
  <2>5. r.qty * (r.entry - r.cur) \in Int /\ r.qty * (r.entry - rec[s].cur) \in Int
    BY <2>2, SMT
  <2> QED
    BY <2>1, <2>3, <2>4, <2>5
<1>3. rec' \in [Symbols -> RecType] /\ TradeRiskBounded' /\ Tracked' = Tracked \cup {s}
  BY <1>2, SetRecord
<1>4. Tracked' = Tracked
  BY <1>3 DEF Tracked
<1> QED
  BY <1>3, <1>4, FewerRecords DEF RecordsKept

\* What the loop knows is unchanged when it does not run.
LEMMA OutsideLoop ==
  ASSUME IInv, phase # "enter", UNCHANGED <<phase, seen, known, todo>>
  PROVE  LoopAgrees'
BY DEF IInv, LoopAgrees

\* The parts of the invariant, collected.
LEMMA Collect ==
  ASSUME RecordsKept, LoopAgrees',
         prop' \in [Symbols -> [qty : Nat, price : Prices \cup {0}, budget : 0..RiskBudget]],
         phase' \in {"off", "manage", "enter"}, mode' \in {"execute", "propose", "none"},
         {seen', known', todo'} \subseteq SUBSET Symbols
  PROVE  IInv'
BY DEF RecordsKept, IInv, TypeOK, RecType

\* The initial state.
LEMMA InitIInv == Init => IInv
<1> SUFFICES ASSUME Init PROVE IInv
  OBVIOUS
<1>1. Tracked = {}
  BY DEF Init, Tracked, NoRec
<1>2. TypeOK
  BY CapsAssumption DEF Init, TypeOK, NoRec, NoProp
<1>3. LoopAgrees
  BY DEF Init, LoopAgrees
<1>4. WithinMaxOpen
  <2>1. Cardinality({}) = 0
    BY FS_EmptySet
  <2> QED
    BY <1>1, <2>1, CapsAssumption DEF WithinMaxOpen
<1>5. TradeRiskBounded
  <2>1. \A s \in Symbols : rec[s].qty = 0 /\ rec[s].entry = 0 /\ rec[s].cur = 0
    BY DEF Init, NoRec
  <2>2. 0 * (0 - 0) <= RiskBudget
    BY CapsAssumption
  <2> QED
    BY <2>1, <2>2 DEF TradeRiskBounded
<1> QED
  BY <1>2, <1>3, <1>4, <1>5 DEF IInv

\* An action that leaves the records alone.
LEMMA RecordsUntouched == IInv /\ UNCHANGED rec => RecordsKept /\ Tracked' = Tracked
BY DEF IInv, TypeOK, RecType, RecordsKept, TradeRiskBounded, WithinMaxOpen, Tracked

PropRec  == [qty : Nat, price : Prices \cup {0}, budget : 0..RiskBudget]
PropType == [Symbols -> PropRec]

\* A proposal put in its place is well typed.
LEMMA SetProposal ==
  ASSUME IInv, NEW s \in Symbols, NEW v \in PropRec, prop' = [prop EXCEPT ![s] = v]
  PROVE  prop' \in PropType
BY DEF IInv, TypeOK, PropType, PropRec

\* And so is one that is taken away.
LEMMA NoPropType == NoProp \in PropRec
BY CapsAssumption DEF NoProp, PropRec

\* The cycle up to the entries.
LEMMA ManageStep ==
  ASSUME IInv, NEW s \in Symbols,
         StartCycle \/ SettleFill(s) \/ Drop(s) \/ RaiseStop(s) \/ BeginEntries
  PROVE  IInv'
<1>1. CASE StartCycle
  <2>1. RecordsKept
    BY <1>1, RecordsUntouched DEF StartCycle
  <2>2. LoopAgrees'
    BY <1>1 DEF StartCycle, IInv, LoopAgrees
  <2> QED
    BY <1>1, <2>1, <2>2, Collect DEF StartCycle, IInv, TypeOK
<1>2. CASE SettleFill(s)
  <2>1. PICK f \in 1..rec[s].qty : rec' = [rec EXCEPT ![s].filled = f]
    BY <1>2 DEF SettleFill
  <2>2. rec[s] \in RecType
    BY DEF IInv, TypeOK, RecType
  <2>3. [rec[s] EXCEPT !.filled = f] \in RecType
    BY <2>2 DEF RecType
  <2>4. rec' = [rec EXCEPT ![s] = [rec[s] EXCEPT !.filled = f]]
    BY <2>1 DEF IInv, TypeOK
  <2>5. RecordsKept
    <3> DEFINE r == [rec[s] EXCEPT !.filled = f]
    <3>1. r.qty = rec[s].qty /\ r.entry = rec[s].entry /\ r.via = rec[s].via /\ r.cur = rec[s].cur
      BY <2>2 DEF RecType
    <3>2. r.cur >= rec[s].cur /\ rec[s].qty > 0
      BY <1>2, <2>2, <3>1 DEF SettleFill, RecType
    <3> HIDE DEF r
    <3> QED
      BY <2>3, <2>4, <3>1, <3>2, Advances DEF r
  <2>6. LoopAgrees'
    BY <1>2, OutsideLoop DEF SettleFill
  <2> QED
    BY <1>2, <2>5, <2>6, Collect DEF SettleFill, IInv, TypeOK
<1>3. CASE Drop(s)
  <2>1. RecordsKept
    BY <1>3, Drops DEF Drop
  <2>2. LoopAgrees'
    BY <1>3, OutsideLoop DEF Drop
  <2> QED
    BY <1>3, <2>1, <2>2, Collect DEF Drop, IInv, TypeOK
<1>4. CASE RaiseStop(s)
  <2>1. rec[s] \in RecType
    BY DEF IInv, TypeOK, RecType
  <2>2. PICK lvl \in Levels :
          LET new == IF lvl > rec[s].stop THEN lvl ELSE rec[s].stop
          IN \/ rec' = [rec EXCEPT ![s].stop = new]
             \/ /\ mode = "execute"
                /\ new > rec[s].cur
                /\ rec' = [rec EXCEPT ![s].stop = new, ![s].cur = new]
    BY <1>4 DEF RaiseStop
  <2> DEFINE new == IF lvl > rec[s].stop THEN lvl ELSE rec[s].stop
  <2>3. new \in Nat
    BY <2>1, CapsAssumption DEF RecType
  <2>4. PICK r \in RecType : /\ r.qty = rec[s].qty /\ r.entry = rec[s].entry
                             /\ r.via = rec[s].via /\ r.cur >= rec[s].cur
                             /\ rec' = [rec EXCEPT ![s] = r]
    <3> HIDE DEF new
    <3>1. CASE rec' = [rec EXCEPT ![s].stop = new]
      <4>1. rec' = [rec EXCEPT ![s] = [rec[s] EXCEPT !.stop = new]]
        BY <3>1 DEF IInv, TypeOK
      <4>2. [rec[s] EXCEPT !.stop = new] \in RecType
        BY <2>1, <2>3 DEF RecType
      <4> DEFINE r == [rec[s] EXCEPT !.stop = new]
      <4>3. r.qty = rec[s].qty /\ r.entry = rec[s].entry /\ r.via = rec[s].via /\ r.cur >= rec[s].cur
        BY <2>1 DEF RecType
      <4> QED
        BY <4>1, <4>2, <4>3
    <3>2. CASE new > rec[s].cur /\ rec' = [rec EXCEPT ![s].stop = new, ![s].cur = new]
      <4>1. rec' = [rec EXCEPT ![s] = [rec[s] EXCEPT !.stop = new, !.cur = new]]
        BY <3>2 DEF IInv, TypeOK
      <4>2. [rec[s] EXCEPT !.stop = new, !.cur = new] \in RecType
        BY <2>1, <2>3 DEF RecType
      <4> DEFINE r == [rec[s] EXCEPT !.stop = new, !.cur = new]
      <4>3. r.qty = rec[s].qty /\ r.entry = rec[s].entry /\ r.via = rec[s].via /\ r.cur >= rec[s].cur
        BY <2>1, <2>3, <3>2 DEF RecType
      <4> QED
        BY <4>1, <4>2, <4>3
    <3> QED
      BY <2>2, <3>1, <3>2 DEF new
  <2>5. rec[s].qty > 0
    BY <1>4 DEF RaiseStop
  <2>6. RecordsKept
    BY <1>4, <2>4, <2>5, Advances DEF RaiseStop
  <2>7. LoopAgrees'
    BY <1>4, OutsideLoop DEF RaiseStop
  <2> QED
    BY <1>4, <2>6, <2>7, Collect DEF RaiseStop, IInv, TypeOK
<1>5. CASE BeginEntries
  <2>1. RecordsKept /\ Tracked' = Tracked
    BY <1>5, RecordsUntouched DEF BeginEntries
  <2>2. LoopAgrees'
    BY <1>5, <2>1 DEF BeginEntries, LoopAgrees
  <2>3. Tracked \subseteq Symbols
    BY DEF Tracked
  <2> QED
    BY <1>5, <2>1, <2>2, <2>3, Collect DEF BeginEntries, IInv, TypeOK
<1> QED
  BY <1>1, <1>2, <1>3, <1>4, <1>5

\* The loop over the symbols, and the end of a cycle.
LEMMA LoopStep ==
  ASSUME IInv, NEW s \in Symbols, Skip(s) \/ Enter(s) \/ Propose(s) \/ EndCycle
  PROVE  IInv'
<1>1. CASE Skip(s)
  <2>1. RecordsKept /\ Tracked' = Tracked
    BY <1>1, RecordsUntouched DEF Skip
  <2>2. LoopAgrees'
    BY <1>1, <2>1 DEF Skip, IInv, LoopAgrees
  <2> QED
    BY <1>1, <2>1, <2>2, Collect DEF Skip, IInv, TypeOK
<1>2. CASE Enter(s)
  <2>1. PICK p \in Prices, b \in Budgets, bp \in BuyingPowers, q \in 1..MaxPosition :
          /\ Approves(q, seen, CorrelatedKnown(s), p, b, bp)
          /\ \E f \in 0..q : rec' = [rec EXCEPT ![s] = NewRec(q, f, p, "gated")]
    BY <1>2 DEF Enter
  <2>2. PICK f \in 0..q : rec' = [rec EXCEPT ![s] = NewRec(q, f, p, "gated")]
    BY <2>1
  <2>3. q \in Nat /\ q > 0 /\ f \in Nat
    BY CapsAssumption
  <2>4. Cardinality(Tracked) < MaxOpen
    BY <1>2, <2>1 DEF Enter, Approves, IInv, LoopAgrees
  <2>5. q * Distance(p) <= RiskBudget
    <3>1. q * Distance(p) <= b /\ b \in 0..RiskBudget
      BY <2>1, CapsAssumption DEF Approves, Fits, Sized
    <3>2. q * Distance(p) \in Nat
      BY <2>3, DistanceType, SMT
    <3> QED
      BY <3>1, <3>2, CapsAssumption
  <2>6. RecordsKept /\ Tracked' = Tracked \cup {s}
    BY <2>2, <2>3, <2>4, <2>5, Opens
  <2>7. LoopAgrees'
    BY <1>2, <2>6 DEF Enter, IInv, LoopAgrees
  <2> QED
    BY <1>2, <2>6, <2>7, Collect DEF Enter, IInv, TypeOK
<1>3. CASE Propose(s)
  <2>1. RecordsKept /\ Tracked' = Tracked
    BY <1>3, RecordsUntouched DEF Propose
  <2>2. LoopAgrees'
    BY <1>3, <2>1 DEF Propose, IInv, LoopAgrees
  <2>3. PICK p \in Prices, b \in Budgets, q \in 1..MaxPosition :
          prop' = [prop EXCEPT ![s] = [qty |-> q, price |-> p, budget |-> b]]
    BY <1>3 DEF Propose
  <2>4. prop' \in PropType
    <3>1. [qty |-> q, price |-> p, budget |-> b] \in PropRec
      BY CapsAssumption DEF PropRec
    <3> QED
      BY <2>3, <3>1, SetProposal
  <2> QED
    BY <1>3, <2>1, <2>2, <2>4, Collect DEF Propose, IInv, TypeOK, PropType, PropRec
<1>4. CASE EndCycle
  <2>1. RecordsKept
    BY <1>4, RecordsUntouched DEF EndCycle
  <2>2. LoopAgrees'
    BY <1>4 DEF EndCycle, LoopAgrees
  <2> QED
    BY <1>4, <2>1, <2>2, Collect DEF EndCycle, IInv, TypeOK
<1> QED
  BY <1>1, <1>2, <1>3, <1>4

\* Discovery and the phone.
LEMMA OutsideStep ==
  ASSUME IInv, NEW s \in Symbols,
         Discover(s) \/ Expire(s) \/ Buy(s) \/ Approve(s) \/ Close(s)
  PROVE  IInv'
<1>1. CASE Discover(s)
  <2>1. RecordsKept /\ Tracked' = Tracked
    BY <1>1, RecordsUntouched DEF Discover
  <2>2. LoopAgrees'
    BY <1>1, <2>1 DEF Discover, IInv, LoopAgrees
  <2>3. PICK p \in Prices, b \in Budgets, q \in 1..MaxPosition :
          prop' = [prop EXCEPT ![s] = [qty |-> q, price |-> p, budget |-> b]]
    BY <1>1 DEF Discover
  <2>4. prop' \in PropType
    <3>1. [qty |-> q, price |-> p, budget |-> b] \in PropRec
      BY CapsAssumption DEF PropRec
    <3> QED
      BY <2>3, <3>1, SetProposal
  <2> QED
    BY <1>1, <2>1, <2>2, <2>4, Collect DEF Discover, IInv, TypeOK, PropType, PropRec
<1>2. CASE Expire(s)
  <2>1. RecordsKept /\ Tracked' = Tracked
    BY <1>2, RecordsUntouched DEF Expire
  <2>2. LoopAgrees'
    BY <1>2, <2>1 DEF Expire, IInv, LoopAgrees
  <2>3. prop' \in PropType
    BY <1>2, SetProposal, NoPropType DEF Expire
  <2> QED
    BY <1>2, <2>1, <2>2, <2>3, Collect DEF Expire, IInv, TypeOK, PropType, PropRec
<1>3. CASE Buy(s)
  <2>1. PICK p \in Prices, bp \in BuyingPowers, q \in 1..MaxPosition :
          /\ Approves(q, Tracked, {}, p, RiskBudget, bp)
          /\ \E asked \in 1..q : \E f \in 0..asked :
               rec' = [rec EXCEPT ![s] = NewRec(asked, f, p, "gated")]
    BY <1>3 DEF Buy
  <2>2. PICK asked \in 1..q, f \in 0..q : rec' = [rec EXCEPT ![s] = NewRec(asked, f, p, "gated")]
    <3>1. PICK asked \in 1..q : \E f \in 0..asked :
               rec' = [rec EXCEPT ![s] = NewRec(asked, f, p, "gated")]
      BY <2>1
    <3>2. PICK f \in 0..asked : rec' = [rec EXCEPT ![s] = NewRec(asked, f, p, "gated")]
      BY <3>1
    <3>3. f \in 0..q
      BY CapsAssumption
    <3> QED
      BY <3>2, <3>3
  <2>3. q \in Nat /\ asked \in Nat /\ asked > 0 /\ asked <= q /\ f \in Nat
    BY CapsAssumption
  <2>4. asked * Distance(p) <= RiskBudget
    <3>1. q * Distance(p) <= RiskBudget
      BY <2>1 DEF Approves, Fits, Sized
    <3>2. asked * Distance(p) <= q * Distance(p)
      BY <2>3, DistanceType, TrimLowers
    <3>3. q * Distance(p) \in Nat /\ asked * Distance(p) \in Nat
      BY <2>3, DistanceType, SMT
    <3> QED
      BY <3>1, <3>2, <3>3, CapsAssumption
  <2>5. RecordsKept
    BY <2>1, <2>2, <2>3, <2>4, Opens DEF Approves
  <2>6. LoopAgrees'
    BY <1>3, OutsideLoop DEF Buy
  <2> QED
    BY <1>3, <2>5, <2>6, Collect DEF Buy, IInv, TypeOK
<1>4. CASE Approve(s)
  <2>1. PICK now \in Prices, bp \in BuyingPowers, q \in 1..MaxPosition :
          /\ Approves(q, Tracked, {}, prop[s].price, prop[s].budget, bp)
          /\ \E f \in 0..Min({q, prop[s].qty}) :
               rec' = [rec EXCEPT ![s] = NewRec(Min({q, prop[s].qty}), f, now, "approved")]
    BY <1>4 DEF Approve
  <2>2. prop[s].qty \in Nat /\ prop[s].qty > 0 /\ q \in Nat /\ q > 0
    BY <1>4, CapsAssumption DEF Approve, IInv, TypeOK
  <2> DEFINE m == Min({q, prop[s].qty})
  <2>3. m \in Nat /\ m > 0
    BY <2>2, LesserOfTwo
  <2> HIDE DEF m
  <2>4. PICK f \in 0..m : rec' = [rec EXCEPT ![s] = NewRec(m, f, now, "approved")]
    BY <2>1 DEF m
  <2>5. RecordsKept
    <3>1. f \in Nat
      BY <2>3
    <3> QED
      BY <2>1, <2>3, <2>4, <3>1, Opens DEF Approves
  <2>6. LoopAgrees'
    BY <1>4, OutsideLoop DEF Approve
  <2>7. prop' \in PropType
    BY <1>4, SetProposal, NoPropType DEF Approve
  <2> QED
    BY <1>4, <2>5, <2>6, <2>7, Collect DEF Approve, IInv, TypeOK, PropType, PropRec
<1>5. CASE Close(s)
  <2>1. RecordsKept
    BY <1>5, Drops DEF Close
  <2>2. LoopAgrees'
    BY <1>5, OutsideLoop DEF Close
  <2> QED
    BY <1>5, <2>1, <2>2, Collect DEF Close, IInv, TypeOK
<1> QED
  BY <1>1, <1>2, <1>3, <1>4, <1>5

\* Every step keeps the invariant.
LEMMA StepIInv == IInv /\ [Next]_vars => IInv'
<1> SUFFICES ASSUME IInv, [Next]_vars PROVE IInv'
  OBVIOUS
<1>1. CASE UNCHANGED vars
  BY <1>1 DEF vars, IInv, TypeOK, LoopAgrees, WithinMaxOpen, TradeRiskBounded, Tracked
<1>2. CASE StartCycle \/ BeginEntries \/ EndCycle
  <2>1. CASE Symbols = {}
    <3>1. Tracked = {} /\ Tracked' = {}
      BY <2>1 DEF Tracked
    <3>2. WithinMaxOpen' /\ TradeRiskBounded'
      BY <2>1, <3>1 DEF IInv, WithinMaxOpen, TradeRiskBounded
    <3>3. LoopAgrees'
      BY <1>2, <3>1 DEF StartCycle, BeginEntries, EndCycle, IInv, LoopAgrees
    <3>4. TypeOK'
      BY <1>2, <3>1 DEF StartCycle, BeginEntries, EndCycle, IInv, TypeOK
    <3> QED
      BY <3>2, <3>3, <3>4 DEF IInv
  <2>2. CASE \E s : s \in Symbols
    BY <1>2, <2>2, ManageStep, LoopStep
  <2> QED
    BY <2>1, <2>2
<1>3. ASSUME NEW s \in Symbols,
             \/ SettleFill(s) \/ Drop(s) \/ RaiseStop(s)
             \/ Skip(s) \/ Enter(s) \/ Propose(s)
             \/ Discover(s) \/ Expire(s) \/ Buy(s) \/ Approve(s) \/ Close(s)
      PROVE  IInv'
  BY <1>3, ManageStep, LoopStep, OutsideStep
<1> QED
  BY <1>1, <1>2, <1>3 DEF Next

(***************************************************************************)
(* The theorems.                                                           *)
(***************************************************************************)
\* The invariant of the gate and of its callers' bookkeeping.
THEOREM Invariance == Spec => []IInv
<1> QED
  BY InitIInv, StepIInv, PTL DEF Spec

\* max_open_positions holds of the records at all times, however many entries
\* a cycle makes and whatever the phone adds.
THEOREM MaxOpenHolds == Spec => []WithinMaxOpen
<1>1. IInv => WithinMaxOpen
  BY DEF IInv
<1> QED
  BY <1>1, Invariance, PTL

\* No position gated at its own price can lose more than a trade's budget at
\* its resting stop.
THEOREM TradeRiskHolds == Spec => []TradeRiskBounded
<1>1. IInv => TradeRiskBounded
  BY DEF IInv
<1> QED
  BY <1>1, Invariance, PTL

(***************************************************************************)
(* Entries and the caps, step by step.                                     *)
(***************************************************************************)

\* A symbol gets its first record only from an entry, a /buy or an approval.
LEMMA WhoEnters ==
  ASSUME IInv, Next, NEW s \in Symbols, Entered(s)
  PROVE  Enter(s) \/ Buy(s) \/ Approve(s)
<1>1. \A t \in Symbols : rec[t] \in RecType
  BY DEF IInv, TypeOK, RecType
<1>2. rec[s].qty = 0 /\ rec'[s].qty > 0
  BY DEF Entered
<1>3. rec' # rec
  BY <1>1, <1>2 DEF RecType
<1>4. ASSUME NEW t \in Symbols, SettleFill(t) \/ Drop(t) \/ RaiseStop(t) \/ Close(t)
      PROVE  FALSE
  <2>1. t # s
    <3>1. CASE Close(t)
      BY <1>2, <3>1 DEF Close, Tracked
    <3>2. CASE SettleFill(t) \/ Drop(t) \/ RaiseStop(t)
      BY <1>2, <3>2 DEF SettleFill, Drop, RaiseStop
    <3> QED
      BY <1>4, <3>1, <3>2
  <2>2. \A v : rec' = [rec EXCEPT ![t] = v] => rec'[s] = rec[s]
    BY <2>1 DEF IInv, TypeOK
  <2>3. \E v : rec' = [rec EXCEPT ![t] = v]
    <3>1. CASE SettleFill(t)
      BY <3>1 DEF SettleFill
    <3>2. CASE Drop(t)
      BY <3>2 DEF Drop
    <3>3. CASE RaiseStop(t)
      BY <3>3 DEF RaiseStop
    <3>4. CASE Close(t)
      BY <3>4 DEF Close
    <3> QED
      BY <1>4, <3>1, <3>2, <3>3, <3>4
  <2>4. rec'[s] = rec[s]
    BY <2>2, <2>3
  <2> QED
    BY <1>2, <2>4
<1>5. ASSUME NEW t \in Symbols, Enter(t) \/ Buy(t) \/ Approve(t)
      PROVE  t = s
  <2>1. \E v : rec' = [rec EXCEPT ![t] = v]
    BY <1>5 DEF Enter, Buy, Approve
  <2> QED
    BY <1>1, <1>2, <2>1 DEF IInv, TypeOK, RecType
<1>6. \A t \in Symbols : ~(Skip(t) \/ Propose(t) \/ Discover(t) \/ Expire(t))
  BY <1>3 DEF Skip, Propose, Discover, Expire
<1>7. ~(StartCycle \/ BeginEntries \/ EndCycle)
  BY <1>3 DEF StartCycle, BeginEntries, EndCycle
<1> QED
  BY <1>4, <1>5, <1>6, <1>7 DEF Next

\* What the record of an entry adds to the exposure, at the ordered quantity.
LEMMA Added ==
  ASSUME IInv, NEW s \in Symbols, NEW q \in Nat, NEW f \in Nat, NEW p \in Prices, NEW path \in Paths,
         rec' = [rec EXCEPT ![s] = NewRec(q, f, p, path)]
  PROVE  RiskAdded(s) = q * Distance(p) /\ CostAdded(s) = q * p /\ rec'[s].via = path
<1>1. rec'[s] = NewRec(q, f, p, path)
  BY DEF IInv, TypeOK
<1>2. /\ rec'[s].qty = q /\ rec'[s].entry = p /\ rec'[s].via = path
      /\ rec'[s].entry - rec'[s].stop = Distance(p)
  BY <1>1, DistanceType DEF NewRec
<1> QED
  BY <1>2 DEF RiskAdded, CostAdded

\* The listing an entry of the cycle was gated against is the records.
LEMMA GatedEntry ==
  ASSUME IInv, Next, NEW s \in Symbols, Entered(s), phase = "enter"
  PROVE  /\ OpenRisk(Tracked) + RiskAdded(s) <= MaxOpenRisk
         /\ Gross(Tracked) + CostAdded(s) <= MaxGross
         /\ OpenRisk(CorrelatedKnown(s)) + RiskAdded(s) <= MaxCorrRisk
<1>1. Enter(s)
  BY WhoEnters DEF Buy, Approve
<1>2. PICK p \in Prices, b \in Budgets, bp \in BuyingPowers, q \in 1..MaxPosition :
          /\ Approves(q, seen, CorrelatedKnown(s), p, b, bp)
          /\ \E f \in 0..q : rec' = [rec EXCEPT ![s] = NewRec(q, f, p, "gated")]
  BY <1>1 DEF Enter
<1>3. PICK f \in 0..q : rec' = [rec EXCEPT ![s] = NewRec(q, f, p, "gated")]
  BY <1>2
<1>4. q \in Nat /\ f \in Nat
  BY CapsAssumption
<1>5. RiskAdded(s) = q * Distance(p) /\ CostAdded(s) = q * p
  BY <1>3, <1>4, Added
<1>6. seen = Tracked
  BY DEF IInv, LoopAgrees
<1>7. Fits(q, Tracked, CorrelatedKnown(s), p, b, bp)
  BY <1>2, <1>6 DEF Approves
<1> QED
  BY <1>5, <1>7 DEF Fits

(***************************************************************************)
(* Exposure is a sum of whole numbers, however the fold picks the records. *)
(***************************************************************************)
\* Of finite sets of which one has a property, one has it and no part of it has.
LEMMA Smallest ==
  ASSUME NEW C, IsFiniteSet(C), NEW T \in SUBSET (SUBSET C), T # {}
  PROVE  \E s \in T : \A u \in SUBSET s : u \in T => u = s
  <1>1. IsWellFoundedOn(StrictSubsetOrdering(C), SUBSET C)
    BY FS_StrictSubsetOrderingWellFounded, FS_FiniteSubsetsOfFinite
  <1>2. PICK s \in T : \A u \in T : ~(<<u, s>> \in StrictSubsetOrdering(C))
    BY <1>1, WFMin
  <1>3. ASSUME NEW u \in T, u \in SUBSET s, u # s
        PROVE  <<u, s>> \in StrictSubsetOrdering(C)
    <2>1. <<u, s>> \in (SUBSET C) \X (SUBSET C) /\ <<u, s>>[1] = u /\ <<u, s>>[2] = s
      OBVIOUS
    <2>2. QED
      BY <1>3, <2>1 DEF StrictSubsetOrdering
  <1>4. \A u \in SUBSET s : u \in T => u = s
    BY <1>2, <1>3
  <1>5. QED
    BY <1>4

Pick(s) == CHOOSE x \in s : TRUE

\* The sums of the subsets of C, as the fold computes them.
Adds(w, C, f) ==
  f = [s \in SUBSET C |-> IF s = {} THEN 0 ELSE w[Pick(s)] + f[s \ {Pick(s)}]]

\* What is picked is there.
LEMMA PickIn ==
  ASSUME NEW s, s # {}
  PROVE  Pick(s) \in s
  BY DEF Pick

\* One sum from the next smaller.
LEMMA AddsStep ==
  ASSUME NEW w, NEW C, NEW f, Adds(w, C, f), NEW s \in SUBSET C
  PROVE  f[s] = IF s = {} THEN 0 ELSE w[Pick(s)] + f[s \ {Pick(s)}]
  <1> DEFINE F == [x \in SUBSET C |-> IF x = {} THEN 0 ELSE w[Pick(x)] + f[x \ {Pick(x)}]]
  <1>1. f = F
    BY DEF Adds
  <1>2. F[s] = IF s = {} THEN 0 ELSE w[Pick(s)] + f[s \ {Pick(s)}]
    OBVIOUS
  <1>3. QED
    BY <1>1, <1>2

\* The sums are determined.
LEMMA AddsUnique ==
  ASSUME NEW w, NEW C, IsFiniteSet(C), NEW D, NEW f, NEW g, Adds(w, C, f), Adds(w, D, g),
         NEW s \in SUBSET C, s \in SUBSET D
  PROVE  f[s] = g[s]
  <1> DEFINE T == {x \in SUBSET C : x \in SUBSET D /\ f[x] # g[x]}
  <1>1. SUFFICES ASSUME T # {} PROVE FALSE
    OBVIOUS
  <1>2. T \in SUBSET (SUBSET C)
    OBVIOUS
  <1>3. PICK x \in T : \A u \in SUBSET x : u \in T => u = x
    <2> HIDE DEF T
    <2>1. QED
      BY <1>1, <1>2, Smallest
  <1>4. x \in SUBSET C /\ x \in SUBSET D /\ f[x] # g[x]
    BY <1>3
  <1>5. x # {}
    BY <1>4, AddsStep
  <1> DEFINE u == x \ {Pick(x)}
  <1>6. u \in SUBSET x /\ u # x
    BY <1>5, PickIn
  <1>7. f[u] = g[u]
    BY <1>3, <1>4, <1>6
  <1> HIDE DEF T
  <1>8. f[x] = w[Pick(x)] + f[u] /\ g[x] = w[Pick(x)] + g[u]
    <2> x \in SUBSET C /\ x \in SUBSET D /\ x # {}
      BY <1>4, <1>5
    <2>1. f[x] = w[Pick(x)] + f[x \ {Pick(x)}]
      BY AddsStep
    <2>2. g[x] = w[Pick(x)] + g[x \ {Pick(x)}]
      BY AddsStep
    <2>3. QED
      BY <2>1, <2>2
  <1>9. QED
    BY <1>4, <1>7, <1>8

\* And there are such sums.
LEMMA AddsExist ==
  ASSUME NEW w, NEW C, IsFiniteSet(C)
  PROVE  \E f : Adds(w, C, f)
  <1> DEFINE T == {x \in SUBSET C : ~\E f : Adds(w, x, f)}
  <1>1. SUFFICES ASSUME T # {} PROVE FALSE
    OBVIOUS
  <1>2. T \in SUBSET (SUBSET C)
    OBVIOUS
  <1>3. PICK x \in T : \A u \in SUBSET x : u \in T => u = x
    <2> HIDE DEF T
    <2>1. QED
      BY <1>1, <1>2, Smallest
  <1>4. x \in SUBSET C /\ ~\E f : Adds(w, x, f)
    BY <1>3
  <1>5. \A u \in SUBSET x : u # x => u \in SUBSET C /\ \E f : Adds(w, u, f)
    BY <1>3, <1>4
  <1> HIDE DEF T
  <1> DEFINE G(u) == (CHOOSE f : Adds(w, u, f))
             h == [s \in SUBSET x |-> IF s = {} THEN 0 ELSE w[Pick(s)] + G(s \ {Pick(s)})[s \ {Pick(s)}]]
  <1>6. \A u \in SUBSET x : u # x => Adds(w, u, G(u)) /\ IsFiniteSet(u)
    BY <1>4, <1>5, FS_Subset
  <1> HIDE DEF G
  <1>7. ASSUME NEW u \in SUBSET x, u # x
        PROVE  h[u] = G(u)[u]
    <2>1. CASE u = {}
      BY <1>6, <1>7, <2>1, AddsStep
    <2>2. CASE u # {}
      <3> DEFINE v == u \ {Pick(u)}
      <3>1. v \in SUBSET x /\ v \in SUBSET u /\ v # x /\ Pick(u) \in u
        BY <1>7, <2>2, PickIn
      <3>2. G(u)[u] = w[Pick(u)] + G(u)[v]
        BY <1>6, <1>7, <2>2, AddsStep
      <3>3. G(u)[v] = G(v)[v]
        <4>1. /\ Adds(w, u, G(u)) /\ IsFiniteSet(u) /\ Adds(w, v, G(v))
              /\ v \in SUBSET u /\ v \in SUBSET v
          BY <1>6, <1>7, <3>1
        <4> HIDE DEF v
        <4> QED
          BY <4>1, AddsUnique
      <3>4. h[u] = w[Pick(u)] + G(v)[v]
        BY <1>7, <2>2
      <3>5. QED
        BY <3>2, <3>3, <3>4
    <2>3. QED
      BY <2>1, <2>2
  <1>8. \A s \in SUBSET x : h[s] = IF s = {} THEN 0 ELSE w[Pick(s)] + h[s \ {Pick(s)}]
    <2>1. SUFFICES ASSUME NEW s \in SUBSET x, s # {}
                   PROVE  h[s] = w[Pick(s)] + h[s \ {Pick(s)}]
      OBVIOUS
    <2>2. s \ {Pick(s)} \in SUBSET x /\ s \ {Pick(s)} # x
      BY <2>1, PickIn
    <2>3. h[s] = w[Pick(s)] + G(s \ {Pick(s)})[s \ {Pick(s)}]
      BY <2>1
    <2> HIDE DEF h
    <2>4. QED
      BY <1>7, <2>2, <2>3
  <1>9. h = [s \in SUBSET x |-> h[s]]
    OBVIOUS
  <1> HIDE DEF h
  <1>10. Adds(w, x, h)
    BY <1>8, <1>9 DEF Adds
  <1>11. QED
    BY <1>4, <1>10

\* The step, by whether anything is left.
LEMMA AddsEnds ==
  ASSUME NEW w, NEW C, NEW f, Adds(w, C, f), NEW s \in SUBSET C
  PROVE  (s = {} => f[s] = 0) /\ (s # {} => f[s] = w[Pick(s)] + f[s \ {Pick(s)}])
BY AddsStep

\* And they are whole numbers.
LEMMA AddsTyped ==
  ASSUME NEW w, NEW C, IsFiniteSet(C), \A c \in C : w[c] \in Int, NEW f, Adds(w, C, f)
  PROVE  f[C] \in Int
<1> DEFINE T == {s \in SUBSET C : f[s] \notin Int}
<1>1. SUFFICES ASSUME T # {} PROVE FALSE
  OBVIOUS
<1>2. T \in SUBSET (SUBSET C)
  OBVIOUS
<1>3. PICK s \in T : \A u \in SUBSET s : u \in T => u = s
  <2> HIDE DEF T
  <2> QED
    BY <1>1, <1>2, Smallest
<1>4. s \in SUBSET C /\ f[s] \notin Int
  BY <1>3
<1>5. s = {} => f[s] = 0
  BY <1>4, AddsEnds, Zenon
<1>6. s # {}
  BY <1>4, <1>5
<1>9. f[s] = w[Pick(s)] + f[s \ {Pick(s)}]
  BY <1>4, <1>6, AddsEnds
<1>7. Pick(s) \in s /\ s \ {Pick(s)} \in SUBSET s /\ s \ {Pick(s)} # s
  BY <1>6, PickIn
<1>8. f[s \ {Pick(s)}] \in Int
  BY <1>3, <1>4, <1>7
<1>10. w[Pick(s)] \in Int
  BY <1>4, <1>7
<1> QED
  BY <1>4, <1>8, <1>9, <1>10

\* The exposure the gate adds its candidate to.
LEMMA ExposureTyped ==
  ASSUME IInv
  PROVE  OpenRisk(Tracked) \in Int /\ Gross(Tracked) \in Int
<1> DEFINE risk == [x \in Symbols |-> RiskOf(x)]
           cost == [x \in Symbols |-> CostOf(x)]
           C == Tracked
<1>1. C \subseteq Symbols /\ IsFiniteSet(C)
  BY TrackedFinite DEF Tracked
<1>2. \A x \in Symbols : rec[x] \in RecType
  BY DEF IInv, TypeOK, RecType
<1>3. \A x \in Symbols : RiskOf(x) \in Int /\ CostOf(x) \in Int
  <2> SUFFICES ASSUME NEW x \in Symbols PROVE RiskOf(x) \in Int /\ CostOf(x) \in Int
    OBVIOUS
  <2>1. Shares(x) \in Nat /\ rec[x].entry \in Nat /\ rec[x].stop \in Nat
    BY <1>2 DEF Shares, RecType
  <2> DEFINE n == Shares(x)
             d == IF rec[x].entry > rec[x].stop THEN rec[x].entry - rec[x].stop
                                                ELSE rec[x].stop - rec[x].entry
  <2>2. d \in Int
    BY <2>1
  <2>3. RiskOf(x) = n * d /\ CostOf(x) = n * rec[x].entry
    BY DEF RiskOf, CostOf
  <2> HIDE DEF n, d
  <2>4. n \in Int
    BY <2>1 DEF n
  <2> QED
    BY <2>1, <2>2, <2>3, <2>4
<1>4. (\A c \in C : risk[c] \in Int) /\ \A c \in C : cost[c] \in Int
  BY <1>1, <1>3
<1> DEFINE R(f) == f = [s \in SUBSET C |-> IF s = {} THEN 0 ELSE RiskOf(Pick(s)) + f[s \ {Pick(s)}]]
           G(f) == f = [s \in SUBSET C |-> IF s = {} THEN 0 ELSE CostOf(Pick(s)) + f[s \ {Pick(s)}]]
<1>5. OpenRisk(C) = (CHOOSE f : R(f))[C] /\ Gross(C) = (CHOOSE f : G(f))[C]
  BY DEF OpenRisk, Gross, MapThenSumSet, MapThenFoldSet, Pick
<1>6. \A s \in SUBSET C : s # {} => risk[Pick(s)] = RiskOf(Pick(s)) /\ cost[Pick(s)] = CostOf(Pick(s))
  BY <1>1, PickIn
<1> HIDE DEF C, risk, cost
<1>7. \A f : R(f) <=> Adds(risk, C, f)
  BY <1>6 DEF Adds
<1>8. \A f : G(f) <=> Adds(cost, C, f)
  BY <1>6 DEF Adds
<1> HIDE DEF R, G
<1>9. Adds(risk, C, CHOOSE f : R(f)) /\ Adds(cost, C, CHOOSE f : G(f))
  <2>1. (\E f : R(f)) /\ \E f : G(f)
    BY <1>1, <1>7, <1>8, AddsExist
  <2> QED
    BY <1>7, <1>8, <2>1
<1>10. OpenRisk(C) \in Int /\ Gross(C) \in Int
  BY <1>1, <1>4, <1>5, <1>9, AddsTyped
<1> QED
  BY <1>10 DEF C

\* A /buy trimmed to what was asked for stays where the gate let more through.
LEMMA GatedBuy ==
  ASSUME IInv, NEW s \in Symbols, Buy(s)
  PROVE  /\ OpenRisk(Tracked) + RiskAdded(s) <= MaxOpenRisk
         /\ Gross(Tracked) + CostAdded(s) <= MaxGross
<1>1. PICK p \in Prices, bp \in BuyingPowers, q \in 1..MaxPosition :
        /\ Approves(q, Tracked, {}, p, RiskBudget, bp)
        /\ \E asked \in 1..q : \E f \in 0..asked :
             rec' = [rec EXCEPT ![s] = NewRec(asked, f, p, "gated")]
  BY DEF Buy
<1>0. PICK asked \in 1..q : \E f \in 0..asked : rec' = [rec EXCEPT ![s] = NewRec(asked, f, p, "gated")]
  BY <1>1
<1>2. PICK f \in 0..asked : rec' = [rec EXCEPT ![s] = NewRec(asked, f, p, "gated")]
  BY <1>0
<1>3. q \in Nat /\ asked \in Nat /\ f \in Nat /\ asked <= q
  BY CapsAssumption
<1>4. RiskAdded(s) = asked * Distance(p) /\ CostAdded(s) = asked * p
  BY <1>2, <1>3, Added
<1>5. /\ OpenRisk(Tracked) + q * Distance(p) <= MaxOpenRisk
      /\ Gross(Tracked) + q * p <= MaxGross
  BY <1>1 DEF Approves, Fits
<1>6. Distance(p) \in Nat /\ p \in Nat
  BY DistanceType
<1>7. asked * Distance(p) <= q * Distance(p) /\ asked * p <= q * p
  BY <1>3, <1>6, TrimLowers
<1>8. /\ asked * Distance(p) \in Int /\ q * Distance(p) \in Int
      /\ asked * p \in Int /\ q * p \in Int /\ MaxOpenRisk \in Int /\ MaxGross \in Int
  BY <1>3, <1>6, CapsAssumption, SMT
<1> DEFINE a == asked * Distance(p)
           b == q * Distance(p)
           c == asked * p
           d == q * p
<1> HIDE DEF a, b, c, d
<1>9. OpenRisk(Tracked) + a <= MaxOpenRisk /\ Gross(Tracked) + c <= MaxGross
  BY <1>5, <1>7, <1>8, ExposureTyped DEF a, b, c, d
<1> QED
  BY <1>4, <1>9 DEF a, c

\* Every entry at the price it was gated at, of a cycle or a /buy, keeps the
\* open risk and the gross exposure of all the records within the caps.
THEOREM EntriesHold == Spec => EntriesWithinCaps
<1> DEFINE Within == \A s \in Symbols : Entered(s) /\ rec'[s].via # "approved" =>
                       /\ OpenRisk(Tracked) + RiskAdded(s) <= MaxOpenRisk
                       /\ Gross(Tracked) + CostAdded(s) <= MaxGross
<1>1. ASSUME IInv, Next PROVE Within
  <2> SUFFICES ASSUME NEW s \in Symbols, Entered(s), rec'[s].via # "approved"
               PROVE  /\ OpenRisk(Tracked) + RiskAdded(s) <= MaxOpenRisk
                      /\ Gross(Tracked) + CostAdded(s) <= MaxGross
    OBVIOUS
  <2>1. CASE Enter(s)
    BY <1>1, <2>1, GatedEntry DEF Enter
  <2>2. CASE Buy(s)
    BY <1>1, <2>2, GatedBuy
  <2>3. ~Approve(s)
    <3> SUFFICES ASSUME Approve(s) PROVE FALSE
      OBVIOUS
    <3>1. \E q, f, p : rec' = [rec EXCEPT ![s] = NewRec(q, f, p, "approved")]
      BY DEF Approve
    <3>2. rec'[s].via = "approved"
      BY <1>1, <3>1 DEF IInv, TypeOK, NewRec
    <3> QED
      BY <3>2
  <2> QED
    BY <1>1, <2>1, <2>2, <2>3, WhoEnters
<1>2. IInv /\ [Next]_vars => [Within]_vars
  BY <1>1
<1>3. Spec => [][Within]_vars
  BY <1>2, Invariance, PTL DEF Spec
<1> QED
  BY <1>3 DEF EntriesWithinCaps

\* And the open risk of its correlated cluster.
THEOREM ClusterHolds == Spec => ClusterWithinCap
<1>1. ASSUME IInv, Next
      PROVE  \A s \in History : Entered(s) /\ phase = "enter" =>
               OpenRisk(CorrelatedWith(s, Tracked \cap History)) + RiskAdded(s) <= MaxCorrRisk
  <2> SUFFICES ASSUME NEW s \in History, Entered(s), phase = "enter"
               PROVE  OpenRisk(CorrelatedWith(s, Tracked \cap History)) + RiskAdded(s) <= MaxCorrRisk
    OBVIOUS
  <2>1. s \in Symbols
    BY CapsAssumption
  <2>2. known = Tracked \cap History
    BY <1>1 DEF IInv, LoopAgrees
  <2>3. CorrelatedKnown(s) = CorrelatedWith(s, Tracked \cap History)
    BY <2>2 DEF CorrelatedKnown
  <2>4. OpenRisk(CorrelatedKnown(s)) + RiskAdded(s) <= MaxCorrRisk
    BY <1>1, <2>1, GatedEntry
  <2> QED
    BY <2>3, <2>4
<1> DEFINE Within == \A s \in History : Entered(s) /\ phase = "enter" =>
               OpenRisk(CorrelatedWith(s, Tracked \cap History)) + RiskAdded(s) <= MaxCorrRisk
<1>2. IInv /\ [Next]_vars => [Within]_vars
  BY <1>1
<1>3. Spec => [][Within]_vars
  BY <1>2, Invariance, PTL DEF Spec
<1> QED
  BY <1>3 DEF ClusterWithinCap
=============================================================================
