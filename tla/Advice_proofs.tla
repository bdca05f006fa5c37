--------------------------- MODULE Advice_proofs ---------------------------
(***************************************************************************)
(* Advice and what is made of it, for every set of strategies, proposals   *)
(* and sources: some strategy always stays active; a suggestion keeps each *)
(* source's share; and, of the discovery passes that vote with the         *)
(* sources' weights, an idea on the list has earned its place.  The sums   *)
(* of weights are common to both.                                          *)
(***************************************************************************)
EXTENDS Advice, Discovery, FiniteSetTheorems, WellFoundedInduction, TLAPS

(***************************************************************************)
(* Rotation                                                                *)
(***************************************************************************)
StateType == [Strategies -> Entry \cup {None}]

\* Applying a change yields a well-typed state.
LEMMA ApplyTyped ==
  ASSUME NEW st \in StateType, NEW ch \in Change
  PROVE  Apply(st, ch) \in StateType
  <1>1. ch.strategy \in Strategies /\ ch.weight \in Weights
    BY AdviceAssumption DEF Change, Actions, Weights
  <1>2. EntryOf(st, ch.strategy) \in Entry
    BY <1>1, AdviceAssumption, NoneAssumption DEF EntryOf, StateType, Entry, Weights
  <1> DEFINE cur == EntryOf(st, ch.strategy)
             new == CASE ch.action = "disable" -> [enabled |-> FALSE, weight |-> cur.weight]
                      [] ch.action = "enable"  -> [enabled |-> TRUE, weight |-> cur.weight]
                      [] OTHER                 -> [enabled |-> ch.weight > 0, weight |-> ch.weight]
  <1>3. new \in Entry
    <2>1. CASE ch.action = "disable"
      BY <1>2, <2>1 DEF Entry
    <2>2. CASE ch.action = "enable"
      BY <1>2, <2>2 DEF Entry
    <2>3. CASE ch.action \notin {"disable", "enable"}
      BY <1>1, <2>3 DEF Entry
    <2>4. QED
      BY <2>1, <2>2, <2>3
  <1>4. Apply(st, ch) = [st EXCEPT ![ch.strategy] = new]
    BY DEF Apply
  <1> HIDE DEF new
  <1>5. QED
    BY <1>1, <1>3, <1>4 DEF StateType

\* A change says nothing of the other strategies.
LEMMA ApplyElsewhere ==
  ASSUME NEW st \in StateType, NEW ch \in Change, NEW s \in Active(st), s # ch.strategy
  PROVE  s \in Active(Apply(st, ch))
  <1>1. s \in Strategies /\ IsEnabled(st, s)
    BY DEF Active
  <1>2. Apply(st, ch)[s] = st[s]
    BY <1>1 DEF Apply, StateType
  <1>3. QED
    BY <1>1, <1>2 DEF Active, IsEnabled

\* A strategy that is active stays so unless the change switches it off.
LEMMA ApplyHere ==
  ASSUME NEW st \in StateType, NEW ch \in Change, ch.strategy \in Active(st),
         ch.action = "enable" \/ (ch.action = "reweight" /\ ch.weight # 0)
  PROVE  ch.strategy \in Active(Apply(st, ch))
  <1> DEFINE s == ch.strategy
             new == Apply(st, ch)[s]
  <1>1. s \in Strategies /\ IsEnabled(st, s) /\ ch.weight \in Weights
    BY AdviceAssumption DEF Active, Change, Actions, Weights
  <1>2. EntryOf(st, s) \in Entry /\ EntryOf(st, s).weight > 0
    BY <1>1, AdviceAssumption, NoneAssumption DEF EntryOf, IsEnabled, StateType, Entry, Weights
  <1>3. new \in Entry /\ new.enabled /\ new.weight > 0
    <2>1. CASE ch.action = "enable"
      <3>1. new = [enabled |-> TRUE, weight |-> EntryOf(st, s).weight]
        BY <1>1, <2>1 DEF Apply, StateType
      <3>2. QED
        BY <1>2, <3>1 DEF Entry
    <2>2. CASE ch.action = "reweight" /\ ch.weight # 0
      <3>1. new = [enabled |-> ch.weight > 0, weight |-> ch.weight]
        BY <1>1, <2>2 DEF Apply, StateType
      <3>2. ch.weight > 0
        BY <1>1, <2>2, AdviceAssumption DEF Weights
      <3>3. (ch.weight > 0) = TRUE
        BY <3>2
      <3>4. new = [enabled |-> TRUE, weight |-> ch.weight]
        BY <3>1, <3>3
      <3>5. QED
        BY <1>1, <3>2, <3>4 DEF Entry
    <2>3. QED
      BY <2>1, <2>2
  <1>4. new # None
    BY <1>3, NoneAssumption
  <1>5. QED
    BY <1>1, <1>3, <1>4 DEF Active, IsEnabled

\* What validation promises of the state a change leads to.
LEMMA ValidKeepsActive ==
  ASSUME NEW st \in StateType, NEW ch \in Change, Active(st) # {}, Valid(st, ch)
  PROVE  Active(Apply(st, ch)) # {}
  <1>1. CASE ch.action = "disable" \/ (ch.action = "reweight" /\ ch.weight = 0)
    <2>1. PICK s \in Active(st) : s # ch.strategy
      BY <1>1 DEF Valid, ResultingEnabled
    <2>2. QED
      BY <2>1, ApplyElsewhere
  <1>2. CASE ~(ch.action = "disable" \/ (ch.action = "reweight" /\ ch.weight = 0))
    <2>1. PICK s \in Active(st) : TRUE
      OBVIOUS
    <2>2. CASE s # ch.strategy
      BY <2>1, <2>2, ApplyElsewhere
    <2>3. CASE s = ch.strategy
      <3>1. ch.action = "enable" \/ (ch.action = "reweight" /\ ch.weight # 0)
        BY <1>2 DEF Change, Actions
      <3>2. QED
        BY <2>1, <2>3, <3>1, ApplyHere
    <2>4. QED
      BY <2>2, <2>3
  <1>3. QED
    BY <1>1, <1>2

\* The defaults, with no file, leave some strategy active.
LEMMA DefaultsActive ==
  ASSUME NEW st, st = [s \in Strategies |-> None]
  PROVE  st \in StateType /\ Active(st) # {}
  BY AdviceAssumption DEF StateType, Active, IsEnabled

\* Nothing is recorded, running or applied at first.
LEMMA InitIInv == Init => IInv
  BY DefaultsActive, NoneAssumption
  DEF Init, IInv, TypeOK, MarkedWasMade, SomeStrategyActive, StateType

\* A mark changes the status of a proposal that was made, and leaves it one.
LEMMA MarkTyped ==
  ASSUME IInv, NEW r \in Rotations, rotation[r] # None, NEW status \in Statuses, Mark(r, status)
  PROVE  /\ rotation' \in [Rotations -> Proposal \cup {None}]
         /\ \A q \in Rotations : rotation[q] # None => rotation'[q] # None
  <1>1. rotation[r] \in Proposal
    BY DEF IInv, TypeOK
  <1>2. rotation' = [rotation EXCEPT ![r] = [change |-> rotation[r].change, status |-> status]]
    <2>1. rotation' = [rotation EXCEPT ![r] = [rotation[r] EXCEPT !.status = status]]
      BY DEF Mark, IInv, TypeOK
    <2>2. [rotation[r] EXCEPT !.status = status] = [change |-> rotation[r].change, status |-> status]
      BY <1>1 DEF Proposal
    <2>3. QED
      BY <2>1, <2>2
  <1>3. [change |-> rotation[r].change, status |-> status] \in Proposal
    BY <1>1 DEF Proposal
  <1>4. [change |-> rotation[r].change, status |-> status] # None
    BY <1>3, NoneAssumption
  <1>5. QED
    BY <1>2, <1>3, <1>4 DEF IInv, TypeOK

\* What each action of the rotation does.
LEMMA ProposeSound ==
  ASSUME IInv, NEW r \in Rotations, NEW ch \in Change, Propose(r, ch) PROVE IInv'
  <1>1. rotation' = [rotation EXCEPT ![r] = [change |-> ch, status |-> "pending"]]
    BY DEF Propose
  <1>2. [change |-> ch, status |-> "pending"] \in Proposal
    BY DEF Proposal, Statuses
  <1>3. TypeOK' /\ MarkedWasMade'
    BY <1>1, <1>2, NoneAssumption DEF IInv, TypeOK, MarkedWasMade, Propose
  <1>4. SomeStrategyActive'
    BY DEF IInv, SomeStrategyActive, Active, IsEnabled, Propose
  <1>5. QED
    BY <1>3, <1>4 DEF IInv

\* An approval applies what it marks.
LEMMA ApproveSound == ASSUME IInv, NEW r \in Rotations, Approve(r) PROVE IInv'
  <1> DEFINE ch == rotation[r].change
  <1>1. state \in StateType /\ Active(state) # {} /\ Valid(state, ch)
    BY DEF IInv, TypeOK, StateType, SomeStrategyActive, Approve
  <1>2. rotation[r] # None /\ rotation[r] \in Proposal
    BY DEF IInv, TypeOK, Approve, Pending
  <1>3. ch \in Change
    BY <1>2 DEF Proposal
  <1>4. state' = Apply(state, ch) /\ marking' = r /\ rotation' = rotation
    BY DEF Approve
  <1>5. state' \in StateType /\ Active(state') # {}
    BY <1>1, <1>3, <1>4, ApplyTyped, ValidKeepsActive
  <1>6. TypeOK' /\ MarkedWasMade' /\ SomeStrategyActive'
    BY <1>2, <1>4, <1>5
    DEF IInv, TypeOK, StateType, MarkedWasMade, SomeStrategyActive, Active, IsEnabled
  <1>7. QED
    BY <1>6 DEF IInv

\* Marking and ending change statuses only.
LEMMA MarkSound ==
  ASSUME IInv, NEW r \in Rotations, rotation[r] # None, NEW status \in Statuses, Mark(r, status),
         UNCHANGED state, marking' \in {marking, None}
  PROVE  IInv'
  <1>1. TypeOK'
    BY MarkTyped DEF IInv, TypeOK
  <1>2. MarkedWasMade'
    BY MarkTyped, NoneAssumption DEF IInv, MarkedWasMade
  <1>3. SomeStrategyActive'
    BY DEF IInv, SomeStrategyActive, Active, IsEnabled
  <1>4. QED
    BY <1>1, <1>2, <1>3 DEF IInv

\* Everything else leaves the rotation alone, and marks nothing of it.
LEMMA ElsewhereSound ==
  ASSUME IInv, UNCHANGED rotationVars, marking' \in {marking, None} \cup Reweights
  PROVE  IInv'
  <1>1. \A r \in Rotations : marking' = r => marking = r
    BY AdviceAssumption, NoneAssumption
  <1>2. QED
    BY <1>1 DEF IInv, TypeOK, MarkedWasMade, SomeStrategyActive, Active, IsEnabled, rotationVars

\* Setting the state file aside leaves the defaults, of which some strategy is active.
LEMMA QuarantineSound == ASSUME IInv, Quarantine PROVE IInv'
  <1>1. state' = [s \in Strategies |-> None] /\ rotation' = rotation /\ marking' = None
    BY DEF Quarantine
  <1>2. state' \in StateType /\ Active(state') # {}
    BY <1>1, DefaultsActive
  <1>3. MarkedWasMade'
    BY <1>1, NoneAssumption DEF MarkedWasMade
  <1>4. QED
    BY <1>1, <1>2, <1>3 DEF IInv, TypeOK, StateType, SomeStrategyActive, Active, IsEnabled

\* Every step keeps the invariant.
LEMMA StepSound == IInv /\ [Next]_vars => IInv'
  <1> SUFFICES ASSUME IInv, [Next]_vars PROVE IInv'
    OBVIOUS
  <1>1. ASSUME NEW r \in Rotations, NEW ch \in Change, Propose(r, ch) PROVE IInv'
    BY <1>1, ProposeSound
  <1>2. ASSUME NEW r \in Rotations, Approve(r) PROVE IInv'
    BY <1>2, ApproveSound
  <1>3. ASSUME NEW r \in Rotations, Ends(r) PROVE IInv'
    <2>1. PICK status \in Statuses : Mark(r, status)
      BY <1>3 DEF Ends, Statuses
    <2>2. rotation[r] # None /\ UNCHANGED state /\ marking' = marking
      BY <1>3 DEF Ends, Pending
    <2>3. QED
      BY <2>1, <2>2, MarkSound
  <1>4. ASSUME NEW r \in Rotations, MarkApproved(r) PROVE IInv'
    <2>1. rotation[r] # None /\ Mark(r, "approved") /\ UNCHANGED state /\ marking' = None
      BY <1>4 DEF MarkApproved, IInv, MarkedWasMade
    <2>2. "approved" \in Statuses
      BY DEF Statuses
    <2>3. QED
      BY <2>1, <2>2, MarkSound
  <1>5. ASSUME NEW r \in Reweights,
               Suggest(r) \/ ApproveReweight(r) \/ EndsReweight(r) \/ MarkReweighted(r)
        PROVE  IInv'
    <2>1. UNCHANGED rotationVars /\ marking' \in {marking, None} \cup Reweights
      BY <1>5 DEF Suggest, ApproveReweight, EndsReweight, MarkReweighted
    <2>2. QED
      BY <2>1, ElsewhereSound
  <1>6. CASE QuarantineWeights \/ Crash \/ \E c \in Sources : Surface(c)
    <2>1. UNCHANGED rotationVars /\ marking' \in {marking, None} \cup Reweights
      BY <1>6 DEF QuarantineWeights, Crash, Surface
    <2>2. QED
      BY <2>1, ElsewhereSound
  <1>7. CASE Quarantine
    BY <1>7, QuarantineSound
  <1>8. CASE UNCHANGED vars
    <2>1. UNCHANGED rotationVars /\ marking' = marking
      BY <1>8 DEF vars, rotationVars
    <2>2. QED
      BY <2>1, ElsewhereSound
  <1>9. QED
    BY <1>1, <1>2, <1>3, <1>4, <1>5, <1>6, <1>7, <1>8 DEF Next

\* Whatever the operator approves, in whatever order, and wherever the
\* listener dies, some strategy may still enter: for any number of strategies
\* and of pending proposals.
THEOREM SomeStaysActive == Spec => []IInv
  <1>1. Init => IInv
    BY InitIInv
  <1>2. IInv /\ [Next]_vars => IInv'
    BY StepSound
  <1>3. QED
    BY <1>1, <1>2, PTL DEF Spec

(***************************************************************************)
(* Each proposal is applied once, and once more for a crash.               *)
(***************************************************************************)
Ids == Rotations \cup Reweights

\* Weight proposals are records, with a status.
ReweightRecords ==
  /\ reweight = [r \in Reweights |-> reweight[r]]
  /\ \A r \in Reweights :
       reweight[r] = [weights |-> reweight[r].weights, base |-> reweight[r].base,
                      judged |-> reweight[r].judged, status |-> reweight[r].status]

\* An applied proposal is one that was made.
LEMMA InitPays == Init => CrashesPay /\ ReweightRecords
  <1> SUFFICES ASSUME Init PROVE CrashesPay /\ ReweightRecords
    OBVIOUS
  <1>1. ReweightRecords
    BY DEF Init, NotMade, ReweightRecords
  <1>2. applied = [r \in Ids |-> 0] /\ crashes = 0 /\ marking = None /\ None \notin Ids
    BY NoneAssumption DEF Init, Ids
  <1> QED
    BY <1>1, <1>2 DEF CrashesPay, AppliedOncePerCrash, Ids

\* A step that applies nothing, and of which no proposal comes back to pending.
LEMMA NothingApplied ==
  ASSUME CrashesPay, UNCHANGED <<applied, crashes>>, marking' \in {marking, None},
         \A r \in Ids : \/ StatusOf(r)' = StatusOf(r) /\ marking' = marking
                        \/ StatusOf(r)' = StatusOf(r) /\ marking # r
                        \/ StatusOf(r)' \notin {"none", "pending"}
                        \/ StatusOf(r) = "none" /\ StatusOf(r)' = "pending"
  PROVE  CrashesPay'
  <1>1. crashes \in Nat /\ applied \in [Ids -> Nat] /\ None \notin Ids
    BY NoneAssumption DEF CrashesPay, Ids
  <1>2. ASSUME NEW r \in Ids
        PROVE  /\ StatusOf(r)' = "none" => applied'[r] = 0 /\ marking' # r
               /\ StatusOf(r)' = "pending" /\ marking' # r => applied'[r] <= crashes'
               /\ applied'[r] <= 1 + crashes'
    <2>1. /\ StatusOf(r) = "none" => applied[r] = 0 /\ marking # r
          /\ StatusOf(r) = "pending" /\ marking # r => applied[r] <= crashes
          /\ applied[r] <= 1 + crashes
      BY DEF CrashesPay, AppliedOncePerCrash, Ids
    <2> QED
      BY <1>1, <2>1
  <1> QED
    BY <1>1, <1>2 DEF CrashesPay, AppliedOncePerCrash, Ids

\* An approval takes the credit of a pending proposal, which is then marked.
LEMMA OneApplied ==
  ASSUME CrashesPay, marking = None, NEW r \in Ids, StatusOf(r) = "pending",
         marking' = r, applied' = [applied EXCEPT ![r] = @ + 1], UNCHANGED crashes,
         \A q \in Ids : StatusOf(q)' = StatusOf(q)
  PROVE  CrashesPay'
  <1>1. crashes \in Nat /\ applied \in [Ids -> Nat] /\ None \notin Ids
    BY NoneAssumption DEF CrashesPay, Ids
  <1>2. applied[r] <= crashes
    BY <1>1 DEF CrashesPay, Ids
  <1>3. applied' \in [Ids -> Nat] /\ applied'[r] = applied[r] + 1
        /\ \A q \in Ids : q # r => applied'[q] = applied[q]
    BY <1>1
  <1>4. ASSUME NEW q \in Ids
        PROVE  /\ StatusOf(q)' = "none" => applied'[q] = 0 /\ marking' # q
               /\ StatusOf(q)' = "pending" /\ marking' # q => applied'[q] <= crashes'
               /\ applied'[q] <= 1 + crashes'
    <2>1. /\ StatusOf(q) = "none" => applied[q] = 0
          /\ StatusOf(q) = "pending" => applied[q] <= crashes
          /\ applied[q] <= 1 + crashes
      BY <1>1 DEF CrashesPay, AppliedOncePerCrash, Ids
    <2> QED
      BY <1>1, <1>2, <1>3, <2>1
  <1> QED
    BY <1>1, <1>3, <1>4 DEF CrashesPay, AppliedOncePerCrash, Ids

\* A crash leaves what it applied to be approved again, and pays for it.
LEMMA CrashPays == CrashesPay /\ Crash /\ (\A r \in Ids : StatusOf(r)' = StatusOf(r)) => CrashesPay'
  <1> SUFFICES ASSUME CrashesPay, Crash, \A r \in Ids : StatusOf(r)' = StatusOf(r)
               PROVE  CrashesPay'
    OBVIOUS
  <1>1. /\ crashes \in Nat /\ crashes' = crashes + 1 /\ applied' = applied
        /\ applied \in [Ids -> Nat] /\ marking' = None /\ None \notin Ids
    BY NoneAssumption DEF CrashesPay, Crash, Ids
  <1>2. \A r \in Ids : /\ StatusOf(r) = "none" => applied[r] = 0
                       /\ applied[r] <= 1 + crashes
    BY DEF CrashesPay, AppliedOncePerCrash, Ids
  <1>3. \A r \in Ids : applied[r] <= crashes' /\ applied[r] <= 1 + crashes'
    BY <1>1, <1>2
  <1> QED
    BY <1>1, <1>2, <1>3 DEF CrashesPay, AppliedOncePerCrash, Ids

\* What is of the one kind says nothing of the other.
LEMMA StatusKept ==
  /\ UNCHANGED <<rotation, reweight>> => \A r \in Ids : StatusOf(r)' = StatusOf(r)
  /\ UNCHANGED reweight => \A r \in Reweights : StatusOf(r)' = StatusOf(r)
  /\ UNCHANGED rotation => \A r \in Rotations : StatusOf(r)' = StatusOf(r)
  BY AdviceAssumption DEF StatusOf, Ids

\* A rotation is proposed, ended or marked.
LEMMA RotationPays ==
  ASSUME IInv, CrashesPay, NEW r \in Rotations,
         (\E ch \in Change : Propose(r, ch)) \/ Ends(r) \/ MarkApproved(r)
  PROVE  CrashesPay'
  <1>1. rotation \in [Rotations -> Proposal \cup {None}] /\ r \notin Reweights
    BY AdviceAssumption DEF IInv, TypeOK
  <1>2. UNCHANGED reweight /\ UNCHANGED <<applied, crashes>>
    BY DEF Propose, Ends, MarkApproved, weightVars
  <1>3. \A q \in Ids \ {r} : StatusOf(q)' = StatusOf(q)
    <2>1. \A q \in Rotations \ {r} : rotation'[q] = rotation[q]
      BY <1>1 DEF Propose, Ends, MarkApproved, Mark
    <2> QED
      BY <1>2, <2>1 DEF StatusOf, Ids
  <1>4. CASE \E ch \in Change : Propose(r, ch)
    <2>1. PICK ch \in Change : Propose(r, ch)
      BY <1>4
    <2>2. rotation[r] = None /\ rotation'[r] = [change |-> ch, status |-> "pending"] /\ marking' = marking
      BY <1>1, <2>1 DEF Propose
    <2>3. rotation'[r] # None
      BY <2>2, NoneAssumption DEF Proposal, Statuses
    <2>4. StatusOf(r) = "none" /\ StatusOf(r)' = "pending"
      BY <1>1, <2>2, <2>3 DEF StatusOf
    <2> QED
      BY <1>2, <1>3, <2>2, <2>4, NothingApplied
  <1>5. CASE Ends(r) \/ MarkApproved(r)
    <2>1. rotation[r] # None /\ \E status \in Statuses \ {"pending"} : Mark(r, status)
      BY <1>5 DEF Ends, MarkApproved, Pending, IInv, MarkedWasMade, Statuses
    <2>2. PICK status \in Statuses \ {"pending"} : Mark(r, status)
      BY <2>1
    <2>3. rotation[r] \in Proposal
      BY <1>1, <2>1
    <2>4. rotation'[r] = [change |-> rotation[r].change, status |-> status]
      <3>1. rotation'[r] = [rotation[r] EXCEPT !.status = status]
        BY <1>1, <2>2 DEF Mark
      <3> QED
        BY <2>3, <3>1 DEF Proposal
    <2>5. rotation'[r] # None
      BY <2>3, <2>4, NoneAssumption DEF Proposal
    <2>6. StatusOf(r)' \notin {"none", "pending"}
      BY <1>1, <2>4, <2>5 DEF StatusOf, Statuses
    <2>7. marking' \in {marking, None} /\ \A q \in Ids \ {r} : marking # q \/ marking' = marking
      BY <1>5 DEF Ends, MarkApproved
    <2> QED
      BY <1>2, <1>3, <2>6, <2>7, NothingApplied
  <1> QED
    BY <1>4, <1>5

\* The same of a weight proposal, which stays a record.
LEMMA ReweightPays ==
  ASSUME CrashesPay, ReweightRecords, NEW r \in Reweights,
         Suggest(r) \/ EndsReweight(r) \/ MarkReweighted(r)
  PROVE  CrashesPay' /\ ReweightRecords'
  <1> DEFINE Rec(x) == [weights |-> x.weights, base |-> x.base, judged |-> x.judged, status |-> x.status]
  <1>1. reweight = [q \in Reweights |-> reweight[q]] /\ \A q \in Reweights : reweight[q] = Rec(reweight[q])
    BY DEF ReweightRecords
  <1>2. UNCHANGED rotation /\ UNCHANGED <<applied, crashes>>
    BY DEF Suggest, EndsReweight, MarkReweighted, rotationVars
  <1>3. PICK new : reweight' = [reweight EXCEPT ![r] = new] /\ new = Rec(new)
               /\ \/ reweight[r].status = "none" /\ new.status = "pending" /\ marking' = marking
                  \/ new.status \notin {"none", "pending"}
    <2>1. CASE Suggest(r)
      <3> DEFINE made == [weights |-> Suggested, base |-> CurrentWeights,
                          judged |-> Judged, status |-> "pending"]
      <3>1. /\ reweight' = [reweight EXCEPT ![r] = made] /\ reweight[r].status = "none"
            /\ marking' = marking
        BY <2>1 DEF Suggest
      <3>2. made = Rec(made) /\ made.status = "pending"
        OBVIOUS
      <3> HIDE DEF made
      <3> QED
        BY <3>1, <3>2
    <2>2. CASE EndsReweight(r) \/ MarkReweighted(r)
      <3>1. PICK status \in {"expired", "denied", "approved"} : MarkReweight(r, status)
        BY <2>2 DEF EndsReweight, MarkReweighted
      <3>2. reweight' = [reweight EXCEPT ![r] = [reweight[r] EXCEPT !.status = status]]
        BY <1>1, <3>1 DEF MarkReweight
      <3>3. [reweight[r] EXCEPT !.status = status] =
              [weights |-> reweight[r].weights, base |-> reweight[r].base,
               judged |-> reweight[r].judged, status |-> status]
        BY <1>1
      <3> QED
        BY <3>2, <3>3
    <2> QED
      BY <2>1, <2>2
  <1>4. reweight'[r] = new /\ \A q \in Reweights \ {r} : reweight'[q] = reweight[q]
    BY <1>1, <1>3
  <1>5. ReweightRecords'
    BY <1>1, <1>3, <1>4 DEF ReweightRecords
  <1>6. \A q \in Ids \ {r} : StatusOf(q)' = StatusOf(q)
    BY <1>2, <1>4 DEF StatusOf, Ids
  <1>7. StatusOf(r) = reweight[r].status /\ StatusOf(r)' = new.status
    BY <1>4 DEF StatusOf
  <1>8. marking' \in {marking, None} /\ \A q \in Ids \ {r} : marking # q \/ marking' = marking
    BY DEF Suggest, EndsReweight, MarkReweighted
  <1> QED
    BY <1>2, <1>3, <1>5, <1>6, <1>7, <1>8, NothingApplied

\* Every step pays for what it applies.
LEMMA PayStep ==
  IInv /\ CrashesPay /\ ReweightRecords /\ [Next]_vars => CrashesPay' /\ ReweightRecords'
  <1> SUFFICES ASSUME IInv, CrashesPay, ReweightRecords, [Next]_vars
               PROVE  CrashesPay' /\ ReweightRecords'
    OBVIOUS
  <1>0. UNCHANGED reweight => ReweightRecords'
    BY DEF ReweightRecords
  <1>1. CASE \E r \in Rotations : (\E ch \in Change : Propose(r, ch)) \/ Ends(r) \/ MarkApproved(r)
    <2>1. UNCHANGED reweight
      BY <1>1 DEF Propose, Ends, MarkApproved, weightVars
    <2> QED
      BY <1>0, <1>1, <2>1, RotationPays
  <1>2. ASSUME NEW r \in Rotations, Approve(r) PROVE CrashesPay' /\ ReweightRecords'
    <2>1. UNCHANGED <<rotation, reweight>> /\ StatusOf(r) = "pending" /\ r \in Ids
      BY <1>2, AdviceAssumption DEF Approve, weightVars, Pending, StatusOf, Ids
    <2> QED
      BY <1>0, <1>2, <2>1, StatusKept, OneApplied DEF Approve
  <1>3. CASE \E r \in Reweights : Suggest(r) \/ EndsReweight(r) \/ MarkReweighted(r)
    BY <1>3, ReweightPays
  <1>4. ASSUME NEW r \in Reweights, ApproveReweight(r) PROVE CrashesPay' /\ ReweightRecords'
    <2>1. UNCHANGED <<rotation, reweight>> /\ StatusOf(r) = "pending" /\ r \in Ids
      BY <1>4 DEF ApproveReweight, rotationVars, StatusOf, Ids
    <2> QED
      BY <1>0, <1>4, <2>1, StatusKept, OneApplied DEF ApproveReweight
  <1>5. CASE Quarantine \/ QuarantineWeights \/ (\E c \in Sources : Surface(c)) \/ UNCHANGED vars
    <2>1. UNCHANGED <<rotation, reweight, applied, crashes, marking>>
      BY <1>5 DEF Quarantine, QuarantineWeights, Surface, vars, rotationVars, weightVars
    <2> QED
      BY <1>0, <2>1, StatusKept, NothingApplied
  <1>6. CASE Crash
    <2>1. UNCHANGED <<rotation, reweight>>
      BY <1>6 DEF Crash, rotationVars, weightVars
    <2> QED
      BY <1>0, <1>6, <2>1, StatusKept, CrashPays
  <1> QED
    BY <1>1, <1>2, <1>3, <1>4, <1>5, <1>6 DEF Next

\* A proposal takes effect once, and once more only for a crash that fell
\* between its save and its mark: for any number of proposals and of crashes.
THEOREM AppliedOnce == Spec => []AppliedOncePerCrash
  <1>1. CrashesPay => AppliedOncePerCrash
    BY DEF CrashesPay
  <1> QED
    BY InitPays, PayStep, SomeStaysActive, <1>1, PTL DEF Spec

(***************************************************************************)
(* Sums.  Induction is by a smallest counterexample: the strict subsets of *)
(* a finite set are well-founded.                                          *)
(***************************************************************************)
\* Of finite sets of which one has a property, one has it and no part of it has.
LEMMA Smallest ==
  ASSUME NEW C, IsFiniteSet(C), NEW T \in SUBSET (SUBSET C), T # {}
  PROVE  \E s \in T : \A u \in SUBSET s : u \in T => u = s
  <1>1. IsWellFoundedOn(StrictSubsetOrdering(C), SUBSET C)
    BY FS_StrictSubsetOrderingWellFounded, FS_FiniteSubsetsOfFinite
  <1>2. PICK s \in T : \A u \in T : ~(<<u, s>> \in StrictSubsetOrdering(C))
    BY <1>1, WFMin
  <1>3. ASSUME NEW u \in T, u \in SUBSET s, u # s
        PROVE  <<u, s>> \in StrictSubsetOrdering(C)
    <2>1. <<u, s>> \in (SUBSET C) \X (SUBSET C) /\ <<u, s>>[1] = u /\ <<u, s>>[2] = s
      OBVIOUS
    <2>2. QED
      BY <1>3, <2>1 DEF StrictSubsetOrdering
  <1>4. \A u \in SUBSET s : u \in T => u = s
    BY <1>2, <1>3
  <1>5. QED
    BY <1>4

Pick(s) == CHOOSE x \in s : TRUE

\* The sums of the subsets of C, as the fold computes them.
Adds(w, C, f) ==
  f = [s \in SUBSET C |-> IF s = {} THEN 0 ELSE w[Pick(s)] + f[s \ {Pick(s)}]]

\* The sum of the model is one of those.
LEMMA SumIs ==
  ASSUME NEW w, NEW C
  PROVE  SumOver(w, C) = (CHOOSE f : Adds(w, C, f))[C]
  BY DEF SumOver, FoldFunctionOnSet, MapThenFoldSet, Adds, Pick

\* What is picked is there.
LEMMA PickIn ==
  ASSUME NEW s, s # {}
  PROVE  Pick(s) \in s
  BY DEF Pick

\* One sum from the next smaller.
LEMMA AddsStep ==
  ASSUME NEW w, NEW C, NEW f, Adds(w, C, f), NEW s \in SUBSET C
  PROVE  f[s] = IF s = {} THEN 0 ELSE w[Pick(s)] + f[s \ {Pick(s)}]
  <1> DEFINE F == [x \in SUBSET C |-> IF x = {} THEN 0 ELSE w[Pick(x)] + f[x \ {Pick(x)}]]
  <1>1. f = F
    BY DEF Adds
  <1>2. F[s] = IF s = {} THEN 0 ELSE w[Pick(s)] + f[s \ {Pick(s)}]
    OBVIOUS
  <1>3. QED
    BY <1>1, <1>2

\* They are determined.
LEMMA AddsUnique ==
  ASSUME NEW w, NEW C, IsFiniteSet(C), NEW D, NEW f, NEW g, Adds(w, C, f), Adds(w, D, g),
         NEW s \in SUBSET C, s \in SUBSET D
  PROVE  f[s] = g[s]
  <1> DEFINE T == {x \in SUBSET C : x \in SUBSET D /\ f[x] # g[x]}
  <1>1. SUFFICES ASSUME T # {} PROVE FALSE
    OBVIOUS
  <1>2. T \in SUBSET (SUBSET C)
    OBVIOUS
  <1>3. PICK x \in T : \A u \in SUBSET x : u \in T => u = x
    <2> HIDE DEF T
    <2>1. QED
      BY <1>1, <1>2, Smallest
  <1>4. x \in SUBSET C /\ x \in SUBSET D /\ f[x] # g[x]
    BY <1>3
  <1>5. x # {}
    BY <1>4, AddsStep
  <1> DEFINE u == x \ {Pick(x)}
  <1>6. u \in SUBSET x /\ u # x
    BY <1>5, PickIn
  <1>7. f[u] = g[u]
    BY <1>3, <1>4, <1>6
  <1> HIDE DEF T
  <1>8. f[x] = w[Pick(x)] + f[u] /\ g[x] = w[Pick(x)] + g[u]
    <2> x \in SUBSET C /\ x \in SUBSET D /\ x # {}
      BY <1>4, <1>5
    <2>1. f[x] = w[Pick(x)] + f[x \ {Pick(x)}]
      BY AddsStep
    <2>2. g[x] = w[Pick(x)] + g[x \ {Pick(x)}]
      BY AddsStep
    <2>3. QED
      BY <2>1, <2>2
  <1>9. QED
    BY <1>4, <1>7, <1>8

\* And there are such sums.
LEMMA AddsExist ==
  ASSUME NEW w, NEW C, IsFiniteSet(C)
  PROVE  \E f : Adds(w, C, f)
  <1> DEFINE T == {x \in SUBSET C : ~\E f : Adds(w, x, f)}
  <1>1. SUFFICES ASSUME T # {} PROVE FALSE
    OBVIOUS
  <1>2. T \in SUBSET (SUBSET C)
    OBVIOUS
  <1>3. PICK x \in T : \A u \in SUBSET x : u \in T => u = x
    <2> HIDE DEF T
    <2>1. QED
      BY <1>1, <1>2, Smallest
  <1>4. x \in SUBSET C /\ ~\E f : Adds(w, x, f)
    BY <1>3
  <1>5. \A u \in SUBSET x : u # x => u \in SUBSET C /\ \E f : Adds(w, u, f)
    BY <1>3, <1>4
  <1> HIDE DEF T
  <1> DEFINE G(u) == (CHOOSE f : Adds(w, u, f))
             h == [s \in SUBSET x |-> IF s = {} THEN 0 ELSE w[Pick(s)] + G(s \ {Pick(s)})[s \ {Pick(s)}]]
  <1>6. \A u \in SUBSET x : u # x => Adds(w, u, G(u)) /\ IsFiniteSet(u)
    BY <1>4, <1>5, FS_Subset
  <1> HIDE DEF G
  <1>7. ASSUME NEW u \in SUBSET x, u # x
        PROVE  h[u] = G(u)[u]
    <2>1. CASE u = {}
      BY <1>6, <1>7, <2>1, AddsStep
    <2>2. CASE u # {}
      <3> DEFINE v == u \ {Pick(u)}
      <3>1. v \in SUBSET x /\ v \in SUBSET u /\ v # x /\ Pick(u) \in u
        BY <1>7, <2>2, PickIn
      <3>2. G(u)[u] = w[Pick(u)] + G(u)[v]
        BY <1>6, <1>7, <2>2, AddsStep
      <3>3. G(u)[v] = G(v)[v]
        <4>1. Adds(w, u, G(u)) /\ Adds(w, v, G(v)) /\ IsFiniteSet(u)
          BY <1>6, <1>7, <3>1
        <4>2. v \in SUBSET u /\ v \in SUBSET v
          BY <3>1
        <4> HIDE DEF v
        <4>3. QED
          BY <4>1, <4>2, AddsUnique
      <3>4. h[u] = w[Pick(u)] + G(v)[v]
        BY <1>7, <2>2
      <3>5. QED
        BY <3>2, <3>3, <3>4
    <2>3. QED
      BY <2>1, <2>2
  <1>8. \A s \in SUBSET x : h[s] = IF s = {} THEN 0 ELSE w[Pick(s)] + h[s \ {Pick(s)}]
    <2>1. SUFFICES ASSUME NEW s \in SUBSET x, s # {}
                   PROVE  h[s] = w[Pick(s)] + h[s \ {Pick(s)}]
      OBVIOUS
    <2>2. s \ {Pick(s)} \in SUBSET x /\ s \ {Pick(s)} # x
      BY <2>1, PickIn
    <2>3. h[s] = w[Pick(s)] + G(s \ {Pick(s)})[s \ {Pick(s)}]
      BY <2>1
    <2> HIDE DEF h
    <2>4. QED
      BY <1>7, <2>2, <2>3
  <1>9. h = [s \in SUBSET x |-> h[s]]
    OBVIOUS
  <1> HIDE DEF h
  <1>10. Adds(w, x, h)
    BY <1>8, <1>9 DEF Adds
  <1>11. QED
    BY <1>4, <1>10

\* What the fold computes: one element after the other.
LEMMA SumStep ==
  ASSUME NEW w, NEW C, IsFiniteSet(C)
  PROVE  SumOver(w, C) = IF C = {} THEN 0 ELSE w[Pick(C)] + SumOver(w, C \ {Pick(C)})
  <1> DEFINE G(D) == (CHOOSE f : Adds(w, D, f))
             D == C \ {Pick(C)}
  <1>1. IsFiniteSet(D)
    BY FS_Subset
  <1>2. Adds(w, C, G(C)) /\ Adds(w, D, G(D))
    BY <1>1, AddsExist
  <1>3. SumOver(w, C) = G(C)[C] /\ SumOver(w, D) = G(D)[D]
    BY SumIs
  <1> HIDE DEF G
  <1>4. G(C)[C] = IF C = {} THEN 0 ELSE w[Pick(C)] + G(C)[D]
    BY <1>2, AddsStep
  <1>5. G(C)[D] = G(D)[D]
    <2>1. D \in SUBSET C /\ D \in SUBSET D
      OBVIOUS
    <2> HIDE DEF D
    <2>2. QED
      BY <1>2, <2>1, AddsUnique
  <1>6. QED
    BY <1>3, <1>4, <1>5

\* Nothing adds up to nothing.
LEMMA SumEmpty ==
  ASSUME NEW w
  PROVE  SumOver(w, {}) = 0
  BY SumStep, FS_EmptySet

\* Sums of whole numbers are whole numbers.
LEMMA SumType ==
  ASSUME NEW w, NEW C, IsFiniteSet(C), \A c \in C : w[c] \in Int
  PROVE  SumOver(w, C) \in Int
  <1> DEFINE T == {s \in SUBSET C : SumOver(w, s) \notin Int}
  <1>1. SUFFICES ASSUME T # {} PROVE FALSE
    OBVIOUS
  <1>2. T \in SUBSET (SUBSET C)
    OBVIOUS
  <1>3. PICK s \in T : \A u \in SUBSET s : u \in T => u = s
    <2> HIDE DEF T
    <2>1. QED
      BY <1>1, <1>2, Smallest
  <1>4. s \in SUBSET C /\ SumOver(w, s) \notin Int /\ IsFiniteSet(s)
    BY <1>3, FS_Subset
  <1>5. s # {}
    BY <1>4, SumEmpty
  <1> DEFINE u == s \ {Pick(s)}
  <1>6. u \in SUBSET s /\ u # s /\ Pick(s) \in s
    BY <1>5, PickIn
  <1>7. SumOver(w, u) \in Int
    BY <1>3, <1>4, <1>6
  <1>8. SumOver(w, s) = w[Pick(s)] + SumOver(w, u)
    BY <1>4, <1>5, SumStep
  <1>9. QED
    BY <1>4, <1>6, <1>7, <1>8

\* Whichever element is taken first.
LEMMA SumRemove ==
  ASSUME NEW w, NEW C, IsFiniteSet(C), \A c \in C : w[c] \in Int, NEW x \in C
  PROVE  SumOver(w, C) = w[x] + SumOver(w, C \ {x})
  <1> DEFINE T == {s \in SUBSET C : \E y \in s : SumOver(w, s) # w[y] + SumOver(w, s \ {y})}
  <1>1. SUFFICES ASSUME T # {} PROVE FALSE
    OBVIOUS
  <1>2. T \in SUBSET (SUBSET C)
    OBVIOUS
  <1>3. PICK s \in T : \A u \in SUBSET s : u \in T => u = s
    <2> HIDE DEF T
    <2>1. QED
      BY <1>1, <1>2, Smallest
  <1>4. s \in SUBSET C /\ IsFiniteSet(s)
    BY <1>3, FS_Subset
  <1>5. PICK y \in s : SumOver(w, s) # w[y] + SumOver(w, s \ {y})
    BY <1>3
  <1> DEFINE p == Pick(s)
             v == s \ {p, y}
  <1>6. p \in s
    BY <1>5, PickIn
  <1>7. SumOver(w, s) = w[p] + SumOver(w, s \ {p})
    BY <1>4, <1>5, SumStep
  <1>8. p # y
    BY <1>5, <1>7
  <1>9. \A u \in SUBSET s : u # s => \A z \in u : SumOver(w, u) = w[z] + SumOver(w, u \ {z})
    BY <1>3, <1>4
  <1> HIDE DEF T, p
  <1>10. SumOver(w, s \ {p}) = w[y] + SumOver(w, v)
    <2>1. s \ {p} \in SUBSET s /\ s \ {p} # s /\ y \in s \ {p} /\ (s \ {p}) \ {y} = v
      BY <1>6, <1>8
    <2>2. QED
      BY <1>9, <2>1
  <1>11. SumOver(w, s \ {y}) = w[p] + SumOver(w, v)
    <2>1. s \ {y} \in SUBSET s /\ s \ {y} # s /\ p \in s \ {y} /\ (s \ {y}) \ {p} = v
      BY <1>6, <1>8
    <2>2. QED
      BY <1>9, <2>1
  <1>12. w[p] \in Int /\ w[y] \in Int /\ SumOver(w, v) \in Int
    <2>1. IsFiniteSet(v) /\ \A c \in v : w[c] \in Int
      BY <1>4, FS_Subset
    <2>2. SumOver(w, v) \in Int
      BY <2>1, SumType
    <2>3. QED
      BY <1>4, <1>6, <2>2
  <1>13. QED
    BY <1>5, <1>7, <1>10, <1>11, <1>12

\* A bound on each summand is one on the sum.
LEMMA SumBound ==
  ASSUME NEW a, NEW b, NEW C, IsFiniteSet(C), NEW k \in Int, NEW l \in Int, NEW m \in Int,
         \A c \in C : a[c] \in Int /\ b[c] \in Int /\ k * a[c] <= l * b[c] + m
  PROVE  k * SumOver(a, C) <= l * SumOver(b, C) + m * Cardinality(C)
  <1> DEFINE Ok(s) == k * SumOver(a, s) <= l * SumOver(b, s) + m * Cardinality(s)
             T == {s \in SUBSET C : ~Ok(s)}
  <1>1. SUFFICES ASSUME T # {} PROVE FALSE
    OBVIOUS
  <1>2. T \in SUBSET (SUBSET C)
    OBVIOUS
  <1>3. PICK s \in T : \A u \in SUBSET s : u \in T => u = s
    <2> HIDE DEF T
    <2>1. QED
      BY <1>1, <1>2, Smallest
  <1>4. s \in SUBSET C /\ IsFiniteSet(s) /\ ~Ok(s)
    BY <1>3, FS_Subset
  <1>5. s # {}
    <2>1. SumOver(a, {}) = 0 /\ SumOver(b, {}) = 0 /\ Cardinality({}) = 0
      BY SumEmpty, FS_EmptySet
    <2>2. k * 0 = 0 /\ l * 0 + m * 0 = 0
      OBVIOUS
    <2>3. Ok({})
      BY <2>1, <2>2
    <2> HIDE DEF Ok
    <2>4. QED
      BY <1>4, <2>3
  <1> DEFINE p == Pick(s)
             u == s \ {p}
  <1>6. p \in s /\ u \in SUBSET s /\ u # s
    BY <1>5, PickIn
  <1>7. Ok(u)
    BY <1>3, <1>4, <1>6
  <1>8. /\ SumOver(a, s) = a[p] + SumOver(a, u)
        /\ SumOver(b, s) = b[p] + SumOver(b, u)
    BY <1>4, <1>5, SumStep
  <1> HIDE DEF T, p
  <1>9. IsFiniteSet(u) /\ Cardinality(u) \in Nat /\ Cardinality(s) = Cardinality(u) + 1
    <2>1. Cardinality(s) \in Nat /\ Cardinality(u) = Cardinality(s) - 1 /\ IsFiniteSet(u)
      BY <1>4, <1>6, FS_RemoveElement, FS_CardinalityType
    <2>2. QED
      BY <2>1, FS_CardinalityType
  <1>10. /\ SumOver(a, u) \in Int /\ SumOver(b, u) \in Int
         /\ a[p] \in Int /\ b[p] \in Int /\ k * a[p] <= l * b[p] + m
    BY <1>4, <1>6, <1>9, SumType
  <1> DEFINE A == SumOver(a, u)
             B == SumOver(b, u)
             n == Cardinality(u)
  <1>11. k * A <= l * B + m * n /\ ~(k * (a[p] + A) <= l * (b[p] + B) + m * (n + 1))
    BY <1>4, <1>7, <1>8, <1>9
  <1> HIDE DEF A, B, n, Ok
  <1>12. A \in Int /\ B \in Int /\ n \in Nat
    BY <1>9, <1>10 DEF A, B, n
  <1>13. /\ k * (a[p] + A) = k * a[p] + k * A
         /\ l * (b[p] + B) = l * b[p] + l * B
         /\ m * (n + 1) = m * n + m
    BY <1>10, <1>12
  <1>14. k * a[p] \in Int /\ k * A \in Int /\ l * b[p] \in Int /\ l * B \in Int /\ m * n \in Int
    BY <1>10, <1>12
  <1>15. QED
    BY <1>10, <1>11, <1>13, <1>14

\* The parts of a set add up.
LEMMA SumSplit ==
  ASSUME NEW w, NEW C, IsFiniteSet(C), NEW D \in SUBSET C, \A c \in C : w[c] \in Int
  PROVE  SumOver(w, C) = SumOver(w, D) + SumOver(w, C \ D)
  <1> DEFINE Ok(s) == SumOver(w, s \cup (C \ D)) = SumOver(w, s) + SumOver(w, C \ D)
             T == {s \in SUBSET D : ~Ok(s)}
  <1>0. IsFiniteSet(D) /\ D \cup (C \ D) = C
    BY FS_Subset
  <1>1. SUFFICES ASSUME T # {} PROVE FALSE
    BY <1>0
  <1>2. T \in SUBSET (SUBSET D)
    OBVIOUS
  <1>3. PICK s \in T : \A u \in SUBSET s : u \in T => u = s
    <2> HIDE DEF T
    <2>1. QED
      BY <1>0, <1>1, <1>2, Smallest
  <1>4. s \in SUBSET D /\ IsFiniteSet(s) /\ ~Ok(s)
    BY <1>0, <1>3, FS_Subset
  <1>5. \A E \in SUBSET C : IsFiniteSet(E) /\ SumOver(w, E) \in Int
    <2>1. SUFFICES ASSUME NEW E \in SUBSET C PROVE IsFiniteSet(E) /\ SumOver(w, E) \in Int
      OBVIOUS
    <2>2. IsFiniteSet(E) /\ \A c \in E : w[c] \in Int
      BY FS_Subset
    <2>3. QED
      BY <2>2, SumType
  <1>6. s # {}
    <2>1. SumOver(w, {}) = 0 /\ {} \cup (C \ D) = C \ D
      BY SumEmpty
    <2>2. SumOver(w, C \ D) \in Int
      BY <1>5
    <2>3. QED
      BY <1>4, <2>1, <2>2
  <1>7. PICK x : x \in s
    BY <1>6
  <1> DEFINE u == s \ {x}
  <1>8. u \in SUBSET s /\ u # s
    BY <1>7
  <1>9. Ok(u)
    <2>1. u \in SUBSET D /\ u \notin T
      BY <1>3, <1>4, <1>8
    <2> HIDE DEF Ok, u
    <2>2. QED
      BY <2>1
  <1> HIDE DEF T
  <1>10. SumOver(w, s) = w[x] + SumOver(w, u)
    BY <1>4, <1>7, SumRemove
  <1>11. SumOver(w, s \cup (C \ D)) = w[x] + SumOver(w, u \cup (C \ D))
    <2>1. s \cup (C \ D) \in SUBSET C /\ x \in s \cup (C \ D)
      BY <1>4, <1>7
    <2>2. (s \cup (C \ D)) \ {x} = u \cup (C \ D)
      BY <1>4, <1>7
    <2>3. IsFiniteSet(s \cup (C \ D)) /\ \A c \in s \cup (C \ D) : w[c] \in Int
      BY <1>5, <2>1
    <2>4. QED
      BY <2>1, <2>2, <2>3, SumRemove
  <1>12. w[x] \in Int /\ SumOver(w, u) \in Int /\ SumOver(w, C \ D) \in Int
    <2>1. u \in SUBSET C /\ C \ D \in SUBSET C
      BY <1>4
    <2>2. QED
      BY <1>4, <1>5, <1>7, <2>1
  <1>13. QED
    BY <1>4, <1>9, <1>10, <1>11, <1>12

(***************************************************************************)
(* A suggestion                                                            *)
(***************************************************************************)
LEMMA TotalIsSum ==
  ASSUME NEW w, NEW C, DOMAIN w = C
  PROVE  Total(w) = SumOver(w, C)
  BY DEF Total, SumOver, FoldFunction

\* A common positive factor of an inequality is dropped.
LEMMA Cancel ==
  ASSUME NEW n \in Nat, n > 0, NEW x \in Int, NEW y \in Int, n * x <= n * y
  PROVE  x <= y
  <1>1. ASSUME x > y PROVE FALSE
    <2>1. x - y \in Nat /\ x - y >= 1
      BY <1>1
    <2>2. n * (x - y) >= n
      BY <2>1
    <2>3. n * (x - y) = n * x - n * y /\ n * x \in Int /\ n * y \in Int
      OBVIOUS
    <2> QED
      BY <2>2, <2>3
  <1> QED
    BY <1>1

\* Rounding to the nearest is off by half at most.
LEMMA Rounds ==
  ASSUME NEW x \in Nat, NEW n \in Nat, n > 0
  PROVE  LET q == (2 * x + n) \div (2 * n)
         IN q \in Nat /\ 2 * n * q <= 2 * x + n /\ 2 * x <= 2 * n * q + n
  <1> DEFINE a == 2 * x + n
             b == 2 * n
             q == a \div b
  <1>1. a \in Nat /\ b \in Nat /\ b > 0
    OBVIOUS
  <1> HIDE DEF a, b
  <1>2. q \in Nat /\ a = (b * q) + (a % b) /\ a % b \in 0 .. b - 1
    BY <1>1
  <1> HIDE DEF q
  <1>3. b * q \in Nat /\ b * q <= a /\ a <= b * q + b - 1
    BY <1>1, <1>2
  <1>4. a = 2 * x + n /\ b = 2 * n /\ b * q = 2 * n * q
    BY <1>2 DEF a, b
  <1>5. 2 * n * q <= 2 * x + n /\ 2 * x <= 2 * n * q + n
    BY <1>3, <1>4
  <1> QED
    BY <1>2, <1>5 DEF q, a, b

\* A share of a whole: s of sum clamped units of it, each between lo and hi
\* times a source's weight.
LEMMA ShareBounds ==
  ASSUME NEW cur \in Nat, NEW st \in Nat, st > 0, NEW mass \in Nat, mass > 0,
         NEW cl \in Nat, NEW sum \in Nat, NEW new \in Nat,
         7 * cur * st <= cl, cl <= 13 * cur * st,
         7 * st * mass <= sum, sum <= 13 * st * mass,
         2 * sum * new <= 2 * (cl * mass) + sum, 2 * (cl * mass) <= 2 * sum * new + sum
  PROVE  7 * new <= 13 * cur + 7 /\ 13 * new >= 7 * cur - 13 /\ (cur > 0 => new > 0)
  <1> DEFINE p == st * mass
  <1>1. p \in Nat /\ p >= 1 /\ 7 * p <= sum /\ sum <= 13 * p /\ sum > 0
    <2>1. st * mass >= 1
      OBVIOUS
    <2>2. 7 * st * mass = 7 * p /\ 13 * st * mass = 13 * p
      OBVIOUS
    <2> QED
      BY <2>1, <2>2
  <1>2. 7 * (cur * p) <= cl * mass /\ cl * mass <= 13 * (cur * p)
    <2>1. 7 * cur * st * mass = 7 * (cur * p) /\ 13 * cur * st * mass = 13 * (cur * p)
      OBVIOUS
    <2>2. 7 * cur * st * mass <= cl * mass /\ cl * mass <= 13 * cur * st * mass
      <3>1. 7 * cur * st \in Nat /\ 13 * cur * st \in Nat
        OBVIOUS
      <3>2. \A x, y \in Nat : x <= y => x * mass <= y * mass
        OBVIOUS
      <3> QED
        BY <3>1, <3>2
    <2> QED
      BY <2>1, <2>2
  <1> DEFINE cm == cl * mass
             cp == cur * p
             cs == cur * sum
             sn == sum * new
  <1>3. 7 * cp <= cs /\ cs <= 13 * cp
    <2>1. cur * (7 * p) <= cur * sum /\ cur * sum <= cur * (13 * p)
      <3>1. \A x, y \in Nat : x <= y => cur * x <= cur * y
        OBVIOUS
      <3> QED
        BY <1>1, <3>1
    <2>2. cur * (7 * p) = 7 * (cur * p) /\ cur * (13 * p) = 13 * (cur * p)
      BY <1>1
    <2> QED
      BY <2>1, <2>2
  <1>4. /\ 2 * sn <= 2 * cm + sum /\ 2 * cm <= 2 * sn + sum
        /\ 7 * cp <= cm /\ cm <= 13 * cp
    BY <1>2
  <1>5. cm \in Nat /\ cp \in Nat /\ cs \in Nat /\ sn \in Nat
    BY <1>1
  <1>6. sn = sum * new /\ cs = sum * cur
    OBVIOUS
  <1> HIDE DEF p, cm, cp, cs, sn
  <1>7. 14 * sn <= 26 * cs + 7 * sum
    BY <1>1, <1>3, <1>4, <1>5
  <1>8. 14 * cs <= 26 * sn + 13 * sum
    BY <1>1, <1>3, <1>4, <1>5
  <1>9. 14 * new <= 26 * cur + 7
    <2>1. sum * (14 * new) <= sum * (26 * cur + 7)
      <3>1. sum * (14 * new) = 14 * sn /\ sum * (26 * cur + 7) = 26 * cs + 7 * sum
        BY <1>6
      <3> QED
        BY <1>7, <3>1
    <2> QED
      BY <1>1, <2>1, Cancel
  <1>10. 14 * cur <= 26 * new + 13
    <2>1. sum * (14 * cur) <= sum * (26 * new + 13)
      <3>1. sum * (14 * cur) = 14 * cs /\ sum * (26 * new + 13) = 26 * sn + 13 * sum
        BY <1>6
      <3> QED
        BY <1>8, <3>1
    <2> QED
      BY <1>1, <2>1, Cancel
  <1> QED
    BY <1>9, <1>10

\* Every source has a weight.
LEMMA CurrentTyped ==
  ASSUME weights \in Weighting \cup {None}
  PROVE  CurrentWeights \in Weighting
  BY AdviceAssumption DEF CurrentWeights

\* Signals, the weight to share, and what the cap leaves of each share.
LEMMA SignalsTyped ==
  ASSUME ledger \in [Sources -> History], weights \in Weighting \cup {None}
  PROVE  /\ Judged \in SUBSET Sources /\ IsFiniteSet(Judged)
         /\ \A c \in Sources : Signal[c] \in Nat
         /\ SignalTotal \in Int /\ Mass \in Int
  <1>1. Judged \in SUBSET Sources /\ IsFiniteSet(Judged)
    BY AdviceAssumption, FS_Subset DEF Judged
  <1>2. \A c \in Sources : Signal[c] \in Nat
    <2>1. SUFFICES ASSUME NEW c \in Judged PROVE Contribution(ledger[c]) \in Nat
      BY DEF Signal
    <2>2. c \in Sources /\ ledger[c] \in History /\ ledger[c].surfaced >= MinSample
      BY DEF Judged
    <2>3. /\ ledger[c].surfaced \in Nat /\ ledger[c].surfaced > 0
          /\ ledger[c].proposed \in Nat /\ ledger[c].score \in Nat
      BY <2>2, AdviceAssumption DEF History
    <2>4. ledger[c].proposed * ledger[c].score \in Nat
      BY <2>3
    <2> QED
      BY <2>3, <2>4 DEF Contribution
  <1>3. SignalTotal \in Int
    BY <1>1, <1>2, SumType DEF SignalTotal
  <1>4. Mass \in Int
    <2>1. \A c \in Judged : CurrentWeights[c] \in Int
      BY <1>1, CurrentTyped DEF Weighting
    <2> QED
      BY <1>1, <2>1, SumType DEF Mass
  <1> QED
    BY <1>1, <1>2, <1>3, <1>4

\* A suggestion keeps the total but for the rounding of the judged sources,
\* keeps each source within the cap scaled back, and takes no last weight.
LEMMA SuggestedSound ==
  ASSUME ledger \in [Sources -> History], weights \in Weighting \cup {None}, Worthwhile
  PROVE  /\ Suggested \in Weighting
         /\ \A c \in Judged : /\ 7 * Suggested[c] <= 13 * CurrentWeights[c] + 7
                              /\ 13 * Suggested[c] >= 7 * CurrentWeights[c] - 13
         /\ Total(Suggested) \in Int /\ Total(CurrentWeights) \in Int
         /\ 2 * Total(Suggested) <= 2 * Total(CurrentWeights) + Cardinality(Sources)
         /\ 2 * Total(CurrentWeights) <= 2 * Total(Suggested) + Cardinality(Sources)
  <1> DEFINE J    == Judged
             cur  == CurrentWeights
             st   == SignalTotal
             mass == Mass
             cl   == Clamped
             sum  == Total(cl)
             new  == Suggested
             n    == Cardinality(J)
  <1>1. /\ J \in SUBSET Sources /\ IsFiniteSet(J) /\ IsFiniteSet(Sources) /\ cur \in Weighting
        /\ st \in Nat /\ st > 0 /\ mass \in Nat /\ mass > 0
        /\ \A c \in J : Signal[c] \in Nat /\ cur[c] \in Nat /\ cur[c] > 0
    BY SignalsTyped, CurrentTyped, AdviceAssumption DEF Worthwhile, Weighting
  <1>2. mass = SumOver(cur, J)
    BY DEF Mass
  <1>3. cl = [c \in J |-> Bounded(10 * mass * Signal[c], 7 * cur[c] * st, 13 * cur[c] * st)]
    BY DEF Clamped
  <1>4. new = [c \in Sources |-> IF c \in J THEN (2 * cl[c] * mass + sum) \div (2 * sum) ELSE cur[c]]
    BY DEF Suggested
  <1>5. sum = SumOver(cl, J)
    BY <1>3, TotalIsSum
  <1> HIDE DEF J, cur, st, mass, cl, sum, new
  <1>6. \A c \in J : cl[c] \in Nat /\ 7 * cur[c] * st <= cl[c] /\ cl[c] <= 13 * cur[c] * st
    <2>1. SUFFICES ASSUME NEW c \in J
                   PROVE  cl[c] \in Nat /\ 7 * cur[c] * st <= cl[c] /\ cl[c] <= 13 * cur[c] * st
      OBVIOUS
    <2>2. 10 * mass * Signal[c] \in Nat
      BY <1>1
    <2>3. cur[c] * st \in Nat /\ 7 * cur[c] * st = 7 * (cur[c] * st) /\ 13 * cur[c] * st = 13 * (cur[c] * st)
      BY <1>1
    <2>4. cl[c] = Bounded(10 * mass * Signal[c], 7 * cur[c] * st, 13 * cur[c] * st)
      BY <1>3
    <2> QED
      BY <2>2, <2>3, <2>4 DEF Bounded
  <1>7. sum \in Nat /\ 7 * st * mass <= sum /\ sum <= 13 * st * mass
    <2>1. sum \in Int
      BY <1>1, <1>5, <1>6, SumType
    <2> DEFINE lo   == 7 * st
               hi   == 13 * st
               one  == 1
               none == 0
    <2>2. /\ lo \in Int /\ hi \in Int /\ one \in Int /\ none \in Int
          /\ \A c \in J : /\ cur[c] \in Int /\ cl[c] \in Int
                          /\ lo * cur[c] <= one * cl[c] + none
                          /\ one * cl[c] <= hi * cur[c] + none
      BY <1>1, <1>6
    <2>3. n \in Nat
      BY <1>1, FS_CardinalityType
    <2> HIDE DEF lo, hi, one, none
    <2>4. lo * SumOver(cur, J) <= one * SumOver(cl, J) + none * Cardinality(J)
      BY <1>1, <2>2, SumBound
    <2>5. one * SumOver(cl, J) <= hi * SumOver(cur, J) + none * Cardinality(J)
      BY <1>1, <2>2, SumBound
    <2>6. lo * mass <= one * sum + none * n /\ one * sum <= hi * mass + none * n
      BY <1>2, <1>5, <2>4, <2>5
    <2>7. one * sum + none * n = sum /\ hi * mass + none * n = hi * mass /\ one * sum = sum
      BY <1>1, <2>1, <2>2, <2>3 DEF one, none
    <2>8. 7 * st * mass <= sum /\ sum <= 13 * st * mass
      BY <2>6, <2>7 DEF lo, hi
    <2>9. 7 * st * mass \in Nat
      BY <1>1
    <2> QED
      BY <2>1, <2>8, <2>9
  <1>8. sum > 0
    <2>1. st * mass >= 1 /\ 7 * st * mass = 7 * (st * mass) /\ st * mass \in Nat
      BY <1>1
    <2> QED
      BY <1>7, <2>1
  <1>9. \A c \in J : /\ new[c] \in Nat
                     /\ 2 * sum * new[c] <= 2 * (cl[c] * mass) + sum
                     /\ 2 * (cl[c] * mass) <= 2 * sum * new[c] + sum
    <2>1. SUFFICES ASSUME NEW c \in J
                   PROVE  /\ new[c] \in Nat
                          /\ 2 * sum * new[c] <= 2 * (cl[c] * mass) + sum
                          /\ 2 * (cl[c] * mass) <= 2 * sum * new[c] + sum
      OBVIOUS
    <2>2. cl[c] * mass \in Nat /\ 2 * cl[c] * mass = 2 * (cl[c] * mass)
      BY <1>1, <1>6
    <2>3. new[c] = (2 * (cl[c] * mass) + sum) \div (2 * sum)
      BY <1>1, <1>4, <2>2
    <2> QED
      BY <1>7, <1>8, <2>2, <2>3, Rounds
  <1>10. \A c \in J : /\ 7 * new[c] <= 13 * cur[c] + 7 /\ 13 * new[c] >= 7 * cur[c] - 13
                      /\ new[c] > 0
    BY <1>1, <1>6, <1>7, <1>9, ShareBounds
  <1>11. \A c \in Sources : c \notin J => new[c] = cur[c]
    BY <1>4
  <1>12. new \in Weighting
    <2>1. \A c \in Sources : new[c] \in Nat \ {0}
      BY <1>1, <1>9, <1>10, <1>11 DEF Weighting
    <2> QED
      BY <1>4, <2>1 DEF Weighting
  <1> DEFINE rest == Sources \ J
             NJ   == SumOver(new, J)
             NR   == SumOver(new, rest)
             CR   == SumOver(cur, rest)
             N    == Cardinality(Sources)
  <1>13. NJ \in Int /\ NR \in Int /\ CR \in Int /\ n \in Nat /\ N \in Nat /\ n <= N
    <2>1. IsFiniteSet(rest) /\ \A c \in Sources : new[c] \in Int /\ cur[c] \in Int
      BY <1>1, <1>12, FS_Subset DEF Weighting
    <2>2. NJ \in Int /\ NR \in Int /\ CR \in Int
      BY <1>1, <2>1, SumType
    <2>3. n \in Nat /\ N \in Nat /\ n <= N
      BY <1>1, FS_Subset, FS_CardinalityType
    <2> QED
      BY <2>2, <2>3
  <1>14. Total(new) = NJ + NR /\ Total(cur) = mass + CR
    <2>1. Total(new) = SumOver(new, Sources) /\ Total(cur) = SumOver(cur, Sources)
      BY <1>1, <1>12, TotalIsSum DEF Weighting
    <2>2. \A c \in Sources : new[c] \in Int /\ cur[c] \in Int
      BY <1>1, <1>12 DEF Weighting
    <2> QED
      BY <1>1, <1>2, <2>1, <2>2, SumSplit
  <1>15. NR = CR
    <2>1. IsFiniteSet(rest)
      BY <1>1, FS_Subset
    <2> DEFINE one  == 1
               none == 0
    <2>2. /\ one \in Int /\ none \in Int
          /\ \A c \in rest : /\ new[c] \in Int /\ cur[c] \in Int
                             /\ one * new[c] <= one * cur[c] + none
                             /\ one * cur[c] <= one * new[c] + none
      BY <1>1, <1>11 DEF Weighting
    <2>3. Cardinality(rest) \in Nat
      BY <2>1, FS_CardinalityType
    <2> HIDE DEF one, none
    <2>4. one * SumOver(new, rest) <= one * SumOver(cur, rest) + none * Cardinality(rest)
      BY <2>1, <2>2, SumBound
    <2>5. one * SumOver(cur, rest) <= one * SumOver(new, rest) + none * Cardinality(rest)
      BY <2>1, <2>2, SumBound
    <2> QED
      BY <1>13, <2>3, <2>4, <2>5 DEF one, none
  <1>16. 2 * NJ <= 2 * mass + n /\ 2 * mass <= 2 * NJ + n
    <2> DEFINE k == 2 * sum
               l == 2 * mass
    <2>1. /\ k \in Int /\ l \in Int /\ sum \in Int
          /\ \A c \in J : /\ new[c] \in Int /\ cl[c] \in Int
                          /\ k * new[c] <= l * cl[c] + sum
                          /\ l * cl[c] <= k * new[c] + sum
      <3>1. \A c \in J : /\ new[c] \in Nat /\ cl[c] \in Nat
                         /\ 2 * (cl[c] * mass) = (2 * mass) * cl[c] /\ 2 * sum * new[c] = (2 * sum) * new[c]
        BY <1>1, <1>6, <1>7, <1>9
      <3> QED
        BY <1>1, <1>7, <1>9, <3>1
    <2> HIDE DEF k, l
    <2>2. k * SumOver(new, J) <= l * SumOver(cl, J) + sum * Cardinality(J)
      BY <1>1, <2>1, SumBound
    <2>3. l * SumOver(cl, J) <= k * SumOver(new, J) + sum * Cardinality(J)
      BY <1>1, <2>1, SumBound
    <2>4. k * NJ <= l * sum + sum * n /\ l * sum <= k * NJ + sum * n
      BY <1>5, <2>2, <2>3
    <2>5. /\ k * NJ = sum * (2 * NJ) /\ l * sum + sum * n = sum * (2 * mass + n)
          /\ l * sum = sum * (2 * mass) /\ k * NJ + sum * n = sum * (2 * NJ + n)
      BY <1>1, <1>7, <1>13 DEF k, l
    <2>6. sum * (2 * NJ) <= sum * (2 * mass + n) /\ sum * (2 * mass) <= sum * (2 * NJ + n)
      BY <2>4, <2>5
    <2>7. 2 * NJ \in Int /\ 2 * mass + n \in Int /\ 2 * mass \in Int /\ 2 * NJ + n \in Int
      BY <1>1, <1>13
    <2> HIDE DEF NJ
    <2> QED
      BY <1>7, <1>8, <2>6, <2>7, Cancel
  <1>17. /\ Total(new) \in Int /\ Total(cur) \in Int
         /\ 2 * Total(new) <= 2 * Total(cur) + N
         /\ 2 * Total(cur) <= 2 * Total(new) + N
    BY <1>1, <1>13, <1>14, <1>15, <1>16
  <1> QED
    BY <1>10, <1>12, <1>17 DEF J, cur, new

(***************************************************************************)
(* The weights, however many suggestions are made and approved.            *)
(***************************************************************************)
\* Kept, for m suggestions.
Near(w, m) ==
  /\ 2 * Total(w) <= 2 * Total(Configured) + m * Cardinality(Sources)
  /\ 2 * Total(Configured) <= 2 * Total(w) + m * Cardinality(Sources)

\* A suggestion that was sound when it was made.
Fine(x, m) ==
  /\ x.weights \in Weighting /\ Near(x.weights, m)
  /\ x.base \in Weighting /\ x.judged \subseteq Sources
  /\ \A c \in x.judged : /\ 7 * x.weights[c] <= 13 * x.base[c] + 7
                         /\ 13 * x.weights[c] >= 7 * x.base[c] - 13

WParts ==
  /\ weights \in Weighting \cup {None}
  /\ ledger \in [Sources -> History]
  /\ \A r \in Reweights : reweight[r].status # "none" => Fine(reweight[r], Made)
  /\ Near(CurrentWeights, Made)

\* Counts of proposals and of sources, and totals, are whole numbers.
LEMMA Numbers ==
  /\ Made \in Nat /\ Cardinality(Sources) \in Nat
  /\ \A w \in Weighting : Total(w) \in Int
  <1>1. Made \in Nat /\ Cardinality(Sources) \in Nat
    <2>1. IsFiniteSet({r \in Reweights : reweight[r].status # "none"})
      BY AdviceAssumption, FS_Subset
    <2> QED
      BY <2>1, AdviceAssumption, FS_CardinalityType DEF Made
  <1>2. ASSUME NEW w \in Weighting PROVE Total(w) \in Int
    <2>1. DOMAIN w = Sources /\ \A c \in Sources : w[c] \in Int
      BY DEF Weighting
    <2>2. Total(w) = SumOver(w, Sources)
      BY <2>1, TotalIsSum
    <2> QED
      BY <2>1, <2>2, AdviceAssumption, SumType
  <1> QED
    BY <1>1, <1>2

\* The distance of a total from what is configured, the two ways to say it.
LEMMA KeptIsNear == ASSUME NEW w \in Weighting PROVE Kept(w) <=> Near(w, Made)
  <1> DEFINE T == Total(w)
             C == Total(Configured)
             b == Made * Cardinality(Sources)
  <1>1. T \in Int /\ C \in Int /\ b \in Int
    <2>1. T \in Int /\ C \in Int /\ Made \in Nat /\ Cardinality(Sources) \in Nat
      BY Numbers, AdviceAssumption
    <2> QED
      BY <2>1
  <1> HIDE DEF T, C, b
  <1>2. (2 * (T - C) <= b /\ -2 * (T - C) <= b) <=> (2 * T <= 2 * C + b /\ 2 * C <= 2 * T + b)
    BY <1>1
  <1> QED
    BY <1>2 DEF Kept, Near, T, C, b

\* The invariant, by the parts that the steps disturb.
LEMMA WInvIsParts == WInv <=> WParts
  <1>1. weights \in Weighting \cup {None} => (WeightKept <=> Near(CurrentWeights, Made))
    BY CurrentTyped, KeptIsNear DEF WeightKept
  <1>2. \A r \in Reweights : reweight[r].weights \in Weighting =>
          (Kept(reweight[r].weights) <=> Near(reweight[r].weights, Made))
    BY KeptIsNear
  <1> QED
    BY <1>1, <1>2 DEF WInv, WParts, Fine, ShiftBounded

\* The more suggestions, the further it may drift.
LEMMA NearGrows ==
  ASSUME NEW w \in Weighting, NEW m \in Nat, Near(w, m)
  PROVE  Near(w, m + 1)
  <1> DEFINE N == Cardinality(Sources)
             T == Total(w)
             C == Total(Configured)
  <1>1. N \in Nat /\ T \in Int /\ C \in Int
    BY Numbers, AdviceAssumption
  <1>2. 2 * T <= 2 * C + m * N /\ 2 * C <= 2 * T + m * N
    BY DEF Near
  <1> HIDE DEF N, T, C
  <1>3. (m + 1) * N = m * N + N /\ m * N \in Int
    BY <1>1
  <1>4. 2 * T <= 2 * C + (m + 1) * N /\ 2 * C <= 2 * T + (m + 1) * N
    BY <1>1, <1>2, <1>3
  <1> QED
    BY <1>4 DEF Near, N, T, C

\* What is configured is as much as is configured.
LEMMA ConfiguredNear == ASSUME NEW m \in Nat PROVE Near(Configured, m)
  <1>1. m * Cardinality(Sources) \in Nat /\ Total(Configured) \in Int
    <2>1. Cardinality(Sources) \in Nat /\ Total(Configured) \in Int
      BY Numbers, AdviceAssumption
    <2> QED
      BY <2>1
  <1> QED
    BY <1>1 DEF Near

\* A suggestion drifts one further than what it was made from.
LEMMA SuggestedFine ==
  ASSUME WParts, Worthwhile
  PROVE  Fine([weights |-> Suggested, base |-> CurrentWeights, judged |-> Judged, status |-> "pending"],
              Made + 1)
  <1> DEFINE N == Cardinality(Sources)
             S == Total(Suggested)
             T == Total(CurrentWeights)
             C == Total(Configured)
             m == Made
  <1>1. /\ Suggested \in Weighting /\ CurrentWeights \in Weighting /\ Judged \subseteq Sources
        /\ \A c \in Judged : /\ 7 * Suggested[c] <= 13 * CurrentWeights[c] + 7
                             /\ 13 * Suggested[c] >= 7 * CurrentWeights[c] - 13
        /\ S \in Int /\ T \in Int /\ 2 * S <= 2 * T + N /\ 2 * T <= 2 * S + N
    BY SuggestedSound, CurrentTyped DEF WParts, Judged
  <1>2. N \in Nat /\ m \in Nat /\ C \in Int
    BY Numbers, AdviceAssumption
  <1>3. 2 * T <= 2 * C + m * N /\ 2 * C <= 2 * T + m * N
    BY DEF WParts, Near
  <1>4. Near(Suggested, Made + 1)
    <2> HIDE DEF N, S, T, C, m
    <2>1. (m + 1) * N = m * N + N /\ m * N \in Int
      BY <1>2
    <2>2. 2 * S <= 2 * C + (m + 1) * N /\ 2 * C <= 2 * S + (m + 1) * N
      BY <1>1, <1>2, <1>3, <2>1
    <2> QED
      BY <2>2 DEF Near, N, S, C, m
  <1> QED
    BY <1>1, <1>4 DEF Fine

\* The initial state.
LEMMA InitParts == Init => WParts
  <1> SUFFICES ASSUME Init PROVE WParts
    OBVIOUS
  <1>1. CurrentWeights = Configured /\ weights = None
    BY DEF Init, CurrentWeights
  <1>2. ledger \in [Sources -> History]
    BY DEF Init, History
  <1>3. \A r \in Reweights : reweight[r].status = "none"
    BY DEF Init, NotMade
  <1> QED
    BY <1>1, <1>2, <1>3, Numbers, ConfiguredNear DEF WParts

\* What suggests nothing puts in force what is configured, or was suggested.
LEMMA PartsKept ==
  ASSUME WParts, UNCHANGED reweight, ledger' \in [Sources -> History],
         \/ weights' \in {weights, None}
         \/ \E r \in Reweights : reweight[r].status # "none" /\ weights' = reweight[r].weights
  PROVE  WParts'
  <1>1. Made' = Made
    BY DEF Made
  <1>2. weights' \in Weighting \cup {None} /\ Near(CurrentWeights', Made)
    <2>1. CASE weights' = weights
      BY <2>1 DEF WParts, CurrentWeights
    <2>2. CASE weights' = None
      BY <2>2, Numbers, ConfiguredNear DEF CurrentWeights
    <2>3. ASSUME NEW r \in Reweights, reweight[r].status # "none", weights' = reweight[r].weights
          PROVE  weights' \in Weighting \cup {None} /\ Near(CurrentWeights', Made)
      <3>1. weights' \in Weighting /\ Near(weights', Made)
        BY <2>3 DEF WParts, Fine
      <3> QED
        BY <3>1, Numbers, ConfiguredNear DEF CurrentWeights
    <2> QED
      BY <2>1, <2>2, <2>3
  <1>3. \A r \in Reweights : reweight'[r].status # "none" => Fine(reweight'[r], Made)
    BY DEF WParts
  <1> QED
    BY <1>1, <1>2, <1>3 DEF WParts

\* A proposal that ends or is marked stays what it was.
LEMMA PartsEnd ==
  ASSUME WParts, ReweightRecords, NEW r \in Reweights, reweight[r].status # "none",
         NEW status, status # "none", MarkReweight(r, status), UNCHANGED <<weights, ledger>>
  PROVE  WParts'
  <1>1. /\ reweight'[r] = [weights |-> reweight[r].weights, base |-> reweight[r].base,
                           judged |-> reweight[r].judged, status |-> status]
        /\ \A q \in Reweights \ {r} : reweight'[q] = reweight[q]
    BY DEF ReweightRecords, MarkReweight
  <1>2. \A q \in Reweights : /\ reweight'[q].status # "none" <=> reweight[q].status # "none"
                             /\ reweight'[q].weights = reweight[q].weights
                             /\ reweight'[q].base = reweight[q].base
                             /\ reweight'[q].judged = reweight[q].judged
    BY <1>1
  <1>3. Made' = Made
    BY <1>2 DEF Made
  <1>4. \A q \in Reweights : reweight'[q].status # "none" => Fine(reweight'[q], Made)
    BY <1>2 DEF WParts, Fine
  <1>5. CurrentWeights' = CurrentWeights
    BY DEF CurrentWeights
  <1> QED
    BY <1>3, <1>4, <1>5 DEF WParts

\* One more suggestion.
LEMMA PartsSuggest ==
  ASSUME WParts, ReweightRecords, NEW r \in Reweights, Suggest(r)
  PROVE  WParts'
  <1> DEFINE new == [weights |-> Suggested, base |-> CurrentWeights, judged |-> Judged, status |-> "pending"]
             made == {q \in Reweights : reweight[q].status # "none"}
  <1>1. /\ reweight'[r] = new /\ \A q \in Reweights \ {r} : reweight'[q] = reweight[q]
        /\ reweight[r].status = "none" /\ UNCHANGED <<weights, ledger>>
    BY DEF ReweightRecords, Suggest
  <1>2. Made' = Made + 1 /\ Made \in Nat
    <2>1. IsFiniteSet(made) /\ r \notin made
      BY <1>1, AdviceAssumption, FS_Subset
    <2>2. {q \in Reweights : reweight'[q].status # "none"} = made \cup {r}
      BY <1>1
    <2>3. Cardinality(made \cup {r}) = Cardinality(made) + 1
      BY <2>1, FS_AddElement
    <2> QED
      BY <2>2, <2>3, Numbers DEF Made
  <1>3. Fine(new, Made + 1)
    BY SuggestedFine DEF Suggest
  <1>4. ASSUME NEW q \in Reweights, q # r, reweight[q].status # "none"
        PROVE  Fine(reweight[q], Made + 1)
    BY <1>2, <1>4, NearGrows DEF WParts, Fine
  <1>5. CurrentWeights' = CurrentWeights /\ Near(CurrentWeights, Made + 1)
    <2>1. CurrentWeights' = CurrentWeights
      BY <1>1 DEF CurrentWeights
    <2>2. CurrentWeights \in Weighting /\ Near(CurrentWeights, Made)
      BY CurrentTyped DEF WParts
    <2> QED
      BY <1>2, <2>1, <2>2, NearGrows
  <1> HIDE DEF new
  <1>6. \A q \in Reweights : reweight'[q].status # "none" => Fine(reweight'[q], Made')
    BY <1>1, <1>2, <1>3, <1>4
  <1>7. weights' \in Weighting \cup {None} /\ ledger' \in [Sources -> History]
    BY <1>1 DEF WParts
  <1> QED
    BY <1>2, <1>5, <1>6, <1>7 DEF WParts

\* Every step keeps the parts.
LEMMA PartsStep ==
  WParts /\ CrashesPay /\ ReweightRecords /\ [Next]_vars => WParts'
  <1> SUFFICES ASSUME WParts, CrashesPay, ReweightRecords, [Next]_vars
               PROVE  WParts'
    OBVIOUS
  <1>0. ledger \in [Sources -> History]
    BY DEF WParts
  <1>1. CASE \/ \E r \in Rotations : (\E ch \in Change : Propose(r, ch)) \/ Approve(r) \/ Ends(r) \/ MarkApproved(r)
             \/ Quarantine \/ QuarantineWeights \/ Crash \/ UNCHANGED vars
    <2>1. UNCHANGED <<reweight, ledger>> /\ weights' \in {weights, None}
      BY <1>1 DEF Propose, Approve, Ends, MarkApproved, Quarantine, QuarantineWeights, Crash, vars,
                  rotationVars, weightVars
    <2> QED
      BY <1>0, <2>1, PartsKept
  <1>2. ASSUME NEW r \in Reweights, Suggest(r) PROVE WParts'
    BY <1>2, PartsSuggest
  <1>3. ASSUME NEW r \in Reweights, ApproveReweight(r) PROVE WParts'
    <2>1. UNCHANGED <<reweight, ledger>> /\ weights' = reweight[r].weights /\ reweight[r].status # "none"
      BY <1>3 DEF ApproveReweight
    <2> QED
      BY <1>0, <2>1, PartsKept
  <1>4. ASSUME NEW r \in Reweights, EndsReweight(r) PROVE WParts'
    <2>1. PICK status \in {"expired", "denied"} : MarkReweight(r, status)
      BY <1>4 DEF EndsReweight
    <2>2. reweight[r].status # "none" /\ status # "none" /\ UNCHANGED <<weights, ledger>>
      BY <1>4 DEF EndsReweight
    <2> QED
      BY <2>1, <2>2, PartsEnd
  <1>5. ASSUME NEW r \in Reweights, MarkReweighted(r) PROVE WParts'
    <2>1. reweight[r].status # "none"
      BY <1>5 DEF CrashesPay, MarkReweighted, StatusOf
    <2>2. MarkReweight(r, "approved") /\ UNCHANGED <<weights, ledger>>
      BY <1>5 DEF MarkReweighted
    <2> QED
      BY <2>1, <2>2, PartsEnd
  <1>6. ASSUME NEW c \in Sources, Surface(c) PROVE WParts'
    <2>1. PICK h \in Histories : ledger' = [ledger EXCEPT ![c] = h]
      BY <1>6 DEF Surface
    <2>2. ledger' \in [Sources -> History]
      BY <1>0, <2>1, AdviceAssumption
    <2> QED
      BY <1>6, <2>2, PartsKept DEF Surface
  <1> QED
    BY <1>1, <1>2, <1>3, <1>4, <1>5, <1>6 DEF Next

\* And so the weights keep the invariant.
LEMMA WeightsInvariant == Spec => []WInv
  BY InitParts, PartsStep, InitPays, PayStep, SomeStaysActive, WInvIsParts, PTL DEF Spec

\* Whatever is suggested from whatever ledger and approved, however stale, the
\* weights in force add up to what is configured but for the rounding of each
\* source in each suggestion: for any sources, weights and number of proposals.
THEOREM WeightsStay == Spec => []WeightKept
  <1>1. WInv => WeightKept
    BY DEF WInv
  <1> QED
    BY WeightsInvariant, <1>1, PTL

\* No suggestion moves a source past what the cap, scaled back, allows.
THEOREM ShiftsStay == Spec => []ShiftBounded
  <1>1. WInv => ShiftBounded
    BY DEF WInv
  <1> QED
    BY WeightsInvariant, <1>1, PTL

\* No suggestion, and no sequence of them, takes a source's last weight.
THEOREM NoSourceSilenced == Spec => [](CurrentWeights \in Weighting)
  <1>1. WInv => CurrentWeights \in Weighting
    BY CurrentTyped DEF WInv
  <1> QED
    BY WeightsInvariant, <1>1, PTL

(***************************************************************************)
(* Discovery passes: the votes of sources and the weights they blend with. *)
(***************************************************************************)
\* A report is of votes, and of what gets through on their scores.
LEMMA ReportIs ==
  ASSUME NEW report \in Reports
  PROVE  \E a \in Configs : \E C \in SUBSET a, block \in SUBSET Symbols :
         \E votes \in VotesOf(a, C) :
         LET points == [x \in Symbols |-> Score(a, votes[x])]
         IN \E through \in SUBSET Scored(votes, points, block) : \E P \in Best(points, through) :
              report = [on |-> a, from |-> C, blocked |-> block,
                        ideas |-> P, earned |-> Earned(votes, points, P, through)]
  <1>1. PICK a \in Configs :
          \E C \in SUBSET a, block \in SUBSET Symbols : report \in ReportsOn(a, C, block)
    BY DEF Reports
  <1>2. PICK C \in SUBSET a, block \in SUBSET Symbols : report \in ReportsOn(a, C, block)
    BY <1>1
  <1>3. PICK votes \in VotesOf(a, C) : report \in ReportsOf(a, C, block, votes)
    BY <1>2 DEF ReportsOn
  <1> DEFINE points == [x \in Symbols |-> Score(a, votes[x])]
  <1>4. PICK through \in SUBSET Scored(votes, points, block) :
          \E P \in Best(points, through) :
            report = [on |-> a, from |-> C, blocked |-> block,
                      ideas |-> P, earned |-> Earned(votes, points, P, through)]
    BY <1>3 DEF ReportsOf
  <1> QED
    BY <1>4

\* No idea of a report is of a symbol that was excluded.
LEMMA IdeasNotExcluded ==
  ASSUME NEW report \in Reports
  PROVE  report.ideas \subseteq Symbols \ report.blocked
  <1> DEFINE Of(a, C, block, votes) ==
               LET points == [x \in Symbols |-> Score(a, votes[x])]
               IN \E through \in SUBSET Scored(votes, points, block) : \E P \in Best(points, through) :
                    report = [on |-> a, from |-> C, blocked |-> block,
                              ideas |-> P, earned |-> Earned(votes, points, P, through)]
  <1>0. PICK a \in Configs : \E C \in SUBSET a, block \in SUBSET Symbols :
               \E votes \in VotesOf(a, C) : Of(a, C, block, votes)
    BY ReportIs
  <1>1. PICK C \in SUBSET a, block \in SUBSET Symbols :
          \E v \in VotesOf(a, C) : Of(a, C, block, v)
    BY <1>0
  <1>4. PICK votes \in VotesOf(a, C) : Of(a, C, block, votes)
    BY <1>1
  <1> DEFINE points == [x \in Symbols |-> Score(a, votes[x])]
  <1>2. \A through \in SUBSET Scored(votes, points, block) :
          \A P \in Best(points, through) : P \subseteq Symbols \ block
    BY DEF Best, Scored
  <1>3. PICK through \in SUBSET Scored(votes, points, block) : \E P \in Best(points, through) :
          report = [on |-> a, from |-> C, blocked |-> block,
                    ideas |-> P, earned |-> Earned(votes, points, P, through)]
    BY <1>4
  <1> HIDE DEF points
  <1> QED
    BY <1>2, <1>3

(***************************************************************************)
(* The score                                                               *)
(***************************************************************************)
Ballots(on) == [on -> 0..100 \cup {NoVote}]

Share(on, vote) == [s \in on |-> SourceWeights[s] * Vote(vote, s)]

\* Sums of the same are the same.
LEMMA SumSame ==
  ASSUME NEW a, NEW b, NEW C, IsFiniteSet(C), \A c \in C : a[c] \in Int /\ a[c] = b[c]
  PROVE  SumOver(a, C) = SumOver(b, C)
  <1> DEFINE one  == 1
             none == 0
  <1>1. /\ one \in Int /\ none \in Int
        /\ \A c \in C : /\ a[c] \in Int /\ b[c] \in Int
                        /\ one * a[c] <= one * b[c] + none /\ one * b[c] <= one * a[c] + none
    OBVIOUS
  <1>2. SumOver(a, C) \in Int /\ SumOver(b, C) \in Int /\ Cardinality(C) \in Nat
    BY <1>1, SumType, FS_CardinalityType
  <1> HIDE DEF one, none
  <1>3. /\ one * SumOver(a, C) <= one * SumOver(b, C) + none * Cardinality(C)
        /\ one * SumOver(b, C) <= one * SumOver(a, C) + none * Cardinality(C)
    BY <1>1, SumBound
  <1> QED
    BY <1>2, <1>3 DEF one, none

\* Sums of naturals are naturals, and monotone.
LEMMA SumUp ==
  ASSUME NEW a, NEW b, NEW C, IsFiniteSet(C), \A c \in C : a[c] \in Nat /\ b[c] \in Nat /\ a[c] <= b[c]
  PROVE  SumOver(a, C) \in Nat /\ SumOver(b, C) \in Nat /\ SumOver(a, C) <= SumOver(b, C)
  <1> DEFINE one  == 1
             none == 0
  <1>1. /\ one \in Int /\ none \in Int
        /\ \A c \in C : /\ a[c] \in Int /\ b[c] \in Int /\ one * a[c] <= one * b[c] + none
                        /\ none * a[c] <= one * a[c] + none
    OBVIOUS
  <1>2. SumOver(a, C) \in Int /\ SumOver(b, C) \in Int /\ Cardinality(C) \in Nat
    BY <1>1, SumType, FS_CardinalityType
  <1> HIDE DEF one, none
  <1>3. one * SumOver(a, C) <= one * SumOver(b, C) + none * Cardinality(C)
    BY <1>1, SumBound
  <1>4. none * SumOver(a, C) <= one * SumOver(a, C) + none * Cardinality(C)
    BY <1>1, SumBound
  <1> QED
    BY <1>2, <1>3, <1>4 DEF one, none

\* Nothing sums to nothing.
LEMMA SumZero ==
  ASSUME NEW a, NEW C, IsFiniteSet(C), \A c \in C : a[c] = 0
  PROVE  SumOver(a, C) = 0
  <1> DEFINE none == 0
             one  == 1
  <1>1. /\ none \in Int /\ one \in Int
        /\ \A c \in C : /\ a[c] \in Int
                        /\ one * a[c] <= none * a[c] + none
                        /\ none * a[c] <= one * a[c] + none
    OBVIOUS
  <1>2. SumOver(a, C) \in Int /\ Cardinality(C) \in Nat
    BY <1>1, SumType, FS_CardinalityType
  <1> HIDE DEF none, one
  <1>3. /\ one * SumOver(a, C) <= none * SumOver(a, C) + none * Cardinality(C)
        /\ none * SumOver(a, C) <= one * SumOver(a, C) + none * Cardinality(C)
    BY <1>1, SumBound
  <1> QED
    BY <1>2, <1>3 DEF none, one

\* There are six sources.
LEMMA SixSources ==
  ASSUME Votes, DiscoverySettings, NEW on \in Configs
  PROVE  IsFiniteSet(on) /\ on \subseteq DOMAIN SourceWeights
  <1>1. IsFiniteSet(SOURCES)
    <2>1. SOURCES = {"congress"} \cup {"technical"} \cup {"news"} \cup {"fundamentals"}
                      \cup {"social"} \cup {"volatility"}
      BY DEF SOURCES
    <2> QED
      BY <2>1, FS_Singleton, FS_Union
  <1>2. on \subseteq SOURCES
    BY DEF DiscoverySettings
  <1> QED
    BY <1>1, <1>2, FS_Subset DEF Votes

\* What a score is: every source counts in the whole, those without an opinion
\* with nothing.
LEMMA ScoreIs ==
  ASSUME Votes, DiscoverySettings, SaneWeights, NEW on \in Configs, NEW vote \in Ballots(on)
  PROVE  LET got   == SumOver(Share(on, vote), on)
             total == SumOver(SourceWeights, on)
         IN /\ \A s \in on : SourceWeights[s] \in Nat /\ Share(on, vote)[s] \in Nat
            /\ got \in Nat /\ total \in Nat
            /\ SumWeights(on) = total
            /\ Score(on, vote) = IF total = 0 THEN 0 ELSE (20 * got + total) \div (2 * total)
  <1> DEFINE f     == Share(on, vote)
             voted == {s \in on : vote[s] # NoVote}
             g     == [s \in voted |-> SourceWeights[s] * vote[s]]
             rest  == on \ voted
  <1>1. IsFiniteSet(on) /\ IsFiniteSet(voted) /\ IsFiniteSet(rest) /\ voted \in SUBSET on
    BY SixSources, FS_Subset
  <1>2. \A s \in on : SourceWeights[s] \in Nat /\ Vote(vote, s) \in Nat
    <2>1. \A s \in on : SourceWeights[s] \in Nat
      BY SixSources DEF SaneWeights
    <2>2. \A s \in on : Vote(vote, s) \in Nat
      BY DEF Ballots, Vote
    <2> QED
      BY <2>1, <2>2
  <1>3. \A s \in on : f[s] \in Nat
    BY <1>2 DEF Share
  <1>4. SumOver(f, on) \in Nat /\ SumOver(SourceWeights, on) \in Nat
    <2>1. \A s \in on : f[s] <= f[s] /\ SourceWeights[s] <= SourceWeights[s]
      BY <1>2, <1>3
    <2> HIDE DEF f
    <2> QED
      BY <1>1, <1>2, <1>3, <2>1, SumUp
  <1>5. SumOver(f, on) = SumOver(g, voted)
    <2>1. \A s \in voted : g[s] \in Int /\ g[s] = f[s]
      BY <1>2, <1>3 DEF Share, Vote
    <2>2. \A s \in rest : f[s] = 0
      BY <1>2 DEF Share, Vote
    <2>4. \A s \in on : f[s] \in Int
      BY <1>3
    <2> HIDE DEF f, g, voted
    <2>5. SumOver(f, on) = SumOver(f, voted) + SumOver(f, rest)
      BY <1>1, <2>4, SumSplit
    <2>6. SumOver(g, voted) = SumOver(f, voted) /\ SumOver(f, rest) = 0
      BY <1>1, <2>1, <2>2, SumSame, SumZero
    <2>7. SumOver(f, voted) \in Int
      BY <1>1, <2>4, SumType
    <2> QED
      BY <2>5, <2>6, <2>7
  <1>6. SumWeights(on) = SumOver(SourceWeights, on)
    BY DEF SumWeights, SumOver, FoldFunctionOnSet, MapThenFoldSet
  <1>7. Score(on, vote) =
          IF SumWeights(on) = 0 THEN 0
          ELSE (20 * SumOver(g, voted) + SumWeights(on)) \div (2 * SumWeights(on))
    BY DEF Score, SumOver, FoldFunctionOnSet, MapThenFoldSet
  <1> QED
    BY <1>2, <1>3, <1>4, <1>5, <1>6, <1>7

\* A larger dividend has no smaller quotient.
LEMMA QuotientGrows ==
  ASSUME NEW x \in Nat, NEW y \in Nat, NEW n \in Nat, n > 0, x <= y
  PROVE  x \div n \in Nat /\ y \div n \in Nat /\ x \div n <= y \div n
  <1> DEFINE p == x \div n
             q == y \div n
  <1>1. /\ p \in Nat /\ x = (n * p) + (x % n) /\ x % n \in 0 .. n - 1
        /\ q \in Nat /\ y = (n * q) + (y % n) /\ y % n \in 0 .. n - 1
    OBVIOUS
  <1> HIDE DEF p, q
  <1>2. ASSUME p > q PROVE FALSE
    <2>1. p - q \in Nat /\ p - q >= 1
      BY <1>1, <1>2
    <2>2. n * (p - q) >= n
      BY <2>1
    <2>3. n * (p - q) = n * p - n * q /\ n * p \in Nat /\ n * q \in Nat
      BY <1>1
    <2> QED
      BY <1>1, <2>2, <2>3
  <1> QED
    BY <1>1, <1>2 DEF p, q

\* Who is outvoted scores no higher.
LEMMA ScoreGrows ==
  ASSUME Votes, DiscoverySettings, SaneWeights, NEW on \in Configs,
         NEW u \in Ballots(on), NEW v \in Ballots(on),
         \A s \in on : Vote(u, s) <= Vote(v, s)
  PROVE  Score(on, u) \in Nat /\ Score(on, v) \in Nat /\ Score(on, u) <= Score(on, v)
  <1> DEFINE f     == Share(on, u)
             g     == Share(on, v)
             got   == SumOver(f, on)
             gets  == SumOver(g, on)
             total == SumOver(SourceWeights, on)
  <1>1. /\ \A s \in on : SourceWeights[s] \in Nat /\ f[s] \in Nat /\ g[s] \in Nat
        /\ got \in Nat /\ gets \in Nat /\ total \in Nat
        /\ Score(on, u) = IF total = 0 THEN 0 ELSE (20 * got + total) \div (2 * total)
        /\ Score(on, v) = IF total = 0 THEN 0 ELSE (20 * gets + total) \div (2 * total)
    BY ScoreIs
  <1>2. \A s \in on : f[s] <= g[s]
    <2>1. SUFFICES ASSUME NEW s \in on PROVE f[s] <= g[s]
      OBVIOUS
    <2>2. Vote(u, s) \in Nat /\ Vote(v, s) \in Nat /\ Vote(u, s) <= Vote(v, s)
      BY DEF Ballots, Vote
    <2>3. SourceWeights[s] * Vote(u, s) <= SourceWeights[s] * Vote(v, s)
      BY <1>1, <2>2
    <2> QED
      BY <2>3 DEF Share
  <1>3. got <= gets
    <2> HIDE DEF f, g
    <2> QED
      BY <1>1, <1>2, SixSources, SumUp
  <1> HIDE DEF got, gets, total
  <1>4. CASE total = 0
    BY <1>1, <1>4
  <1>5. CASE total # 0
    <2>1. /\ 20 * got + total \in Nat /\ 20 * gets + total \in Nat /\ 2 * total \in Nat /\ 2 * total > 0
          /\ 20 * got + total <= 20 * gets + total
      BY <1>1, <1>3, <1>5
    <2>2. /\ (20 * got + total) \div (2 * total) \in Nat /\ (20 * gets + total) \div (2 * total) \in Nat
          /\ (20 * got + total) \div (2 * total) <= (20 * gets + total) \div (2 * total)
      BY <2>1, QuotientGrows
    <2> QED
      BY <1>1, <1>5, <2>2
  <1> QED
    BY <1>4, <1>5

\* A nudge alone stays below the floor.
LEMMA NudgeFails ==
  ASSUME Votes, DiscoverySettings, SaneWeights, NEW on \in Configs, NEW vote \in Ballots(on),
         NEW s \in Nudges, Voters(vote) = {s}
  PROVE  Score(on, vote) < MinScore
  <1> DEFINE f     == Share(on, vote)
             got   == SumOver(f, on)
             total == SumOver(SourceWeights, on)
             w     == SourceWeights[s]
             m     == MinScore
  <1>1. s \in on /\ vote[s] \in 0..100 /\ \A c \in on \ {s} : vote[c] = NoVote
    BY DEF Voters, Ballots
  <1>2. /\ \A c \in on : f[c] \in Nat
        /\ w \in Nat /\ got \in Nat /\ total \in Nat /\ SumWeights(on) = total
        /\ Score(on, vote) = IF total = 0 THEN 0 ELSE (20 * got + total) \div (2 * total)
    BY <1>1, ScoreIs
  <1>3. got = f[s]
    <2> DEFINE rest == on \ {s}
    <2>1. IsFiniteSet(on) /\ IsFiniteSet(rest)
      BY SixSources, FS_Subset
    <2>2. \A c \in rest : f[c] = 0
      <3>1. \A c \in rest : SourceWeights[c] \in Nat
        BY ScoreIs
      <3> QED
        BY <1>1, <3>1 DEF Share, Vote
    <2>3. \A c \in on : f[c] \in Int
      BY <1>2
    <2> HIDE DEF f
    <2>4. SumOver(f, on) = f[s] + SumOver(f, rest)
      BY <1>1, <2>1, <2>3, SumRemove
    <2>5. SumOver(f, rest) = 0
      BY <2>1, <2>2, SumZero
    <2> QED
      BY <1>1, <2>3, <2>4, <2>5
  <1>4. got <= 100 * w
    <2>1. f[s] = w * vote[s]
      BY <1>1 DEF Share, Vote, Votes
    <2>2. w * vote[s] <= w * 100
      BY <1>1, <1>2
    <2> QED
      BY <1>2, <1>3, <2>1, <2>2
  <1>5. m \in Nat /\ 2 * 1000 * w < (2 * m - 1) * total
    BY <1>1, <1>2 DEF SaneWeights, DiscoverySettings
  <1> HIDE DEF got, total, w, m
  <1>6. total > 0 /\ m > 0
    <2>1. total # 0
      BY <1>2, <1>5
    <2>2. ASSUME m = 0 PROVE FALSE
      BY <1>2, <1>5, <2>2
    <2> QED
      BY <1>2, <1>5, <2>1, <2>2
  <1>7. (20 * got + total) \div (2 * total) < m
    <2> DEFINE x == 20 * got + total
               n == 2 * total
               q == x \div n
    <2>1. x \in Nat /\ n \in Nat /\ n > 0
      BY <1>2, <1>6
    <2>2. x < n * m
      <3>1. (2 * m - 1) * total = 2 * (total * m) - total /\ n * m = 2 * (total * m) /\ total * m \in Nat
        BY <1>2, <1>5
      <3> QED
        BY <1>2, <1>4, <1>5, <3>1
    <2> HIDE DEF x, n
    <2>3. q \in Nat /\ x = (n * q) + (x % n) /\ x % n \in 0 .. n - 1
      BY <2>1
    <2> HIDE DEF q
    <2>4. ASSUME q >= m PROVE FALSE
      <3>1. n * q >= n * m
        BY <1>5, <2>1, <2>3, <2>4
      <3>2. n * q \in Nat /\ n * m \in Nat
        BY <1>5, <2>1, <2>3
      <3> QED
        BY <2>1, <2>2, <2>3, <3>1, <3>2
    <2>5. q < m
      BY <1>5, <2>3, <2>4
    <2> QED
      BY <2>5 DEF q, x, n
  <1> QED
    BY <1>2, <1>6, <1>7 DEF m

\* Votes are ballots.
LEMMA VotesAreBallots ==
  ASSUME Votes, NEW a \in Configs, NEW C \in SUBSET a, NEW votes \in VotesOf(a, C),
         NEW x \in Symbols
  PROVE  votes[x] \in Ballots(a)
  <1>1. PICK pick \in [C -> UNION {Inputs[s] : s \in C}] :
          /\ \A s \in C : pick[s] \in Inputs[s]
          /\ votes = [y \in Symbols |-> [s \in a |-> IF s \in C THEN pick[s][y] ELSE NoVote]]
    BY DEF VotesOf
  <1>2. \A s \in C : pick[s][x] \in 0..100 \cup {NoVote}
    <2>1. \A s \in C : pick[s] \in [Symbols -> 0..100 \cup {NoVote}]
      BY <1>1 DEF Votes
    <2> QED
      BY <2>1
  <1>3. votes[x] = [s \in a |-> IF s \in C THEN pick[s][x] ELSE NoVote]
    BY <1>1
  <1> QED
    BY <1>2, <1>3 DEF Ballots

\* A score is a natural number.
LEMMA ScoreNatural ==
  ASSUME Votes, DiscoverySettings, SaneWeights, NEW on \in Configs, NEW vote \in Ballots(on)
  PROVE  Score(on, vote) \in Nat
  <1>1. \A s \in on : Vote(vote, s) <= Vote(vote, s)
    BY DEF Ballots, Vote
  <1> QED
    BY <1>1, ScoreGrows

\* Every report is earned.
LEMMA ReportsEarned ==
  ASSUME Votes, DiscoverySettings, SaneWeights, NEW report \in Reports
  PROVE  report.earned
  <1> DEFINE Of(a, C, block, votes) ==
               LET points == [x \in Symbols |-> Score(a, votes[x])]
               IN \E through \in SUBSET Scored(votes, points, block) : \E P \in Best(points, through) :
                    report = [on |-> a, from |-> C, blocked |-> block,
                              ideas |-> P, earned |-> Earned(votes, points, P, through)]
  <1>1. PICK a \in Configs : \E C \in SUBSET a, block \in SUBSET Symbols :
               \E votes \in VotesOf(a, C) : Of(a, C, block, votes)
    BY ReportIs
  <1>2. PICK C \in SUBSET a, block \in SUBSET Symbols :
          \E v \in VotesOf(a, C) : Of(a, C, block, v)
    BY <1>1
  <1>3. PICK votes \in VotesOf(a, C) : Of(a, C, block, votes)
    BY <1>2
  <1> DEFINE points == [x \in Symbols |-> Score(a, votes[x])]
  <1>4. PICK through \in SUBSET Scored(votes, points, block) : \E P \in Best(points, through) :
          report = [on |-> a, from |-> C, blocked |-> block,
                    ideas |-> P, earned |-> Earned(votes, points, P, through)]
    BY <1>3
  <1>5. PICK P \in Best(points, through) : report.earned = Earned(votes, points, P, through)
    BY <1>4
  <1>6. \A x \in Symbols : votes[x] \in Ballots(a) /\ points[x] = Score(a, votes[x])
    BY VotesAreBallots
  <1>7. /\ P \subseteq through /\ through \subseteq Symbols
        /\ \A x \in through : points[x] >= MinScore
        /\ \A p \in P, q \in through \ P : points[q] <= points[p]
    BY DEF Best, Scored
  <1> HIDE DEF points
  <1>8. ASSUME NEW p \in P, NEW s \in Nudges, Voters(votes[p]) = {s}
        PROVE  FALSE
    <2>1. p \in Symbols /\ points[p] >= MinScore
      BY <1>7
    <2>2. points[p] < MinScore
      BY <1>6, <1>8, <2>1, NudgeFails
    <2>3. points[p] \in Nat /\ MinScore \in Nat
      <3>1. Score(a, votes[p]) \in Nat
        BY <1>6, <2>1, ScoreNatural
      <3> QED
        BY <1>6, <2>1, <3>1 DEF DiscoverySettings
    <2> QED
      BY <2>1, <2>2, <2>3
  <1>9. ASSUME NEW p \in P, NEW q \in through \ P, Outvotes(votes, q, p)
        PROVE  points[q] = points[p]
    <2>1. p \in Symbols /\ q \in Symbols /\ points[q] <= points[p]
      BY <1>7
    <2>2. \A s \in a : Vote(votes[p], s) <= Vote(votes[q], s)
      <3>1. DOMAIN votes[q] = a
        BY <1>6, <2>1 DEF Ballots
      <3>2. \A s \in a : Vote(votes[q], s) >= Vote(votes[p], s)
        BY <1>9, <3>1 DEF Outvotes
      <3>3. \A s \in a : Vote(votes[q], s) \in Nat /\ Vote(votes[p], s) \in Nat
        BY <1>6, <2>1 DEF Ballots, Vote
      <3> QED
        BY <3>2, <3>3
    <2>3. points[p] \in Nat /\ points[q] \in Nat /\ points[p] <= points[q]
      BY <1>6, <2>1, <2>2, ScoreGrows
    <2> QED
      BY <2>1, <2>3
  <1>10. Earned(votes, points, P, through)
    BY <1>8, <1>9 DEF Earned
  <1> QED
    BY <1>5, <1>10

\* Whatever sources fail, for any weights, votes and floor: no idea that was
\* proposed stands on a nudge alone, or was outvoted by one left out but for a
\* tie.  A nudge is what the settings keep below the floor.
THEOREM IdeasAreEarned == PassSpec => []IdeasEarned
  <1>1. PassInit => IdeasEarned
    BY DEF PassInit, IdeasEarned
  <1>2. IdeasEarned /\ [PassNext]_discoveryVars => IdeasEarned'
    <2> SUFFICES ASSUME IdeasEarned, [PassNext]_discoveryVars PROVE IdeasEarned'
      OBVIOUS
    <2>1. ASSUME NEW w \in Passes, Rank(w) PROVE IdeasEarned'
      <3>1. PICK report \in Reports : unearned' = (unearned \/ ~report.earned)
        BY <2>1 DEF Rank
      <3>2. report.earned
        BY ReportsEarned, DiscoveryAssumption
      <3> QED
        BY <3>1, <3>2 DEF IdeasEarned
    <2>2. ASSUME NEW w \in Passes,
                 Start(w) \/ Timeout(w) \/ Add(w) \/ (\E s \in active : Collect(w, s))
          PROVE  IdeasEarned'
      BY <2>2 DEF Start, Timeout, Add, Collect, IdeasEarned, history
    <2>3. ASSUME NEW x \in Symbols, Decide(x) \/ Closed(x) PROVE IdeasEarned'
      BY <2>3 DEF Decide, Closed, IdeasEarned, history
    <2>4. CASE UNCHANGED discoveryVars
      BY <2>4 DEF discoveryVars, IdeasEarned, history
    <2> QED
      BY <2>1, <2>2, <2>3, <2>4 DEF PassNext
  <1> QED
    BY <1>1, <1>2, PTL DEF PassSpec

(***************************************************************************)
(* Passes that overlap                                                     *)
(***************************************************************************)
Types ==
  /\ phase \in [Passes -> {"idle", "gathering", "proposing"}]
  /\ todo \in [Passes -> SUBSET Symbols]
  /\ excluded \in [Passes -> SUBSET Symbols]
  /\ pending \in [Symbols -> Nat]
  /\ held \subseteq Symbols
  /\ overlapped \in BOOLEAN

\* Until passes overlap, the one that runs excludes whatever is pending, and
\* is the only one that adds.
Alone ==
  /\ \A v, w \in Passes : phase[v] # "idle" /\ phase[w] # "idle" => v = w
  /\ \A x \in Symbols : pending[x] <= 1
  /\ \A w \in Passes : phase[w] = "gathering" =>
       \A x \in Symbols : pending[x] > 0 => x \in excluded[w]
  /\ \A w \in Passes : phase[w] = "proposing" => \A x \in todo[w] : pending[x] = 0

DInv == Types /\ (overlapped \/ Alone)

\* A pass starts.
LEMMA StartKeeps ==
  ASSUME DInv, NEW w \in Passes, Start(w)
  PROVE  DInv'
  <1> USE DEF DInv, Types
  <1>1. Known \subseteq Symbols /\ \A x \in Symbols : pending[x] > 0 => x \in Known
    BY DEF Known
  <1>2. Types'
    BY <1>1 DEF Start, deskVars
  <1>3. ASSUME ~overlapped'
        PROVE  Alone'
    <2>1. Alone /\ \A v \in Passes \ {w} : phase[v] = "idle"
      BY <1>3 DEF Start
    <2>2. QED
      BY <1>1, <2>1 DEF Start, Alone, deskVars
  <1>4. QED
    BY <1>2, <1>3

\* A pass ranks what was gathered.
LEMMA RankKeeps ==
  ASSUME DInv, NEW w \in Passes, Rank(w)
  PROVE  DInv'
  <1> USE DEF DInv, Types
  <1>1. phase[w] = "gathering"
    BY DEF Rank, Gathered
  <1>2. PICK report \in Reports :
          /\ report.blocked = excluded[w]
          /\ todo' = [todo EXCEPT ![w] = report.ideas]
          /\ phase' = [phase EXCEPT ![w] = IF report.ideas = {} THEN "idle" ELSE "proposing"]
    BY DEF Rank
  <1>3. report.ideas \subseteq Symbols \ excluded[w]
    BY <1>2, IdeasNotExcluded
  <1>4. /\ excluded' = [excluded EXCEPT ![w] = {}]
        /\ UNCHANGED <<pending, held, overlapped>>
    BY DEF Rank, deskVars
  <1>5. Types'
    BY <1>2, <1>3, <1>4
  <1>6. Alone => Alone'
    <2>1. SUFFICES ASSUME Alone PROVE Alone'
      OBVIOUS
    <2>2. \A x \in report.ideas : pending[x] = 0
      BY <1>1, <1>3, <2>1 DEF Alone
    <2>3. QED
      BY <1>1, <1>2, <1>4, <2>1, <2>2 DEF Alone
  <1>7. QED
    BY <1>4, <1>5, <1>6

\* A pass adds one of its ideas.
LEMMA AddKeeps ==
  ASSUME DInv, NEW w \in Passes, Add(w)
  PROVE  DInv'
  <1> USE DEF DInv, Types
  <1>1. PICK x \in todo[w] :
          /\ phase[w] = "proposing"
          /\ pending' = [pending EXCEPT ![x] = @ + 1]
          /\ todo' = [todo EXCEPT ![w] = @ \ {x}]
          /\ phase' = [phase EXCEPT ![w] = IF todo[w] = {x} THEN "idle" ELSE "proposing"]
          /\ UNCHANGED <<excluded, held, overlapped>>
    BY DEF Add, history
  <1>2. Types'
    BY <1>1
  <1>3. Alone => Alone'
    BY <1>1 DEF Alone
  <1>4. QED
    BY <1>1, <1>2, <1>3

\* A proposal is decided: there is one less.
LEMMA DecideKeeps ==
  ASSUME DInv, NEW x \in Symbols, Decide(x)
  PROVE  DInv'
  <1> USE DEF DInv, Types
  <1>1. /\ pending[x] > 0
        /\ pending' = [pending EXCEPT ![x] = @ - 1]
        /\ held' \in {held, held \cup {x}}
        /\ UNCHANGED <<phase, excluded, todo, overlapped>>
    BY DEF Decide, passVars, history
  <1>2. Types' /\ \A y \in Symbols : pending'[y] <= pending[y]
    BY <1>1
  <1>3. Alone => Alone'
    BY <1>1, <1>2 DEF Alone
  <1>4. QED
    BY <1>1, <1>2, <1>3

\* What the other steps leave alone.
LEMMA OthersKeep ==
  ASSUME DInv, held' \subseteq held, UNCHANGED <<phase, excluded, todo, pending, overlapped>>
  PROVE  DInv'
  BY DEF DInv, Types, Alone

\* Every step keeps types and Alone.
LEMMA DStep ==
  ASSUME DInv, [PassNext]_discoveryVars
  PROVE  DInv'
  <1>1. ASSUME NEW w \in Passes, Timeout(w) \/ \E s \in active : Collect(w, s)
        PROVE  DInv'
    BY <1>1, OthersKeep DEF Timeout, Collect, deskVars, history
  <1>2. ASSUME NEW x \in Symbols, Closed(x)
        PROVE  DInv'
    BY <1>2, OthersKeep DEF Closed, passVars, history
  <1>3. CASE UNCHANGED discoveryVars
    BY <1>3, OthersKeep DEF discoveryVars, passVars, deskVars, history
  <1>4. QED
    BY <1>1, <1>2, <1>3, StartKeeps, RankKeeps, AddKeeps, DecideKeeps DEF PassNext

\* A symbol has more than one pending proposal of discovery only after two
\* passes ran at the same time.
THEOREM OverlapOnly == PassSpec => []DuplicatesOnlyByOverlap
  <1>1. PassInit => DInv
    <2>1. SUFFICES ASSUME PassInit PROVE Types /\ Alone
      BY DEF DInv
    <2>2. Types
      BY <2>1 DEF PassInit, Types
    <2>3. Alone
      BY <2>1 DEF PassInit, Alone
    <2>4. QED
      BY <2>2, <2>3
  <1>2. DInv /\ [PassNext]_discoveryVars => DInv'
    BY DStep
  <1>3. DInv => DuplicatesOnlyByOverlap
    BY DEF DInv, Alone, DuplicatesOnlyByOverlap
  <1>4. QED
    BY <1>1, <1>2, <1>3, PTL DEF PassSpec
=============================================================================
