-------------------------- MODULE Approvals_proofs --------------------------
(***************************************************************************)
(* At most one order per proposal, no approval without its order, and the  *)
(* only ways a record of proposals.json is lost: for every set of writers, *)
(* of proposals and of taps, without a lock, through crashes.              *)
(***************************************************************************)
EXTENDS Approvals, FiniteSetTheorems, TLAPS

(***************************************************************************)
(* Who may change what.                                                    *)
(***************************************************************************)
\* Only Place sends an order.
LEMMA OnlyPlaceOrders == [Next]_vars => Place \/ UNCHANGED orders
  BY DEF Next, World, Listens, Works, Tap, Expires, Gone, NextDay, StartListener, Drain, GetUpdates,
     TakeUpdate, Dropped, OnCommand, OnApprove, OnDeny, OnBuyConfirm, NotPlaced, Record,
     MarkLoad, MarkSave, Emit, PurgeLoad, PurgeSave, Pick, AddLoad, AddSave, Crash, LoadRaw,
     vars, chatVars, tradeVars, clockVars, fileVars

\* Only a purge, an added proposal and a mark write the file.
LEMMA OnlyThreeWrite ==
  [Next]_vars => \/ \E w \in Writers : PurgeSave(w) \/ AddSave(w)
                 \/ MarkSave
                 \/ UNCHANGED file
  BY DEF Next, World, Listens, Works, Tap, Expires, Gone, NextDay, StartListener, Drain, GetUpdates,
     TakeUpdate, Dropped, OnCommand, OnApprove, OnDeny, OnBuyConfirm, NotPlaced, Place, Record,
     MarkLoad, Emit, PurgeLoad, Pick, AddLoad, Crash, LoadRaw,
     vars, chatVars, tradeVars, clockVars, fileVars

\* Only Pick makes proposals, and nothing unmakes one.
LEMMA OnlyPickMakes ==
  [Next]_vars => (\E w \in Writers : Pick(w)) \/ UNCHANGED made
  BY DEF Next, World, Listens, Works, Tap, Expires, Gone, NextDay, StartListener, Drain, GetUpdates,
     TakeUpdate, Dropped, OnCommand, OnApprove, OnDeny, OnBuyConfirm, NotPlaced, Place, Record,
     MarkLoad, MarkSave, Emit, PurgeLoad, PurgeSave, AddLoad, AddSave, Crash, LoadRaw,
     vars, chatVars, tradeVars, clockVars, fileVars

\* A batch grows in Pick, and shrinks when a proposal is added or its writer dies.
LEMMA BatchSteps ==
  [Next]_vars => \/ \E w \in Writers : Pick(w) \/ AddSave(w) \/ Crash(w)
                 \/ UNCHANGED batch
  BY DEF Next, World, Listens, Works, Tap, Expires, Gone, NextDay, StartListener, Drain, GetUpdates,
     TakeUpdate, Dropped, OnCommand, OnApprove, OnDeny, OnBuyConfirm, NotPlaced, Place, Record,
     MarkLoad, MarkSave, Emit, PurgeLoad, PurgeSave, AddLoad, LoadRaw,
     vars, chatVars, tradeVars, clockVars, fileVars

\* A copy is what was loaded, or forgotten.
LEMMA CopySteps ==
  ASSUME TypeOK, [Next]_vars
  PROVE  /\ copy' \in [Writers -> [Proposals -> Statuses]]
         /\ \A w \in Writers : copy'[w] \in {copy[w], file, Nothing}
  <1> USE DEF TypeOK, LoadRaw, SaveRaw
  <1>0. Listener \in Writers /\ Nothing \in [Proposals -> Statuses]
    BY DEF Writers, Nothing, Statuses
  <1>1. CASE UNCHANGED copy
    BY <1>1
  <1>2. CASE \E w \in Writers : copy' = [copy EXCEPT ![w] = file]
    BY <1>2
  <1>3. CASE \E w \in Writers : copy' = [copy EXCEPT ![w] = Nothing]
    BY <1>0, <1>3
  <1>4. \/ UNCHANGED copy
        \/ \E w \in Writers : copy' = [copy EXCEPT ![w] = file]
        \/ \E w \in Writers : copy' = [copy EXCEPT ![w] = Nothing]
    BY <1>0 DEF Next, World, Listens, Works, Tap, Expires, Gone, NextDay, StartListener, Drain,
       GetUpdates, TakeUpdate, Dropped, OnCommand, OnApprove, OnDeny, OnBuyConfirm, NotPlaced, Place,
       Record, MarkLoad, MarkSave, Emit, PurgeLoad, PurgeSave, Pick, AddLoad, AddSave, Crash,
       vars, chatVars, tradeVars, clockVars, fileVars
  <1> QED
    BY <1>1, <1>2, <1>3, <1>4

(***************************************************************************)
(* The update in hand.                                                     *)
(***************************************************************************)
\* While a handler runs, the update in hand is one that was sent.
LEMMA InHandSent ==
  ASSUME TypeOK, offset > 1
  PROVE  /\ offset - 1 \in 1..Len(sent)
         /\ InHand \in Updates
         /\ InHand.kind \in {"approve", "deny"} => InHand.id \in Proposals
         /\ InHand.kind = "buy" => InHand.id \in Symbols
  <1>1. offset - 1 \in 1..Len(sent)
    BY DEF TypeOK
  <1>2. InHand \in Updates
    BY <1>1, ConstantsAssumption DEF TypeOK, InHand
  <1> QED
    BY <1>1, <1>2 DEF Updates

\* It stays the same while others send, until the next one is taken.
LEMMA InHandKept ==
  ASSUME TypeOK, offset > 1, offset' = offset,
         sent' = sent \/ \E u \in Taps : sent' = Append(sent, u)
  PROVE  InHand' = InHand
  BY InHandSent DEF InHand, TypeOK

\* Only the listener's drain and its loop move the offset.
LEMMA OffsetSteps ==
  [Next]_vars => Drain \/ TakeUpdate
                 \/ (offset' = offset /\ (sent' = sent \/ \E u \in Taps : sent' = Append(sent, u)))
  BY DEF Next, World, Listens, Works, Tap, Expires, Gone, NextDay, StartListener,
     GetUpdates, Dropped, OnCommand, OnApprove, OnDeny, OnBuyConfirm, NotPlaced, Place,
     Record, MarkLoad, MarkSave, Emit, PurgeLoad, PurgeSave, Pick, AddLoad, AddSave, Crash, LoadRaw,
     vars, chatVars, tradeVars, clockVars, fileVars

(***************************************************************************)
(* The invariant, one conjunct after the other.                            *)
(***************************************************************************)
\* Nothing is made, sent, loaded or ordered at first.
LEMMA InitIInv == Init => IInv
  <1> SUFFICES ASSUME Init PROVE IInv
    OBVIOUS
  <1>1. Nothing \in [Proposals -> Statuses]
    BY DEF Nothing, Statuses
  <1>2. TypeOK
    BY <1>1, ConstantsAssumption DEF Init, TypeOK, ListenerPhases, EmitterPhases, Writers, Days
  <1>3. pc[Listener] = "off"
    BY DEF Init, Writers
  <1>4. InHandFits
    BY <1>3 DEF InHandFits, Between, ForApprove, ForDeny, ForBuy
  <1>5. OrdersTagged /\ ApprovalsBacked
    BY <1>3 DEF Init, OrdersTagged, ApprovalsBacked, ApprovedHasOrder, Nothing
  <1>6. AddedOnce
    BY DEF Init, AddedOnce, Unrecorded, Nothing
  <1> QED
    BY <1>2, <1>4, <1>5, <1>6 DEF IInv

\* Every page ends among what was sent, and is not empty while there is some.
LEMMA ThroughRange ==
  ASSUME TypeOK, NEW first \in Nat \ {0}, first <= Len(sent) + 1
  PROVE  /\ Through(first) \in first - 1..Len(sent)
         /\ first <= Len(sent) => Through(first) >= first
  BY ConstantsAssumption DEF TypeOK, Through

\* The phases of the processes: a writer that is not the listener has only an
\* emitter's.
LEMMA PhaseStep == IInv /\ [Next]_vars =>
                     /\ pc' \in [Writers -> ListenerPhases]
                     /\ \A e \in Emitters : pc'[e] \in EmitterPhases
  <1> SUFFICES ASSUME IInv, [Next]_vars
               PROVE  /\ pc' \in [Writers -> ListenerPhases]
                      /\ \A e \in Emitters : pc'[e] \in EmitterPhases
    OBVIOUS
  <1>1. /\ pc \in [Writers -> ListenerPhases]
        /\ \A e \in Emitters : pc[e] \in EmitterPhases
        /\ Listener \in Writers /\ Listener \notin Emitters /\ Emitters \subseteq Writers
    BY ConstantsAssumption DEF IInv, TypeOK, Writers
  <1>2. ASSUME NEW w \in Writers, NEW ph \in EmitterPhases \ {"off"}, Goto(w, ph) \/ Rest(w)
        PROVE  /\ pc' \in [Writers -> ListenerPhases]
               /\ \A e \in Emitters : pc'[e] \in EmitterPhases
    BY <1>1, <1>2 DEF Goto, Rest, ListenerPhases, EmitterPhases
  <1>3. ASSUME NEW ph \in ListenerPhases, Goto(Listener, ph)
        PROVE  /\ pc' \in [Writers -> ListenerPhases]
               /\ \A e \in Emitters : pc'[e] \in EmitterPhases
    BY <1>1, <1>3 DEF Goto
  <1>4. CASE \E w \in Writers : Works(w)
    <2> PICK w \in Writers : Works(w)
      BY <1>4
    <2>1. \E ph \in EmitterPhases \ {"off"} : Goto(w, ph) \/ Rest(w)
      BY DEF Works, PurgeLoad, PurgeSave, Pick, AddLoad, AddSave, LoadRaw, EmitterPhases
    <2> QED
      BY <2>1, <1>2
  <1>5. CASE \E w \in Writers : Crash(w)
    BY <1>1, <1>5 DEF Crash, Goto, ListenerPhases, EmitterPhases
  <1>6. CASE \E e \in Emitters : Emit(e)
    BY <1>1, <1>6 DEF Emit, Goto, ListenerPhases, EmitterPhases
  <1>7. CASE StartListener \/ Listens
    <2>1. CASE GetUpdates
      BY <1>1, <2>1 DEF GetUpdates
    <2>2. CASE MarkLoad
      <3>1. \E ph \in ListenerPhases : Goto(Listener, ph)
        BY <2>2 DEF MarkLoad, LoadRaw, ListenerPhases
      <3> QED
        BY <3>1, <1>3
    <2>3. CASE StartListener \/ Drain \/ TakeUpdate \/ Dropped \/ OnCommand \/ OnApprove \/ OnDeny
               \/ OnBuyConfirm \/ NotPlaced \/ Place \/ Record \/ MarkSave
      <3>1. \E ph \in ListenerPhases : Goto(Listener, ph)
        BY <2>3 DEF StartListener, Drain, TakeUpdate, Dropped, OnCommand, OnApprove, OnDeny,
           OnBuyConfirm, NotPlaced, Place, Record, MarkSave, Rest, ListenerPhases, EmitterPhases
      <3> QED
        BY <3>1, <1>3
    <2> QED
      BY <1>7, <2>1, <2>2, <2>3 DEF Listens
  <1>8. CASE World \/ UNCHANGED vars
    BY <1>1, <1>8 DEF World, Tap, Expires, Gone, NextDay, vars
  <1> QED
    BY <1>4, <1>5, <1>6, <1>7, <1>8 DEF Next

\* The queue of updates and the listener's place in it.
LEMMA ChatStep == IInv /\ [Next]_vars =>
                    /\ sent' \in Seq(Taps)
                    /\ confirmed' \in 0..Len(sent')
                    /\ offset' \in confirmed' + 1..Len(sent') + 1
                    /\ page' \in 0..Len(sent')
  <1> SUFFICES ASSUME IInv, [Next]_vars
               PROVE  /\ sent' \in Seq(Taps)
                      /\ confirmed' \in 0..Len(sent')
                      /\ offset' \in confirmed' + 1..Len(sent') + 1
                      /\ page' \in 0..Len(sent')
    OBVIOUS
  <1>1. /\ TypeOK
        /\ sent \in Seq(Taps) /\ Len(sent) \in Nat
        /\ confirmed \in 0..Len(sent)
        /\ offset \in confirmed + 1..Len(sent) + 1
        /\ page \in 0..Len(sent)
    BY DEF IInv, TypeOK
  <1>2. CASE UNCHANGED chatVars
    BY <1>1, <1>2 DEF chatVars
  <1>3. CASE \E u \in Taps : Tap(u)
    <2>1. PICK u \in Taps : Tap(u)
      BY <1>3
    <2>2. /\ sent' = Append(sent, u)
          /\ confirmed' = confirmed /\ offset' = offset /\ page' = page
      BY <2>1 DEF Tap
    <2>3. sent' \in Seq(Taps) /\ Len(sent') = Len(sent) + 1
      BY <1>1, <2>2
    <2> QED
      BY <1>1, <2>2, <2>3
  <1>4. CASE Drain
    <2>1. confirmed + 1 \in Nat \ {0} /\ confirmed + 1 <= Len(sent) + 1
      BY <1>1
    <2>2. Through(confirmed + 1) \in confirmed..Len(sent)
      BY <1>1, <2>1, ThroughRange
    <2> QED
      BY <1>1, <1>4, <2>2 DEF Drain
  <1>5. CASE GetUpdates
    <2>1. offset \in Nat \ {0} /\ offset <= Len(sent) + 1
      BY <1>1
    <2>2. Through(offset) \in offset - 1..Len(sent)
      BY <1>1, <2>1, ThroughRange
    <2> QED
      BY <1>1, <1>5, <2>1, <2>2 DEF GetUpdates
  <1>6. CASE TakeUpdate
    BY <1>1, <1>6 DEF TakeUpdate
  <1> QED
    BY <1>2, <1>3, <1>4, <1>5, <1>6
       DEF Next, World, Listens, Works, Expires, Gone, NextDay, StartListener, Dropped,
       OnCommand, OnApprove, OnDeny, OnBuyConfirm, NotPlaced, Place, Record, MarkLoad, MarkSave,
       Emit, PurgeLoad, PurgeSave, Pick, AddLoad, AddSave, Crash, LoadRaw, vars, chatVars

\* What a save may write: a file of proposals.
LEMMA FileStep == IInv /\ [Next]_vars => file' \in [Proposals -> Statuses]
  <1> SUFFICES ASSUME IInv, [Next]_vars PROVE file' \in [Proposals -> Statuses]
    OBVIOUS
  <1>1. /\ file \in [Proposals -> Statuses]
        /\ copy \in [Writers -> [Proposals -> Statuses]]
        /\ Listener \in Writers
    BY DEF IInv, TypeOK, Writers
  <1>2. ASSUME NEW w \in Writers, PurgeSave(w)
        PROVE  file' \in [Proposals -> Statuses]
    <2>1. file' \in {file, Purged(copy[w])}
      BY <1>2 DEF PurgeSave, SaveRaw
    <2>2. Purged(copy[w]) \in [Proposals -> Statuses]
      BY <1>1 DEF Purged, Statuses, Decided
    <2> QED
      BY <1>1, <2>1, <2>2
  <1>3. ASSUME NEW w \in Writers, AddSave(w)
        PROVE  file' \in [Proposals -> Statuses]
    <2>1. PICK p \in batch[w] : file' = [copy[w] EXCEPT ![p] = "pending"]
      BY <1>3 DEF AddSave, SaveRaw, AddTo
    <2>2. copy[w] \in [Proposals -> Statuses] /\ "pending" \in Statuses
      BY <1>1 DEF Statuses
    <2> QED
      BY <2>1, <2>2
  <1>4. CASE MarkSave
    <2>1. MarkedAs \in Statuses
      BY DEF MarkedAs, Statuses, Decided
    <2> QED
      BY <1>1, <1>4, <2>1 DEF MarkSave, SaveRaw
  <1> QED
    BY <1>1, <1>2, <1>3, <1>4, OnlyThreeWrite

\* The sets that only grow or shrink: what is made, late, in a batch, tracked.
LEMMA SetsStep ==
  IInv /\ [Next]_vars =>
    /\ made' \subseteq Proposals /\ late' \subseteq made' /\ made \subseteq made'
    /\ batch' \in [Writers -> SUBSET Proposals]
    /\ tracked' \subseteq Symbols
    /\ today' \in Days
  <1> SUFFICES ASSUME IInv, [Next]_vars
               PROVE  /\ made' \subseteq Proposals /\ late' \subseteq made' /\ made \subseteq made'
                      /\ batch' \in [Writers -> SUBSET Proposals]
                      /\ tracked' \subseteq Symbols
                      /\ today' \in Days
    OBVIOUS
  <1>1. /\ made \subseteq Proposals /\ late \subseteq made /\ batch \in [Writers -> SUBSET Proposals]
        /\ tracked \subseteq Symbols /\ today \in Days
    BY DEF IInv, TypeOK
  <1>2. made' \subseteq Proposals /\ late' \subseteq made' /\ made \subseteq made'
    <2>1. CASE \E w \in Writers : Pick(w)
      BY <1>1, <2>1 DEF Pick
    <2>2. CASE UNCHANGED made
      <3>1. late' = late \/ \E p \in made \ late : late' = late \cup {p}
        BY DEF Next, World, Listens, Works, Tap, Expires, Gone, NextDay, StartListener, Drain,
           GetUpdates, TakeUpdate, Dropped, OnCommand, OnApprove, OnDeny, OnBuyConfirm, NotPlaced,
           Place, Record, MarkLoad, MarkSave, Emit, PurgeLoad, PurgeSave, Pick, AddLoad, AddSave,
           Crash, LoadRaw, vars, clockVars
      <3> QED
        BY <1>1, <2>2, <3>1
    <2> QED
      BY <2>1, <2>2, OnlyPickMakes
  <1>3. batch' \in [Writers -> SUBSET Proposals]
    <2>1. CASE \E w \in Writers : Pick(w)
      BY <1>1, <2>1 DEF Pick
    <2>2. CASE \E w \in Writers : AddSave(w)
      BY <1>1, <2>2 DEF AddSave
    <2>3. CASE \E w \in Writers : Crash(w)
      BY <1>1, <2>3 DEF Crash
    <2> QED
      BY <1>1, <2>1, <2>2, <2>3, BatchSteps
  <1>4. tracked' \subseteq Symbols
    <2>1. CASE Record
      <3>1. offset > 1
        BY <2>1 DEF IInv, InHandFits, Record, Between
      <3>2. /\ pc[Listener] = "record" => InHand.id \in Proposals
            /\ pc[Listener] = "recordbuy" => InHand.id \in Symbols
        BY <3>1, InHandSent DEF IInv, InHandFits, ForApprove, ForBuy
      <3>3. {IF pc[Listener] = "record" THEN SymOf[InHand.id] ELSE InHand.id} \subseteq Symbols
        BY <2>1, <3>2 DEF Symbols, Record
      <3> QED
        BY <1>1, <2>1, <3>3 DEF Record
    <2>2. tracked' \subseteq tracked \/ Record
      BY DEF Next, World, Listens, Works, Tap, Expires, Gone, NextDay, StartListener, Drain,
         GetUpdates, TakeUpdate, Dropped, OnCommand, OnApprove, OnDeny, OnBuyConfirm, NotPlaced,
         Place, MarkLoad, MarkSave, Emit, PurgeLoad, PurgeSave, Pick, AddLoad, AddSave,
         Crash, LoadRaw, vars, tradeVars
    <2> QED
      BY <1>1, <2>1, <2>2
  <1>5. today' \in Days
    BY <1>1, ConstantsAssumption DEF Next, World, Listens, Works, Tap, Expires, Gone, NextDay,
       StartListener, Drain, GetUpdates, TakeUpdate, Dropped, OnCommand, OnApprove, OnDeny,
       OnBuyConfirm, NotPlaced, Place, Record, MarkLoad, MarkSave, Emit, PurgeLoad, PurgeSave, Pick,
       AddLoad, AddSave, Crash, LoadRaw, vars, clockVars, Days
  <1> QED
    BY <1>2, <1>3, <1>4, <1>5

\* An order is of the proposal or of the symbol in hand.
LEMMA PlacedOf ==
  ASSUME IInv, Place
  PROVE  /\ pc[Listener] = "place" => InHand.id \in Proposals
         /\ pc[Listener] = "placebuy" => InHand.id \in Symbols
         /\ pc[Listener] \in {"place", "placebuy"} /\ offset > 1
  <1>1. pc[Listener] \in {"place", "placebuy"}
    BY DEF Place, Placing
  <1>2. offset > 1
    BY <1>1 DEF IInv, InHandFits, Between
  <1> QED
    BY <1>1, <1>2, InHandSent DEF IInv, InHandFits, ForApprove, ForBuy

\* Every variable keeps its type.
LEMMA TypeStep == IInv /\ [Next]_vars => TypeOK'
  <1> SUFFICES ASSUME IInv, [Next]_vars PROVE TypeOK'
    OBVIOUS
  <1>1. \A o \in orders' : o.of \in Proposals \cup Symbols
    <2>1. \A o \in orders : o.of \in Proposals \cup Symbols
      BY DEF IInv, TypeOK
    <2>2. CASE Place
      BY <2>1, <2>2, PlacedOf DEF Place
    <2> QED
      BY <2>1, <2>2, OnlyPlaceOrders
  <1>2. copy' \in [Writers -> [Proposals -> Statuses]]
    BY CopySteps DEF IInv
  <1> QED
    BY <1>1, <1>2, PhaseStep, ChatStep, FileStep, SetsStep DEF TypeOK

(***************************************************************************)
(* The update in hand fits what is done with it.                           *)
(***************************************************************************)
\* Between two looks at the same update, the handler keeps it, whoever moves.
LEMMA InHandSame ==
  ASSUME IInv, [Next]_vars, pc[Listener] \notin Between
  PROVE  /\ offset' = offset /\ offset > 1
         /\ InHand' = InHand
  <1>1. offset > 1
    BY DEF IInv, InHandFits
  <1>2. ~ Drain /\ ~ TakeUpdate
    BY DEF Drain, TakeUpdate, Between
  <1>3. offset' = offset /\ (sent' = sent \/ \E u \in Taps : sent' = Append(sent, u))
    BY <1>2, OffsetSteps
  <1> QED
    BY <1>1, <1>3, InHandKept DEF IInv

\* How the listener's phase moves: on to the next one of the same handler, or
\* to one that holds no update.
LEMMA ListenerPhaseSteps ==
  ASSUME IInv, [Next]_vars
  PROVE  \/ pc'[Listener] \in Between
         \/ pc'[Listener] = pc[Listener]
         \/ pc'[Listener] = "handle" /\ TakeUpdate
         \/ pc'[Listener] \in EmitterPhases /\ pc[Listener] \notin Between
         \/ pc'[Listener] \in {"place", "expired"} /\ OnApprove
         \/ pc'[Listener] = "denied" /\ OnDeny
         \/ pc'[Listener] = "placebuy" /\ OnBuyConfirm
         \/ pc'[Listener] = "record" /\ pc[Listener] = "place" /\ Place
         \/ pc'[Listener] = "recordbuy" /\ pc[Listener] = "placebuy"
         \/ pc'[Listener] = "approved" /\ pc[Listener] = "record" /\ Record
         \/ pc'[Listener] = "saveapproved" /\ pc[Listener] = "approved"
         \/ pc'[Listener] = "savedenied" /\ pc[Listener] = "denied"
         \/ pc'[Listener] = "saveexpired" /\ pc[Listener] = "expired"
  <1>1. pc \in [Writers -> ListenerPhases] /\ Listener \in Writers /\ Listener \notin Emitters
    BY ConstantsAssumption DEF IInv, TypeOK, Writers
  <1>2. ASSUME NEW w \in Writers, NEW ph \in ListenerPhases, Goto(w, ph)
        PROVE  pc'[Listener] = IF w = Listener THEN ph ELSE pc[Listener]
    BY <1>1, <1>2 DEF Goto
  <1>3. ASSUME NEW w \in Writers, Rest(w)
        PROVE  pc'[Listener] = IF w = Listener THEN "poll" ELSE pc[Listener]
    BY <1>1, <1>3 DEF Goto, Rest
  <1>4. CASE \E w \in Writers : Works(w)
    <2> PICK w \in Writers : Works(w)
      BY <1>4
    <2>1. \E ph \in EmitterPhases : Goto(w, ph) \/ Rest(w)
      BY DEF Works, PurgeLoad, PurgeSave, Pick, AddLoad, AddSave, LoadRaw, EmitterPhases
    <2>2. pc[w] \notin Between
      BY DEF Works, PurgeLoad, PurgeSave, Pick, AddLoad, AddSave, Between
    <2>3. EmitterPhases \subseteq ListenerPhases
      BY DEF ListenerPhases
    <2> QED
      BY <2>1, <2>2, <2>3, <1>2, <1>3 DEF Between
  <1>5. CASE \E w \in Writers : Crash(w)
    BY <1>1, <1>5, <1>2 DEF Crash, Between, ListenerPhases, EmitterPhases
  <1>6. CASE \E e \in Emitters : Emit(e)
    BY <1>1, <1>6 DEF Emit, Goto, Writers
  <1>7. CASE World \/ UNCHANGED vars \/ GetUpdates
    BY <1>7 DEF World, Tap, Expires, Gone, NextDay, vars, GetUpdates
  <1>8. CASE StartListener \/ Drain \/ TakeUpdate \/ Dropped \/ NotPlaced \/ MarkSave
    BY <1>1, <1>8 DEF StartListener, Drain, TakeUpdate, Dropped, NotPlaced, MarkSave, Rest, Goto, Between
  <1>9. CASE OnCommand
    BY <1>1, <1>9 DEF OnCommand, Goto, EmitterPhases, Between
  <1>10. CASE OnApprove \/ OnDeny \/ OnBuyConfirm
    BY <1>1, <1>10 DEF OnApprove, OnDeny, OnBuyConfirm, Goto
  <1>11. CASE Place
    BY <1>1, <1>11 DEF Place, Placing, Rest, Goto, Between
  <1>12. CASE Record
    BY <1>1, <1>12 DEF Record, Rest, Goto, Between
  <1>13. CASE MarkLoad
    BY <1>1, <1>13 DEF MarkLoad, LoadRaw, Goto, Decided
  <1> QED
    BY <1>4, <1>5, <1>6, <1>7, <1>8, <1>9, <1>10, <1>11, <1>12, <1>13 DEF Next, Listens

\* Only approvals are placed, recorded and marked as such.
LEMMA InHandFitsStep == IInv /\ [Next]_vars => InHandFits'
  <1> SUFFICES ASSUME IInv, [Next]_vars PROVE InHandFits'
    OBVIOUS
  <1> USE DEF Between, ForApprove, ForDeny, ForBuy
  <1>1. InHandFits /\ offset \in Nat
    BY DEF IInv, TypeOK
  <1>2. CASE pc'[Listener] \in Between
    BY <1>2 DEF InHandFits
  <1>3. CASE TakeUpdate /\ pc'[Listener] = "handle"
    <2>1. offset \in Nat \ {0}
      BY DEF IInv, TypeOK
    <2> QED
      BY <1>3, <2>1 DEF InHandFits, TakeUpdate
  <1>4. CASE pc[Listener] \notin Between
    <2>1. offset' > 1 /\ InHand' = InHand
      BY <1>4, InHandSame
    <2>2. /\ OnApprove => InHand.kind = "approve"
          /\ OnDeny => InHand.kind = "deny"
          /\ OnBuyConfirm => InHand.kind = "buy"
      BY DEF OnApprove, OnDeny, OnBuyConfirm
    <2>3. EmitterPhases \cap (ForApprove \cup ForDeny \cup ForBuy) = {}
      BY DEF EmitterPhases
    <2> QED
      BY <1>1, <2>1, <2>2, <2>3, ListenerPhaseSteps DEF InHandFits
  <1>5. CASE pc[Listener] \in Between /\ pc'[Listener] \notin Between
    BY <1>3, <1>5, ListenerPhaseSteps DEF OnApprove, OnDeny, OnBuyConfirm
  <1> QED
    BY <1>2, <1>4, <1>5

(***************************************************************************)
(* Orders, approvals and what is added.                                    *)
(***************************************************************************)
\* An order of a proposal carries the proposal's own tag.
LEMMA OrdersTaggedStep == IInv /\ [Next]_vars => OrdersTagged'
  <1> SUFFICES ASSUME IInv, [Next]_vars PROVE OrdersTagged'
    OBVIOUS
  <1>1. OrdersTagged
    BY DEF IInv
  <1>2. CASE Place
    <2> DEFINE o == [coid |-> Coid, of |-> InHand.id]
    <2>1. orders' = orders \cup {o}
      BY <1>2 DEF Place
    <2>2. InHand.id \in Proposals => pc[Listener] = "place"
      BY <1>2, PlacedOf, ConstantsAssumption
    <2>3. InHand.id \in Proposals => Coid = ApprovedCoid(InHand.id)
      BY <2>2 DEF Coid
    <2>4. o = [coid |-> o.coid, of |-> o.of] /\ (o.of \in Proposals => o.coid = ApprovedCoid(o.of))
      BY <2>3
    <2> HIDE DEF o
    <2> QED
      BY <1>1, <2>1, <2>4 DEF OrdersTagged, ApprovedCoid
  <1>3. CASE UNCHANGED orders
    BY <1>1, <1>3 DEF OrdersTagged, ApprovedCoid
  <1> QED
    BY <1>2, <1>3, OnlyPlaceOrders

\* An order that reached the broker stays one that reached it.
LEMMA OrderedStays ==
  ASSUME [Next]_vars, NEW p, Ordered(p)
  PROVE  Ordered(p)'
  <1>1. orders \subseteq orders'
    BY OnlyPlaceOrders DEF Place
  <1> QED
    BY <1>1 DEF Ordered

\* A mark is of the proposal in hand.
LEMMA MarkedInHand ==
  ASSUME IInv, MarkSave
  PROVE  InHand.id \in Proposals
  <1>1. /\ pc[Listener] \in {"saveapproved", "savedenied", "saveexpired"}
        /\ pc[Listener] \notin Between
    BY DEF MarkSave, Between
  <1>2. offset > 1 /\ InHand.kind \in {"approve", "deny"}
    BY <1>1 DEF IInv, InHandFits, ForApprove, ForDeny
  <1> QED
    BY <1>2, InHandSent DEF IInv

\* Where the record of a proposal comes from: the file, the copy of who saves,
\* or the step itself, which purges, adds or marks it.
LEMMA RecordFrom ==
  ASSUME IInv, [Next]_vars, NEW p \in Proposals
  PROVE  \/ file'[p] = file[p]
         \/ \E w \in Writers :
              /\ Saving(w) /\ pc'[w] # pc[w]
              /\ \/ file'[p] = copy[w][p]
                 \/ PurgeSave(w) /\ copy[w][p] = "pending" /\ file'[p] = "expired"
                 \/ /\ AddSave(w) /\ file'[p] = "pending"
                    /\ p \in batch[w] /\ p \notin batch'[w]
                 \/ /\ MarkSave /\ w = Listener /\ p = InHand.id
                    /\ copy[w][p] # "absent" /\ file'[p] = MarkedAs
  <1>1. /\ pc \in [Writers -> ListenerPhases]
        /\ copy \in [Writers -> [Proposals -> Statuses]]
        /\ batch \in [Writers -> SUBSET Proposals]
        /\ Listener \in Writers
    BY DEF IInv, TypeOK, Writers
  <1>2. ASSUME NEW w \in Writers, PurgeSave(w), file'[p] # file[p]
        PROVE  /\ Saving(w) /\ pc'[w] # pc[w]
               /\ \/ file'[p] = copy[w][p]
                  \/ copy[w][p] = "pending" /\ file'[p] = "expired"
    <2>1. Saving(w) /\ pc'[w] # pc[w]
      BY <1>1, <1>2 DEF PurgeSave, Saving, Rest, Goto
    <2>2. file' = Purged(copy[w])
      BY <1>2 DEF PurgeSave, SaveRaw
    <2> QED
      BY <2>1, <2>2 DEF Purged
  <1>3. ASSUME NEW w \in Writers, AddSave(w)
        PROVE  /\ Saving(w) /\ pc'[w] # pc[w]
               /\ \/ file'[p] = copy[w][p]
                  \/ file'[p] = "pending" /\ p \in batch[w] /\ p \notin batch'[w]
    <2>1. Saving(w) /\ pc'[w] # pc[w]
      BY <1>1, <1>3 DEF AddSave, Saving, Rest, Goto
    <2>2. PICK q \in batch[w] : /\ file' = [copy[w] EXCEPT ![q] = "pending"]
                                /\ batch' = [batch EXCEPT ![w] = batch[w] \ {q}]
      BY <1>3 DEF AddSave, SaveRaw, AddTo
    <2>3. copy[w] \in [Proposals -> Statuses]
      BY <1>1
    <2>4. file'[p] = IF p = q THEN "pending" ELSE copy[w][p]
      BY <2>2, <2>3
    <2>5. batch'[w] = batch[w] \ {q}
      BY <1>1, <2>2
    <2> QED
      BY <2>1, <2>4, <2>5
  <1>4. ASSUME MarkSave, file'[p] # file[p]
        PROVE  /\ Saving(Listener) /\ pc'[Listener] # pc[Listener]
               /\ \/ file'[p] = copy[Listener][p]
                  \/ p = InHand.id /\ copy[Listener][p] # "absent" /\ file'[p] = MarkedAs
    <2>1. Saving(Listener) /\ pc'[Listener] # pc[Listener]
      BY <1>1, <1>4 DEF MarkSave, Saving, Rest, Goto
    <2>2. /\ file' = [copy[Listener] EXCEPT ![InHand.id] = MarkedAs]
          /\ copy[Listener][InHand.id] # "absent"
      BY <1>4 DEF MarkSave, SaveRaw
    <2>3. copy[Listener] \in [Proposals -> Statuses]
      BY <1>1
    <2>4. file'[p] = IF p = InHand.id THEN MarkedAs ELSE copy[Listener][p]
      BY <2>2, <2>3
    <2> QED
      BY <2>1, <2>2, <2>4
  <1> QED
    BY <1>1, <1>2, <1>3, <1>4, OnlyThreeWrite

\* Nobody writes "approved" of a proposal whose order is not there.
LEMMA ApprovalsBackedStep == IInv /\ [Next]_vars => ApprovalsBacked'
  <1> SUFFICES ASSUME IInv, [Next]_vars PROVE ApprovalsBacked'
    OBVIOUS
  <1>1. /\ ApprovalsBacked /\ TypeOK
        /\ copy \in [Writers -> [Proposals -> Statuses]]
    BY DEF IInv, TypeOK
  <1>2. ASSUME NEW p \in Proposals, file'[p] = "approved"
        PROVE  Ordered(p)
    <2>1. CASE file'[p] = file[p]
      BY <1>1, <1>2, <2>1 DEF ApprovalsBacked, ApprovedHasOrder
    <2>2. CASE \E w \in Writers : file'[p] = copy[w][p]
      BY <1>1, <1>2, <2>2 DEF ApprovalsBacked
    <2>3. CASE MarkSave /\ p = InHand.id /\ file'[p] = MarkedAs
      <3>1. pc[Listener] = "saveapproved"
        BY <1>2, <2>3 DEF MarkedAs, MarkSave
      <3> QED
        BY <1>1, <2>3, <3>1 DEF ApprovalsBacked
    <2> QED
      BY <1>2, <2>1, <2>2, <2>3, RecordFrom
  <1>3. ASSUME NEW w \in Writers, NEW p \in Proposals, copy'[w][p] = "approved"
        PROVE  Ordered(p)
    <2>1. copy'[w] \in {copy[w], file, Nothing}
      BY <1>1, CopySteps
    <2>2. Nothing[p] = "absent"
      BY DEF Nothing
    <2> QED
      BY <1>1, <1>3, <2>1, <2>2 DEF ApprovalsBacked, ApprovedHasOrder
  <1>4. ASSUME pc'[Listener] \in {"record", "approved", "saveapproved"}
        PROVE  Ordered(InHand.id)' /\ InHand' = InHand
    <2>1. /\ pc[Listener] \in {"place", "record", "approved", "saveapproved"}
          /\ pc[Listener] = "place" => Place
      BY <1>4, ListenerPhaseSteps DEF Between, EmitterPhases
    <2>2. InHand' = InHand
      BY <2>1, InHandSame DEF Between
    <2>3. CASE Place
      <3>1. [coid |-> Coid, of |-> InHand.id] \in orders'
        BY <2>3 DEF Place
      <3> QED
        BY <2>2, <3>1 DEF Ordered
    <2>4. CASE pc[Listener] \in {"record", "approved", "saveapproved"}
      <3>1. Ordered(InHand.id)
        BY <1>1, <2>4 DEF ApprovalsBacked
      <3>2. orders \subseteq orders'
        BY OnlyPlaceOrders DEF Place
      <3> QED
        BY <2>2, <3>1, <3>2 DEF Ordered
    <2> QED
      BY <2>1, <2>2, <2>3, <2>4
  <1> QED
    BY <1>2, <1>3, <1>4, OrderedStays DEF ApprovalsBacked, ApprovedHasOrder

\* A proposal in nobody's file gets into one only by being added.
LEMMA UnrecordedUntilAdded ==
  ASSUME IInv, [Next]_vars, NEW p \in Proposals, Unrecorded(p)
  PROVE  \/ Unrecorded(p)'
         \/ \E w \in Writers : p \in batch[w] /\ p \notin batch'[w]
  <1>1. ASSUME NEW w \in Writers PROVE copy'[w][p] = "absent"
    <2>1. copy'[w] \in {copy[w], file, Nothing}
      BY CopySteps DEF IInv
    <2> QED
      BY <2>1 DEF Unrecorded, Nothing
  <1>2. \/ file'[p] = "absent"
        \/ \E w \in Writers : p \in batch[w] /\ p \notin batch'[w]
    BY RecordFrom DEF Unrecorded
  <1> QED
    BY <1>1, <1>2 DEF Unrecorded

\* What is made is recorded once, by who made it.
LEMMA AddedOnceStep == IInv /\ [Next]_vars => AddedOnce'
  <1> SUFFICES ASSUME IInv, [Next]_vars, NEW p \in Proposals
               PROVE  /\ p \notin made' => Unrecorded(p)'
                      /\ \A w \in Writers : p \in batch'[w] =>
                           p \in made' /\ MadeBy[p] = w /\ Unrecorded(p)'
    BY DEF AddedOnce
  <1>1. /\ p \notin made => Unrecorded(p)
        /\ \A w \in Writers : p \in batch[w] => p \in made /\ MadeBy[p] = w /\ Unrecorded(p)
        /\ batch \in [Writers -> SUBSET Proposals]
        /\ made \subseteq made'
    BY SetsStep DEF IInv, TypeOK, AddedOnce
  <1>2. p \notin made' => Unrecorded(p)'
    BY <1>1, UnrecordedUntilAdded
  <1>3. ASSUME NEW w \in Writers, p \in batch'[w]
        PROVE  p \in made' /\ MadeBy[p] = w /\ Unrecorded(p)
    <2>1. CASE \E v \in Writers : Pick(v)
      <3>1. PICK v \in Writers : Pick(v)
        BY <2>1
      <3>2. PICK new \in SUBSET {q \in Proposals \ made : MadeBy[q] = v} :
              batch' = [batch EXCEPT ![v] = new] /\ made' = made \cup new
        BY <3>1 DEF Pick
      <3>3. batch'[w] = IF w = v THEN new ELSE batch[w]
        BY <1>1, <3>2
      <3> QED
        BY <1>1, <1>3, <3>2, <3>3
    <2>2. CASE p \in batch[w]
      BY <1>1, <2>2
    <2>3. CASE \E v \in Writers : AddSave(v) \/ Crash(v)
      <3>1. \A u \in Writers : batch'[u] \subseteq batch[u]
        BY <1>1, <2>3 DEF AddSave, Crash
      <3> QED
        BY <1>3, <2>2, <3>1
    <2> QED
      BY <1>3, <2>1, <2>2, <2>3, BatchSteps
  <1>4. ASSUME NEW w \in Writers, p \in batch'[w] PROVE Unrecorded(p)'
    BY <1>1, <1>3, <1>4, UnrecordedUntilAdded
  <1> QED
    BY <1>2, <1>3, <1>4

(***************************************************************************)
(* The theorems.                                                           *)
(***************************************************************************)
\* Every reachable state satisfies the invariant: what is typed fits, approved
\* is ordered, and what is still to be added is nowhere on record.
THEOREM Invariance == Spec => []IInv
  <1>1. IInv /\ [Next]_vars => IInv'
    BY TypeStep, InHandFitsStep, OrdersTaggedStep, ApprovalsBackedStep, AddedOnceStep DEF IInv
  <1> QED
    BY InitIInv, <1>1, PTL DEF Spec

\* However often it is tapped, and however writers of the file overlap or die,
\* a proposal becomes at most one order at the broker.
THEOREM AtMostOneOrder == Spec => []OneOrderPerProposal
  <1>1. IInv => OneOrderPerProposal
    <2> SUFFICES ASSUME IInv, NEW p \in Proposals
                 PROVE  Cardinality({o \in orders : o.of = p}) <= 1
      BY DEF OneOrderPerProposal
    <2> DEFINE ofp == {o \in orders : o.of = p}
    <2>1. \A o \in ofp : o = [coid |-> ApprovedCoid(p), of |-> p]
      BY DEF IInv, OrdersTagged
    <2>2. CASE ofp = {}
      BY <2>2, FS_EmptySet
    <2>3. CASE ofp # {}
      <3>1. ofp = {[coid |-> ApprovedCoid(p), of |-> p]}
        BY <2>1, <2>3
      <3>2. Cardinality({[coid |-> ApprovedCoid(p), of |-> p]}) = 1
        BY FS_Singleton
      <3> QED
        BY <3>1, <3>2
    <2> QED
      BY <2>2, <2>3
  <1> QED
    BY Invariance, <1>1, PTL

\* A proposal that reads "approved" has an order at the broker.
THEOREM ApprovalMeansOrder == Spec => []ApprovedHasOrder
  BY Invariance, PTL DEF IInv, ApprovalsBacked

\* A decision or a pending proposal is taken back only by a writer that loaded
\* the file before it was there, or by the tap in hand.
THEOREM DecisionsLostOnlyByOverlap == Spec => OnlyOverlapLosesDecisions
  <1> DEFINE A == \A p \in Proposals :
       \/ file'[p] = file[p]
       \/ file[p] \in {"absent", "pending"} /\ file'[p] # "absent"
       \/ file[p] \in Decided /\ MarkSave /\ InHand.id = p
       \/ \E w \in Writers : Saving(w) /\ pc'[w] # pc[w] /\ copy[w][p] # file[p]
  <1>1. IInv /\ [Next]_vars => A
    <2> SUFFICES ASSUME IInv, [Next]_vars, NEW p \in Proposals
                 PROVE  \/ file'[p] = file[p]
                        \/ file[p] \in {"absent", "pending"} /\ file'[p] # "absent"
                        \/ file[p] \in Decided /\ MarkSave /\ InHand.id = p
                        \/ \E w \in Writers : Saving(w) /\ pc'[w] # pc[w] /\ copy[w][p] # file[p]
      OBVIOUS
    <2>1. file[p] \in Statuses
      BY DEF IInv, TypeOK
    <2>2. \A w \in Writers : p \in batch[w] => file[p] = "absent"
      BY DEF IInv, AddedOnce, Unrecorded
    <2>3. MarkedAs # "absent"
      BY DEF MarkedAs
    <2> QED
      BY <2>1, <2>2, <2>3, RecordFrom DEF Statuses, Decided
  <1>2. IInv /\ [Next]_vars => [A]_vars
    BY <1>1
  <1> QED
    BY Invariance, <1>2, PTL DEF OnlyOverlapLosesDecisions, Spec
=============================================================================
