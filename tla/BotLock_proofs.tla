--------------------------- MODULE BotLock_proofs ---------------------------
(***************************************************************************)
(* Type correctness, lock ownership and the one way a record is lost, for  *)
(* every set of processes and of entries.                                  *)
(***************************************************************************)
EXTENDS BotLock, TLAPS

Phases == Locked \cup Unlocked \cup {"off"}

\* The empty state, lock free and nothing loaded, satisfies the invariant.
LEMMA InitIInv == Init => IInv
  BY ProcsAssumption DEF Init, IInv, TypeOK, LockOwnership, MemoryFollowsBase, RecordsHaveOrders, Procs,
     Locked, Unlocked, Opening, Resumable, ManualOnly, Breakers

(***************************************************************************)
(* What a step does to the entries, to the lock and to what is in memory.  *)
(***************************************************************************)
EntryType == {"absent", "pending", "filled", "covered", "sold", "dead"}

\* No step takes an entry out of Over, where records may be dropped.
OverStays ==
  /\ st' \in [Entries -> EntryType]
  /\ \A e \in Entries : st[e] \in Over => st'[e] \in Over
  /\ \A e \in Entries : st[e] # "absent" => st'[e] # "absent"

\* The three ways the entries change: not at all, one that is not over, or
\* all of them liquidated.
LEMMA OverStaysSame == IInv /\ UNCHANGED st => OverStays
  BY DEF IInv, TypeOK, OverStays, EntryType

\* One entry that is not over moves on.
LEMMA OverStaysOne ==
  ASSUME IInv, NEW e \in Entries, st[e] \notin Over, NEW s \in EntryType \ {"absent"},
         st' = [st EXCEPT ![e] = s]
  PROVE  OverStays
  BY DEF IInv, TypeOK, OverStays, EntryType

\* /close, /flatten and the kill switch end what is held and what is pending.
LEMMA OverStaysLiquidated == IInv /\ st' = Liquidated => OverStays
  <1> SUFFICES ASSUME IInv, st' = Liquidated PROVE OverStays
    OBVIOUS
  <1>1. ASSUME NEW e \in Entries
        PROVE  /\ Liquidated[e] \in EntryType
               /\ st[e] \in Over => Liquidated[e] \in Over
               /\ st[e] # "absent" => Liquidated[e] # "absent"
    <2>1. st[e] \in EntryType
      BY DEF IInv, TypeOK, EntryType
    <2>2. Liquidated[e] = CASE st[e] = "covered" -> "sold"
                            [] st[e] \in {"pending", "filled"} -> "dead"
                            [] OTHER -> st[e]
      BY DEF Liquidated
    <2>3. CASE st[e] = "covered"
      BY <2>2, <2>3 DEF EntryType, Over
    <2>4. CASE st[e] \in {"pending", "filled"}
      BY <2>2, <2>4 DEF EntryType, Over
    <2>5. CASE st[e] \in {"absent", "sold", "dead"}
      BY <2>2, <2>5 DEF EntryType, Over
    <2>6. QED
      BY <2>1, <2>3, <2>4, <2>5 DEF EntryType
  <1>2. st' \in [Entries -> EntryType]
    BY <1>1 DEF Liquidated
  <1>3. QED
    BY <1>1, <1>2 DEF OverStays

\* settle() protects a fill or changes nothing at the broker.
LEMMA OverStaysSettled == ASSUME IInv, NEW p, Settled(p) PROVE OverStays
  BY OverStaysSame, OverStaysOne DEF Settled, EntryType, Over

\* A process that moves between phases takes, keeps or releases the lock with
\* them.
LEMMA LockMoves ==
  ASSUME IInv, NEW p \in Procs, NEW ph \in Phases, pc' = [pc EXCEPT ![p] = ph], heal' = heal,
         \/ lock' = lock /\ (ph \in Locked <=> pc[p] \in Locked)
         \/ lock = p /\ lock' = Free /\ ph \notin Locked
         \/ lock = Free /\ lock' = p /\ ph \in Locked
  PROVE  /\ LockOwnership'
         /\ lock' \in Procs \cup {Healer, Free}
         /\ pc' \in [Procs -> Phases]
  <1>1. pc \in [Procs -> Phases] /\ lock \in Procs \cup {Healer, Free}
    BY DEF IInv, TypeOK, Phases
  <1>2. \A q \in Procs : q # Free /\ q # Healer
    BY ProcsAssumption
  <1>3. Free # Healer
    BY ProcsAssumption
  <1>4. pc' \in [Procs -> Phases] /\ pc'[p] = ph /\ \A q \in Procs : q # p => pc'[q] = pc[q]
    BY <1>1
  <1>5. lock' \in Procs \cup {Healer, Free}
    BY <1>1
  <1>6. ASSUME NEW q \in Procs PROVE pc'[q] \in Locked <=> lock' = q
    BY <1>1, <1>2, <1>4 DEF IInv, LockOwnership
  <1>7. heal' = "clearing" <=> lock' = Healer
    BY <1>2, <1>3 DEF IInv, LockOwnership
  <1>8. QED
    BY <1>4, <1>5, <1>6, <1>7 DEF LockOwnership

\* The part of RecordsHaveOrders about memory.
MemoryHasOrders ==
  \A p \in Procs : /\ mem[p] # NoEntry => st[mem[p]] # "absent"
                   /\ base[p] # NoEntry => st[base[p]] # "absent"

\* What a process remembers is what it loaded, or what it loaded is over.
LEMMA MemoryMoves ==
  ASSUME IInv, OverStays, NEW p \in Procs, NEW ph, NEW m \in Entries \cup {NoEntry},
         NEW b \in Entries \cup {NoEntry},
         pc' = [pc EXCEPT ![p] = ph],
         mem' = [mem EXCEPT ![p] = m], base' = [base EXCEPT ![p] = b],
         ph = "off" => m = NoEntry /\ b = NoEntry,
         b # NoEntry => m = b \/ st'[b] \in Over,
         ph \in Opening => b = NoEntry \/ st'[b] \in Over,
         m # NoEntry => st'[m] # "absent", b # NoEntry => st'[b] # "absent"
  PROVE  /\ MemoryFollowsBase'
         /\ MemoryHasOrders'
         /\ mem' \in [Procs -> Entries \cup {NoEntry}]
         /\ base' \in [Procs -> Entries \cup {NoEntry}]
  <1>1. /\ pc \in [Procs -> Phases]
        /\ mem \in [Procs -> Entries \cup {NoEntry}]
        /\ base \in [Procs -> Entries \cup {NoEntry}]
    BY DEF IInv, TypeOK, Phases
  <1>2. ASSUME NEW q \in Procs
        PROVE  /\ pc'[q] = "off" => mem'[q] = NoEntry /\ base'[q] = NoEntry
               /\ base'[q] # NoEntry => mem'[q] = base'[q] \/ st'[base'[q]] \in Over
               /\ pc'[q] \in Opening => base'[q] = NoEntry \/ st'[base'[q]] \in Over
               /\ mem'[q] # NoEntry => st'[mem'[q]] # "absent"
               /\ base'[q] # NoEntry => st'[base'[q]] # "absent"
    <2>1. CASE q = p
      BY <1>1, <2>1
    <2>2. CASE q # p
      <3>1. pc'[q] = pc[q] /\ mem'[q] = mem[q] /\ base'[q] = base[q]
        BY <1>1, <2>2
      <3>2. base[q] \in Entries \cup {NoEntry} /\ mem[q] \in Entries \cup {NoEntry}
        BY <1>1
      <3>3. /\ mem[q] # NoEntry => st[mem[q]] # "absent"
            /\ base[q] # NoEntry => st[base[q]] # "absent"
        BY DEF IInv, RecordsHaveOrders
      <3>4. QED
        BY <3>1, <3>2, <3>3 DEF IInv, MemoryFollowsBase, OverStays
    <2>3. QED
      BY <2>1, <2>2
  <1>3. QED
    BY <1>1, <1>2 DEF MemoryFollowsBase, MemoryHasOrders

\* A step that leaves every process where it is.
LEMMA NobodyMoves ==
  ASSUME IInv, OverStays, UNCHANGED <<pc, mem, base>>
  PROVE  /\ MemoryFollowsBase'
         /\ MemoryHasOrders'
         /\ pc' \in [Procs -> Phases]
         /\ mem' \in [Procs -> Entries \cup {NoEntry}]
         /\ base' \in [Procs -> Entries \cup {NoEntry}]
         /\ \A p \in Procs : pc'[p] \in Locked <=> lock = p
  <1>1. /\ pc \in [Procs -> Phases]
        /\ mem \in [Procs -> Entries \cup {NoEntry}]
        /\ base \in [Procs -> Entries \cup {NoEntry}]
    BY DEF IInv, TypeOK, Phases
  <1>2. ASSUME NEW q \in Procs
        PROVE  /\ base[q] # NoEntry => mem[q] = base[q] \/ st'[base[q]] \in Over
               /\ pc[q] \in Opening => base[q] = NoEntry \/ st'[base[q]] \in Over
    BY <1>1 DEF IInv, MemoryFollowsBase, OverStays
  <1>3. MemoryHasOrders'
    <2>1. ASSUME NEW q \in Procs
          PROVE  /\ mem[q] # NoEntry => st'[mem[q]] # "absent"
                 /\ base[q] # NoEntry => st'[base[q]] # "absent"
      <3>1. /\ mem[q] # NoEntry => st[mem[q]] # "absent"
            /\ base[q] # NoEntry => st[base[q]] # "absent"
        BY DEF IInv, RecordsHaveOrders
      <3>2. QED
        BY <1>1, <3>1 DEF OverStays
    <2>2. QED
      BY <2>1 DEF MemoryHasOrders
  <1>4. QED
    BY <1>1, <1>2, <1>3 DEF IInv, MemoryFollowsBase, LockOwnership

\* What a process would write is what it loaded, or what it loaded is over.
LEMMA KeepMemory ==
  ASSUME IInv, NEW p \in Procs
  PROVE  /\ mem[p] \in Entries \cup {NoEntry} /\ base[p] \in Entries \cup {NoEntry}
         /\ mem = [mem EXCEPT ![p] = mem[p]] /\ base = [base EXCEPT ![p] = base[p]]
         /\ base[p] # NoEntry => mem[p] = base[p] \/ st[base[p]] \in Over
         /\ pc[p] = "off" => mem[p] = NoEntry /\ base[p] = NoEntry
         /\ mem[p] # NoEntry => st[mem[p]] # "absent"
         /\ base[p] # NoEntry => st[base[p]] # "absent"
         /\ pc[p] \in Opening => base[p] = NoEntry \/ st[base[p]] \in Over
         /\ pc[p] \in Locked <=> lock = p
         /\ p # Free /\ p # Healer
  BY ProcsAssumption DEF IInv, TypeOK, MemoryFollowsBase, LockOwnership, RecordsHaveOrders

OtherTypes ==
  /\ halt \in Resumable \cup ManualOnly \cup {"none"}
  /\ heal \in {"off", "verify", "clearing"}
  /\ unchanged \in BOOLEAN

\* The file is left alone or is what a process had in memory.
OtherStep ==
  /\ halt' \in Resumable \cup ManualOnly \cup {"none"}
  /\ heal' \in {"off", "verify", "clearing"}
  /\ unchanged' \in BOOLEAN
  /\ file' = file \/ \E q \in Procs : file' = mem[q]

\* The four parts of the invariant follow from what a step does to each.
LEMMA Together ==
  ASSUME IInv, OverStays, LockOwnership', MemoryFollowsBase', MemoryHasOrders', OtherStep,
         lock' \in Procs \cup {Healer, Free}, pc' \in [Procs -> Phases],
         mem' \in [Procs -> Entries \cup {NoEntry}], base' \in [Procs -> Entries \cup {NoEntry}]
  PROVE  IInv'
  <1>1. file' \in Entries \cup {NoEntry} /\ (file' # NoEntry => st'[file'] # "absent")
    <2>1. CASE file' = file
      BY <2>1 DEF IInv, TypeOK, RecordsHaveOrders, OverStays
    <2>2. CASE \E q \in Procs : file' = mem[q]
      <3>1. PICK q \in Procs : file' = mem[q]
        BY <2>2
      <3>2. QED
        BY <3>1, KeepMemory DEF OverStays
    <2>3. QED
      BY <2>1, <2>2 DEF OtherStep
  <1>2. TypeOK'
    BY <1>1 DEF TypeOK, OverStays, OtherStep, EntryType, Phases
  <1>3. RecordsHaveOrders'
    BY <1>1 DEF RecordsHaveOrders, MemoryHasOrders
  <1>4. QED
    BY <1>2, <1>3 DEF IInv

(***************************************************************************)
(* The shapes of a process's step.                                         *)
(***************************************************************************)
LockCase(p, ph) ==
  \/ lock' = lock /\ (ph \in Locked <=> pc[p] \in Locked)
  \/ lock = p /\ lock' = Free /\ ph \notin Locked
  \/ lock = Free /\ lock' = p /\ ph \in Locked

\* It moves on with what it has.
LEMMA GoesOn ==
  ASSUME IInv, OverStays, OtherStep, NEW p \in Procs, NEW ph \in Phases \ {"off"},
         Goto(p, ph), UNCHANGED <<mem, base, heal>>, LockCase(p, ph), pc[p] # "off",
         ph \notin Opening
  PROVE  IInv'
  <1>3. /\ LockOwnership'
        /\ lock' \in Procs \cup {Healer, Free}
        /\ pc' \in [Procs -> Phases]
    BY LockMoves DEF Goto, LockCase
  <1>4. /\ MemoryFollowsBase' /\ MemoryHasOrders'
        /\ mem' \in [Procs -> Entries \cup {NoEntry}]
        /\ base' \in [Procs -> Entries \cup {NoEntry}]
    <2>1. pc \in [Procs -> Phases]
      BY DEF IInv, TypeOK, Phases
    <2>2. ASSUME NEW q \in Procs
          PROVE  /\ pc'[q] = "off" => mem[q] = NoEntry /\ base[q] = NoEntry
                 /\ base[q] # NoEntry => mem[q] = base[q] \/ st'[base[q]] \in Over
                 /\ pc'[q] \in Opening => base[q] = NoEntry \/ st'[base[q]] \in Over
                 /\ mem[q] # NoEntry => st'[mem[q]] # "absent"
                 /\ base[q] # NoEntry => st'[base[q]] # "absent"
      <3>1. q # p => pc'[q] = pc[q]
        BY <2>1 DEF Goto
      <3>2. q = p => pc'[q] = ph
        BY <2>1 DEF Goto
      <3>3. QED
        BY <3>1, <3>2, KeepMemory DEF OverStays
    <2>3. QED
      BY <2>2 DEF IInv, TypeOK, MemoryFollowsBase, MemoryHasOrders
  <1>5. QED
    BY <1>3, <1>4, Together

\* It moves on with another record in memory, allowed when what it loaded is
\* over or was nothing.
LEMMA GoesOnWith ==
  ASSUME IInv, OverStays, OtherStep, NEW p \in Procs, NEW ph \in Phases \ {"off"},
         NEW m \in Entries \cup {NoEntry}, Goto(p, ph), Remember(p, m), UNCHANGED heal,
         LockCase(p, ph), base[p] = NoEntry \/ st'[base[p]] \in Over,
         m # NoEntry => st'[m] # "absent"
  PROVE  IInv'
  <1>1. mem' = [mem EXCEPT ![p] = m] /\ base' = [base EXCEPT ![p] = base[p]]
    BY KeepMemory DEF Remember
  <1>2. base[p] \in Entries \cup {NoEntry} /\ (base[p] # NoEntry => st'[base[p]] # "absent")
    BY KeepMemory DEF OverStays
  <1>3. /\ LockOwnership'
        /\ lock' \in Procs \cup {Healer, Free}
        /\ pc' \in [Procs -> Phases]
    BY LockMoves DEF Goto, LockCase
  <1>4. /\ MemoryFollowsBase' /\ MemoryHasOrders'
        /\ mem' \in [Procs -> Entries \cup {NoEntry}]
        /\ base' \in [Procs -> Entries \cup {NoEntry}]
    BY <1>1, <1>2, MemoryMoves DEF Goto
  <1>5. QED
    BY <1>3, <1>4, Together

\* It is done.
LEMMA IsDone ==
  ASSUME IInv, OverStays, OtherStep, NEW p \in Procs, Done(p), UNCHANGED heal,
         LockCase(p, "off")
  PROVE  IInv'
  <1>1. "off" \in Phases /\ "off" \notin Opening
    BY DEF Phases, Opening
  <1>2. /\ pc' = [pc EXCEPT ![p] = "off"]
        /\ mem' = [mem EXCEPT ![p] = NoEntry] /\ base' = [base EXCEPT ![p] = NoEntry]
    BY DEF Done, Goto
  <1>3. /\ LockOwnership'
        /\ lock' \in Procs \cup {Healer, Free}
        /\ pc' \in [Procs -> Phases]
    BY <1>1, <1>2, LockMoves DEF LockCase
  <1>4. /\ MemoryFollowsBase' /\ MemoryHasOrders'
        /\ mem' \in [Procs -> Entries \cup {NoEntry}]
        /\ base' \in [Procs -> Entries \cup {NoEntry}]
    BY <1>1, <1>2, MemoryMoves
  <1>5. QED
    BY <1>3, <1>4, Together

\* It loads positions.json.
LEMMA Loads ==
  ASSUME IInv, OverStays, OtherStep, NEW p \in Procs, NEW ph \in Phases \ {"off"},
         Goto(p, ph), Load(p), UNCHANGED heal, LockCase(p, ph),
         ph \in Opening => file = NoEntry
  PROVE  IInv'
  <1>1. file \in Entries \cup {NoEntry} /\ (file # NoEntry => st'[file] # "absent")
    BY DEF IInv, TypeOK, RecordsHaveOrders, OverStays
  <1>2. /\ LockOwnership'
        /\ lock' \in Procs \cup {Healer, Free}
        /\ pc' \in [Procs -> Phases]
    BY LockMoves DEF Goto, LockCase
  <1>3. /\ MemoryFollowsBase' /\ MemoryHasOrders'
        /\ mem' \in [Procs -> Entries \cup {NoEntry}]
        /\ base' \in [Procs -> Entries \cup {NoEntry}]
    BY <1>1, MemoryMoves DEF Goto, Load
  <1>4. QED
    BY <1>2, <1>3, Together

\* Nobody moves: the broker, the operator's halt and reset, the self-healer.
LEMMA NobodyMovesSound ==
  ASSUME IInv, OverStays, OtherStep, UNCHANGED <<pc, mem, base>>,
         \/ UNCHANGED <<lock, heal>>
         \/ lock' = lock /\ heal # "clearing" /\ heal' # "clearing"
         \/ lock = Free /\ lock' = Healer /\ heal' = "clearing"
         \/ lock = Healer /\ lock' = Free /\ heal' # "clearing"
  PROVE  IInv'
  <1>1. \A p \in Procs : p # Free /\ p # Healer
    BY ProcsAssumption
  <1>2. Free # Healer
    BY ProcsAssumption
  <1>3. lock \in Procs \cup {Healer, Free}
    BY DEF IInv, TypeOK
  <1>4. \A p \in Procs : pc'[p] \in Locked <=> lock = p
    BY NobodyMoves
  <1>5. heal = "clearing" <=> lock = Healer
    BY DEF IInv, LockOwnership
  <1>6. LockOwnership' /\ lock' \in Procs \cup {Healer, Free}
    <2>1. heal' = "clearing" <=> lock' = Healer
      BY <1>2, <1>5
    <2>2. \A p \in Procs : pc'[p] \in Locked <=> lock' = p
      BY <1>1, <1>4
    <2>3. QED
      BY <1>3, <2>1, <2>2 DEF LockOwnership
  <1>7. QED
    BY <1>6, NobodyMoves, Together

(***************************************************************************)
(* The actions.                                                            *)
(***************************************************************************)
LEMMA TypesNow == IInv => OtherTypes
  BY DEF IInv, TypeOK, OtherTypes

\* Every halt class the code sets is one of the declared ones.
LEMMA HaltTypes ==
  ASSUME IInv, NEW class \in Resumable \cup ManualOnly \cup {"none"}, SetHalt(class),
         file' = file, heal' \in {"off", "verify", "clearing"}
  PROVE  OtherStep
  BY DEF SetHalt, OtherTypes, OtherStep

\* A broker event moves one entry and leaves the processes alone.
LEMMA BrokerStep == IInv /\ Broker => IInv'
  <1> SUFFICES ASSUME IInv, Broker PROVE IInv'
    OBVIOUS
  <1>1. OtherStep /\ UNCHANGED <<pc, mem, base, lock, heal>>
    BY TypesNow DEF Broker, Resolves, StopFires, Becomes, OtherTypes, OtherStep
  <1>2. OverStays
    BY OverStaysOne DEF Broker, Resolves, StopFires, Becomes, EntryType, Over
  <1>3. QED
    BY <1>1, <1>2, NobodyMovesSound

\* /halt and both resets write halt.json only.
LEMMA HaltResetStep == IInv /\ (PhoneHalt \/ Reset) => IInv'
  <1> SUFFICES ASSUME IInv, PhoneHalt \/ Reset PROVE IInv'
    OBVIOUS
  <1>1. UNCHANGED <<pc, mem, base, lock, heal, file, st>>
    BY DEF PhoneHalt, Reset, fileVars
  <1>2. OtherStep
    BY <1>1, TypesNow DEF PhoneHalt, Reset, SetHalt, OtherTypes, OtherStep, ManualOnly
  <1>3. QED
    BY <1>1, <1>2, OverStaysSame, NobodyMovesSound

\* The self-healer takes and releases the lock without touching a record.
LEMMA HealStep == IInv /\ Heal => IInv'
  <1> SUFFICES ASSUME IInv, Heal PROVE IInv'
    OBVIOUS
  <1>1. UNCHANGED <<pc, mem, base, file, st>>
    BY DEF Heal, HealRead, HealGivesUp, HealCompare, HealClear, HealCrash, fileVars
  <1>2. OtherStep
    BY <1>1, TypesNow
       DEF Heal, HealRead, HealGivesUp, HealCompare, HealClear, HealCrash, SetHalt, haltVars, OtherTypes, OtherStep
  <1>3. heal = "clearing" => lock = Healer
    BY DEF IInv, LockOwnership
  <1>4. QED
    BY <1>1, <1>2, <1>3, OverStaysSame, NobodyMovesSound
       DEF Heal, HealRead, HealGivesUp, HealCompare, HealClear, HealCrash

\* The phases of a process, and whether it holds the lock there.
LEMMA PhaseFacts ==
  /\ {"settle", "reconcile", "trade", "open", "save", "submit", "close"} = Locked
  /\ Locked \subseteq Phases \ {"off"}
  /\ {"loaded", "ready", "faulted", "failing"} \subseteq Phases \ {"off"}
  /\ \A ph \in {"loaded", "ready", "faulted", "failing", "off"} : ph \notin Locked
  /\ \A ph \in Phases : ph \in Opening <=> ph \in {"submit", "open"}
  BY DEF Locked, Unlocked, Phases, Opening

\* What happens outside the lock: construction, the halt check, a skipped run,
\* the handler and a crash.
LEMMA OutsideStep ==
  ASSUME IInv, NEW p \in Procs,
         Construct(p) \/ ReadHalt(p) \/ Acquire(p) \/ Busy(p) \/ Crash(p)
  PROVE  IInv'
  <1>1. OverStays
    BY OverStaysSame DEF Construct, ReadHalt, Acquire, Busy, Crash
  <1>2. OtherStep /\ UNCHANGED heal
    BY TypesNow DEF Construct, ReadHalt, Acquire, Busy, Crash, Load, Done, fileVars, haltVars,
                    OtherTypes, OtherStep
  <1>3. CASE Construct(p)
    BY <1>1, <1>2, <1>3, Loads, PhaseFacts DEF Construct, LockCase
  <1>4. CASE ReadHalt(p) /\ halt = "none"
    BY <1>1, <1>2, <1>4, GoesOn, PhaseFacts DEF ReadHalt, LockCase
  <1>5. CASE (ReadHalt(p) /\ halt # "none") \/ Busy(p)
    BY <1>1, <1>2, <1>5, IsDone, PhaseFacts DEF ReadHalt, Busy, LockCase
  <1>6. CASE Acquire(p)
    BY <1>1, <1>2, <1>6, GoesOn, PhaseFacts DEF Acquire, LockCase, fileVars
  <1>7. CASE Crash(p)
    <2>1. pc[p] \in Locked <=> lock = p
      BY KeepMemory
    <2>2. LockCase(p, "off")
      BY <1>7, <2>1, PhaseFacts DEF Crash, LockCase
    <2>3. QED
      BY <1>1, <1>2, <1>7, <2>2, IsDone DEF Crash
  <1>8. QED
    BY <1>3, <1>4, <1>5, <1>6, <1>7

\* Under the lock: going on with the same record.
LEMMA SameRecordStep ==
  ASSUME IInv, NEW p \in Procs,
         \/ NoEntryNow(p) \/ Fault(p) \/ FaultSave(p)
         \/ (Settle(p) /\ UNCHANGED <<mem, base>>)
         \/ (SettleOpen(p) /\ UNCHANGED <<mem, base>>)
         \/ (ReconcileOk(p) /\ UNCHANGED <<mem, base>>)
  PROVE  IInv'
  <1>1. OverStays
    BY OverStaysSame, OverStaysSettled
       DEF NoEntryNow, Fault, FaultSave, Settle, SettleOpen, ReconcileOk
  <1>2. OtherStep /\ UNCHANGED <<heal, mem, base>>
    BY TypesNow, KeepMemory
       DEF NoEntryNow, Fault, FaultSave, Settle, Settled, SettleOpen, ReconcileOk, Remember,
           fileVars, haltVars, OtherTypes, OtherStep
  <1>3. lock = p <=> pc[p] \in Locked
    BY KeepMemory
  <1>4. CASE NoEntryNow(p) \/ Settle(p) \/ SettleOpen(p) \/ ReconcileOk(p)
    BY <1>1, <1>2, <1>4, GoesOn, PhaseFacts
       DEF NoEntryNow, Settle, SettleOpen, ReconcileOk, LockCase
  <1>5. CASE Fault(p)
    BY <1>1, <1>2, <1>3, <1>5, GoesOn, PhaseFacts DEF Fault, LockCase
  <1>6. CASE FaultSave(p)
    BY <1>1, <1>2, <1>6, GoesOn, PhaseFacts DEF FaultSave, LockCase
  <1>7. QED
    BY <1>4, <1>5, <1>6

\* Under the lock: the process ends.
LEMMA EndingStep ==
  ASSUME IInv, NEW p \in Procs,
         \/ ReconcileHalts(p) \/ KillSwitch(p) \/ StaleDataHalts(p)
         \/ Save(p) \/ FaultHalt(p) \/ (p = Listener /\ PhoneFails)
  PROVE  IInv'
  <1>1. OverStays
    BY OverStaysSame, OverStaysLiquidated
       DEF ReconcileHalts, KillSwitch, StaleDataHalts, Save, FaultHalt, PhoneFails
  <1>2. OtherStep /\ UNCHANGED heal
    BY TypesNow, KeepMemory
       DEF ReconcileHalts, KillSwitch, StaleDataHalts, HaltLocked, Save, FaultHalt, PhoneFails,
           SetHalt, haltVars, OtherTypes, OtherStep, Resumable, ManualOnly, Breakers
  <1>3. lock = p <=> pc[p] \in Locked
    BY KeepMemory
  <1>4. CASE ReconcileHalts(p) \/ KillSwitch(p) \/ StaleDataHalts(p)
    BY <1>1, <1>2, <1>3, <1>4, IsDone, PhaseFacts
       DEF ReconcileHalts, KillSwitch, StaleDataHalts, HaltLocked, LockCase
  <1>5. CASE Save(p)
    BY <1>1, <1>2, <1>3, <1>5, IsDone, PhaseFacts DEF Save, LockCase
  <1>6. CASE FaultHalt(p)
    BY <1>1, <1>2, <1>6, IsDone, PhaseFacts DEF FaultHalt, LockCase
  <1>7. CASE p = Listener /\ PhoneFails
    BY <1>1, <1>2, <1>3, <1>7, IsDone, PhaseFacts DEF PhoneFails, LockCase
  <1>8. QED
    BY <1>4, <1>5, <1>6, <1>7

\* Under the lock: going on with another record.  What was loaded is over, or
\* was nothing.
LEMMA OtherRecordStep ==
  ASSUME IInv, NEW p \in Procs,
         \/ \E e \in Entries : Enter(p, e)
         \/ OpenFails(p)
         \/ (Settle(p) /\ ~UNCHANGED <<mem, base>>)
         \/ (SettleOpen(p) /\ ~UNCHANGED <<mem, base>>)
         \/ (ReconcileOk(p) /\ ~UNCHANGED <<mem, base>>)
  PROVE  IInv'
  <1>1. /\ mem[p] \in Entries \cup {NoEntry} /\ base[p] \in Entries \cup {NoEntry}
        /\ base[p] # NoEntry => mem[p] = base[p] \/ st[base[p]] \in Over
        /\ pc[p] \in Opening => base[p] = NoEntry \/ st[base[p]] \in Over
        /\ lock = p <=> pc[p] \in Locked
        /\ NoEntry \notin Entries
    BY KeepMemory, ProcsAssumption
  <1>2. CASE \E e \in Entries : Enter(p, e)
    <2>1. PICK e \in Entries : Enter(p, e)
      BY <1>2
    <2>2. OverStays
      BY <2>1, OverStaysOne DEF Enter, EntryType, Over
    <2>3. OtherStep
      BY <2>1, TypesNow DEF Enter, Remember, haltVars, OtherTypes, OtherStep
    <2>4. base[p] = NoEntry \/ st'[base[p]] \in Over
      BY <1>1, <2>1, <2>2 DEF Enter, OverStays
    <2>5. st'[e] # "absent"
      BY <2>1 DEF Enter, IInv, TypeOK
    <2>6. QED
      BY <1>1, <2>1, <2>2, <2>3, <2>4, <2>5, GoesOnWith, PhaseFacts DEF Enter, LockCase
  <1>3. CASE OpenFails(p)
    <2>1. OverStays
      BY <1>3, OverStaysSame DEF OpenFails
    <2>2. OtherStep
      BY <1>3, TypesNow DEF OpenFails, Remember, haltVars, OtherTypes, OtherStep
    <2>3. base[p] = NoEntry \/ st'[base[p]] \in Over
      BY <1>1, <1>3, <2>1, PhaseFacts DEF OpenFails, OverStays, Opening
    <2>4. pc[p] \in Locked
      BY <1>3, PhaseFacts DEF OpenFails
    <2>5. QED
      BY <1>1, <1>3, <2>1, <2>2, <2>3, <2>4, GoesOnWith, PhaseFacts DEF OpenFails, LockCase
  <1>4. CASE (Settle(p) \/ SettleOpen(p)) /\ ~UNCHANGED <<mem, base>>
    <2>1. Settled(p) /\ ~UNCHANGED <<mem, base>>
      BY <1>4 DEF Settle, SettleOpen, fileVars
    <2>2. Remember(p, NoEntry) /\ mem[p] \in Entries /\ st[mem[p]] = "dead" /\ UNCHANGED st
      BY <2>1 DEF Settled, fileVars
    <2>3. OverStays
      BY <2>2, OverStaysSame
    <2>4. OtherStep /\ UNCHANGED heal
      BY <1>4, <2>2, TypesNow DEF Settle, SettleOpen, Remember, haltVars, OtherTypes, OtherStep
    <2>5. base[p] = NoEntry \/ st'[base[p]] \in Over
      BY <1>1, <2>2 DEF Over
    <2>6. QED
      BY <1>1, <1>4, <2>2, <2>3, <2>4, <2>5, GoesOnWith, PhaseFacts
         DEF Settle, SettleOpen, LockCase
  <1>5. CASE ReconcileOk(p) /\ ~UNCHANGED <<mem, base>>
    <2>1. Remember(p, NoEntry) /\ mem[p] # NoEntry /\ st[mem[p]] = "sold" /\ UNCHANGED st
      BY <1>5 DEF ReconcileOk, fileVars
    <2>2. OverStays
      BY <2>1, OverStaysSame
    <2>3. OtherStep /\ UNCHANGED heal
      BY <1>5, <2>1, TypesNow DEF ReconcileOk, Remember, haltVars, OtherTypes, OtherStep
    <2>4. base[p] = NoEntry \/ st'[base[p]] \in Over
      BY <1>1, <2>1 DEF Over
    <2>5. QED
      BY <1>1, <1>5, <2>1, <2>2, <2>3, <2>4, GoesOnWith, PhaseFacts DEF ReconcileOk, LockCase
  <1>6. QED
    BY <1>2, <1>3, <1>4, <1>5

\* The phone's actions.
LEMMA PhoneStep == IInv /\ Phone => IInv'
  <1> SUFFICES ASSUME IInv, Phone PROVE IInv'
    OBVIOUS
  <1>0. Listener \in Procs
    BY DEF Procs
  <1>1. /\ base[Listener] \in Entries \cup {NoEntry}
        /\ base[Listener] # NoEntry => mem[Listener] = base[Listener] \/ st[base[Listener]] \in Over
        /\ pc[Listener] \in Opening => base[Listener] = NoEntry \/ st[base[Listener]] \in Over
    BY <1>0, KeepMemory
  <1>2. CASE PhoneBuy \/ PhoneSells
    <2>1. OverStays
      BY <1>2, OverStaysSame DEF PhoneBuy, PhoneSells, PhoneBegins
    <2>2. OtherStep
      BY <1>2, TypesNow DEF PhoneBuy, PhoneSells, PhoneBegins, haltVars, OtherTypes, OtherStep
    <2>3. CASE PhoneBuy
      BY <1>0, <2>1, <2>2, <2>3, Loads, PhaseFacts DEF PhoneBuy, PhoneBegins, LockCase
    <2>4. CASE PhoneSells
      BY <1>0, <2>1, <2>2, <2>4, Loads, PhaseFacts DEF PhoneSells, PhoneBegins, LockCase
    <2>5. QED
      BY <1>2, <2>3, <2>4
  <1>3. CASE \E e \in Entries : PhoneSubmits(e)
    <2>1. PICK e \in Entries : PhoneSubmits(e)
      BY <1>3
    <2>2. OverStays
      BY <2>1, OverStaysOne DEF PhoneSubmits, EntryType, Over
    <2>3. OtherStep
      BY <2>1, TypesNow DEF PhoneSubmits, Remember, haltVars, OtherTypes, OtherStep
    <2>4. base[Listener] = NoEntry \/ st'[base[Listener]] \in Over
      BY <1>1, <2>1, <2>2 DEF PhoneSubmits, Opening, OverStays
    <2>5. st'[e] # "absent"
      BY <2>1 DEF PhoneSubmits, IInv, TypeOK
    <2>6. QED
      BY <1>0, <2>1, <2>2, <2>3, <2>4, <2>5, GoesOnWith, PhaseFacts DEF PhoneSubmits, LockCase
  <1>4. CASE PhoneCloses
    <2>1. OverStays
      BY <1>4, OverStaysLiquidated DEF PhoneCloses
    <2>2. OtherStep
      BY <1>4, TypesNow DEF PhoneCloses, Remember, haltVars, OtherTypes, OtherStep
    \* liquidated with the rest, or over before
    <2>3. base[Listener] = NoEntry \/ st'[base[Listener]] \in Over
      <3>1. CASE base[Listener] = NoEntry
        BY <3>1
      <3>2. CASE base[Listener] \in Entries
        <4>1. st[base[Listener]] \in EntryType \ {"absent"}
          BY <1>0, <3>2, KeepMemory, ProcsAssumption DEF IInv, TypeOK, EntryType
        <4>2. st'[base[Listener]] = CASE st[base[Listener]] = "covered" -> "sold"
                                      [] st[base[Listener]] \in {"pending", "filled"} -> "dead"
                                      [] OTHER -> st[base[Listener]]
          BY <1>4, <3>2 DEF PhoneCloses, Liquidated
        <4>3. CASE st[base[Listener]] = "covered"
          BY <4>2, <4>3 DEF Over
        <4>4. CASE st[base[Listener]] \in {"pending", "filled"}
          BY <4>2, <4>4 DEF Over
        <4>5. CASE st[base[Listener]] \in {"sold", "dead"}
          BY <4>2, <4>5 DEF Over
        <4>6. QED
          BY <4>1, <4>3, <4>4, <4>5 DEF EntryType
      <3>3. QED
        BY <1>1, <3>1, <3>2
    <2>4. QED
      BY <1>0, <1>4, <2>1, <2>2, <2>3, GoesOnWith, PhaseFacts DEF PhoneCloses, LockCase
  <1>5. CASE PhoneFails
    BY <1>0, <1>5, EndingStep
  <1>6. CASE PhoneHalt \/ Reset
    BY <1>6, HaltResetStep
  <1>7. QED
    BY <1>2, <1>3, <1>4, <1>5, <1>6 DEF Phone, PhoneWorks

\* Every step of the system keeps the invariant.
LEMMA StepSound == IInv /\ [Next]_vars => IInv'
  <1> SUFFICES ASSUME IInv, [Next]_vars PROVE IInv'
    OBVIOUS
  <1>1. CASE Broker
    BY <1>1, BrokerStep
  <1>2. CASE Phone
    BY <1>2, PhoneStep
  <1>3. CASE Heal
    BY <1>3, HealStep
  <1>4. CASE \E p \in Procs : Construct(p) \/ Acquire(p) \/ Works(p) \/ Crash(p)
    <2>1. PICK p \in Procs : Construct(p) \/ Acquire(p) \/ Works(p) \/ Crash(p)
      BY <1>4
    <2>2. CASE Construct(p) \/ Acquire(p) \/ Crash(p) \/ ReadHalt(p) \/ Busy(p)
      BY <2>2, OutsideStep
    <2>3. CASE Settle(p) \/ SettleOpen(p) \/ ReconcileOk(p)
      BY <2>3, SameRecordStep, OtherRecordStep
    <2>4. CASE NoEntryNow(p) \/ Fault(p) \/ FaultSave(p)
      BY <2>4, SameRecordStep
    <2>5. CASE OpenFails(p) \/ \E e \in Entries : Enter(p, e)
      BY <2>5, OtherRecordStep
    <2>6. CASE ReconcileHalts(p) \/ KillSwitch(p) \/ StaleDataHalts(p) \/ Save(p) \/ FaultHalt(p)
      BY <2>6, EndingStep
    <2>7. QED
      BY <2>1, <2>2, <2>3, <2>4, <2>5, <2>6 DEF Works
  <1>5. CASE UNCHANGED vars
    BY <1>5
       DEF vars, IInv, TypeOK, LockOwnership, MemoryFollowsBase, RecordsHaveOrders, Held
  <1>6. QED
    BY <1>1, <1>2, <1>3, <1>4, <1>5 DEF Next

(***************************************************************************)
(* The theorems.                                                           *)
(***************************************************************************)
\* The invariant of the lock holds of every behaviour: types, one holder at a
\* time with its phase, and memory that follows what was loaded.
THEOREM Invariance == Spec => []IInv
  <1>1. Init => IInv
    BY InitIInv
  <1>2. IInv /\ [Next]_vars => IInv'
    BY StepSound
  <1>3. QED
    BY <1>1, <1>2, PTL DEF Spec

\* Every variable keeps its type.
THEOREM TypeCorrect == Spec => []TypeOK
  <1>1. IInv => TypeOK
    BY DEF IInv
  <1>2. QED
    BY <1>1, Invariance, PTL

\* positions.json is only written by Save and FaultSave, from memory.
LEMMA WhoWrites ==
  ASSUME IInv, Next, file' # file
  PROVE  \E p \in Procs : Writes(p) /\ file' = mem[p]
  <1>1. PICK p \in Procs : Save(p) \/ FaultSave(p)
    BY DEF Next, Broker, Resolves, StopFires, Becomes, Phone, PhoneBuy, PhoneSells, PhoneBegins,
           PhoneWorks, PhoneSubmits, PhoneCloses, PhoneFails, PhoneHalt, Reset, Heal, HealRead,
           HealGivesUp, HealCompare, HealClear, HealCrash, Construct, Acquire, Crash, Works, ReadHalt, Busy,
           Settle, Settled, ReconcileOk, ReconcileHalts, KillSwitch, StaleDataHalts, HaltLocked,
           Enter, SettleOpen, OpenFails, NoEntryNow, Fault, FaultHalt, Remember, fileVars
  <1>2. pc \in [Procs -> Phases]
    BY DEF IInv, TypeOK, Phases
  <1>3. pc'[p] # pc[p]
    BY <1>1, <1>2 DEF Save, FaultSave, Done, Goto
  <1>4. QED
    BY <1>1, <1>3 DEF Save, FaultSave, Writes

\* A record whose entry is not over disappears from positions.json only in
\* the write of a process that loaded the file without it: for any number of
\* cycles, crashes and phone actions, staleness is the only way to lose one.
THEOREM OnlyStaleLoses == Spec => OnlyStaleLosesRecords
  <1>1. IInv /\ [Next]_vars =>
          [file # NoEntry /\ file' # file /\ st[file] \notin Over
             => \E p \in Procs : Writes(p) /\ base[p] # file]_vars
    <2> SUFFICES ASSUME IInv, Next, file # NoEntry, file' # file, st[file] \notin Over
                 PROVE  \E p \in Procs : Writes(p) /\ base[p] # file
      OBVIOUS
    <2>1. PICK p \in Procs : Writes(p) /\ file' = mem[p]
      BY WhoWrites
    <2>2. base[p] # NoEntry => mem[p] = base[p] \/ st[base[p]] \in Over
      BY KeepMemory
    <2>3. QED
      BY <2>1, <2>2
  <1>2. QED
    BY <1>1, Invariance, PTL DEF Spec, OnlyStaleLosesRecords

(***************************************************************************)
(* BotLock implements Mutex.                                               *)
(***************************************************************************)
\* Who is inside is who holds the lock.
LEMMA InsideIsHolder == IInv => Inside = {lock} \ {Free}
  BY ProcsAssumption DEF IInv, TypeOK, LockOwnership, Inside

\* The lock is taken from nobody.
LEMMA NoHandover == Next => lock' = lock \/ lock = Free \/ lock' = Free
  BY DEF Next, Broker, Resolves, StopFires, Becomes, Phone, PhoneBuy, PhoneSells, PhoneBegins,
         PhoneWorks, PhoneSubmits, PhoneCloses, PhoneFails, PhoneHalt, Reset, Heal, HealRead,
         HealGivesUp, HealCompare, HealClear, HealCrash, Construct, Acquire, Crash, Works, ReadHalt, Busy,
         Settle, ReconcileOk, ReconcileHalts, KillSwitch, StaleDataHalts, HaltLocked,
         Enter, SettleOpen, OpenFails, NoEntryNow, Fault, FaultSave, FaultHalt, Save

\* For every number of processes: cycles, phone actions and the self-healer's
\* clear are never inside together, whatever faults and dies.
THEOREM ImplementsMutex == Spec => MutualExclusion
  <1>1. Init => M!Init
    <2>1. Init => IInv /\ lock = Free
      BY InitIInv DEF Init
    <2>2. QED
      BY <2>1, InsideIsHolder DEF M!Init
  <1>2. (IInv => Inside = {lock} \ {Free})'
    BY InsideIsHolder, PTL
  <1>3. IInv /\ IInv' /\ [Next]_vars => [M!Next]_Inside
    <2> SUFFICES ASSUME IInv, IInv', [Next]_vars, Inside' # Inside PROVE M!Next
      OBVIOUS
    <2>1. Inside = {lock} \ {Free} /\ Inside' = {lock'} \ {Free}
      BY <1>2, InsideIsHolder
    <2>2. lock' # lock
      BY <2>1
    <2>3. lock = Free \/ lock' = Free
      BY <2>2, NoHandover DEF vars
    <2>4. lock \in Procs \cup {Healer, Free} /\ lock' \in Procs \cup {Healer, Free}
      BY DEF IInv, TypeOK
    <2>5. CASE lock = Free
      <3>1. M!Enter(lock')
        BY <2>1, <2>2, <2>5 DEF M!Enter
      <3>2. QED
        BY <2>2, <2>4, <2>5, <3>1 DEF M!Next
    <2>6. CASE lock' = Free
      <3>1. M!Leave(lock)
        BY <2>1, <2>2, <2>6 DEF M!Leave
      <3>2. QED
        BY <2>2, <2>4, <2>6, <3>1 DEF M!Next
    <2>7. QED
      BY <2>3, <2>5, <2>6
  <1>4. QED
    BY <1>1, <1>3, Invariance, PTL DEF Spec, MutualExclusion, M!Spec

(***************************************************************************)
(* Halts, when a single process runs cycles.                               *)
(***************************************************************************)
\* Nothing is underway and nothing is halted at first.
LEMMA InitHalts == Init => HaltsInTurn
  BY DEF Init, HaltsInTurn, PhonePhases, Underway, HealerClearsWhatItVerified, Procs

\* Whoever is inside the lock keeps the self-healer out.
LEMMA InsideNotClearing ==
  ASSUME IInv
  PROVE  /\ \A p \in Procs : pc[p] \in Locked => heal # "clearing"
         /\ lock = Free => heal # "clearing"
  BY ProcsAssumption DEF IInv, LockOwnership

\* The step of a process: a cycle that goes on or ends, with a halt or without,
\* or the phone, which is not a cycle.
LEMMA HaltMoves ==
  ASSUME IInv, HaltsInTurn, SingleCycler, NEW p \in Procs, NEW ph, Goto(p, ph), UNCHANGED heal,
         p \in Cyclers \/ ph \in PhonePhases,
         \/ /\ UNCHANGED haltVars
            /\ ph \in Underway => halt \in {"none", "manual"}
            /\ heal = "clearing" => ph \notin {"faulted", "failing"}
         \/ /\ \E class \in Resumable \cup ManualOnly : SetHalt(class)
            /\ p \in Cyclers /\ ph = "off" /\ heal # "clearing"
  PROVE  HaltsInTurn'
  <1>1. pc \in [Procs -> Phases] /\ pc'[p] = ph /\ \A q \in Procs : q # p => pc'[q] = pc[q]
    BY DEF IInv, TypeOK, Phases, Goto
  <1>2. Listener \in Cyclers \/ pc'[Listener] \in PhonePhases
    BY <1>1 DEF HaltsInTurn, Procs
  <1>3. \A q \in Cyclers : q \in Procs /\ (p \in Cyclers => q = p)
    BY DEF SingleCycler, Procs
  <1>4. CASE UNCHANGED haltVars
    <2>1. ASSUME NEW q \in Cyclers
          PROVE  /\ pc'[q] \in Underway => halt \in {"none", "manual"}
                 /\ heal = "clearing" => pc'[q] \notin {"faulted", "failing"}
      BY <1>1, <1>3, <1>4 DEF HaltsInTurn, haltVars, Underway
    <2> QED
      BY <1>2, <1>4, <2>1 DEF HaltsInTurn, haltVars, HealerClearsWhatItVerified
  <1>5. CASE ~ UNCHANGED haltVars
    <2>1. p \in Cyclers /\ ph = "off" /\ heal' # "clearing" /\ unchanged' = FALSE
      BY <1>5 DEF SetHalt
    <2>2. \A q \in Cyclers : pc'[q] = "off"
      BY <1>1, <1>3, <2>1
    <2> QED
      BY <1>2, <2>1, <2>2 DEF HaltsInTurn, Underway, HealerClearsWhatItVerified
  <1> QED
    BY <1>4, <1>5

\* Only a cycler is in a phase that the phone does not know.
LEMMA CyclerPhases ==
  ASSUME HaltsInTurn, NEW p \in Procs, pc[p] \notin PhonePhases
  PROVE  p \in Cyclers
  BY DEF HaltsInTurn, Procs

\* A cycle that is underway keeps on.
LEMMA CycleHaltStep ==
  ASSUME IInv, HaltsInTurn, SingleCycler, NEW p \in Procs,
         Construct(p) \/ Acquire(p) \/ Works(p) \/ Crash(p)
  PROVE  HaltsInTurn'
  <1> USE DEF Underway, PhonePhases, Locked
  <1>1. CASE Construct(p)
    <2>1. Goto(p, "loaded") /\ p \in Cyclers /\ UNCHANGED <<heal, haltVars>>
      BY <1>1 DEF Construct, haltVars
    <2> QED
      BY <2>1, HaltMoves
  <1>2. CASE Crash(p) \/ Busy(p) \/ Save(p)
    <2>1. Goto(p, "off") /\ UNCHANGED <<heal, haltVars>>
      BY <1>2 DEF Crash, Busy, Save, Done, haltVars
    <2> QED
      BY <2>1, HaltMoves
  <1>3. CASE ReadHalt(p)
    <2>1. /\ Goto(p, "off") \/ (Goto(p, "ready") /\ halt = "none")
          /\ UNCHANGED <<heal, haltVars>>
      BY <1>3 DEF ReadHalt, Done, haltVars
    <2>2. p \in Cyclers
      BY <1>3, CyclerPhases DEF ReadHalt
    <2> QED
      BY <2>1, <2>2, HaltMoves
  <1>4. CASE Acquire(p) \/ Settle(p) \/ ReconcileOk(p) \/ NoEntryNow(p)
             \/ SettleOpen(p) \/ \E e \in Entries : Enter(p, e)
    <2>1. /\ pc[p] \in {"ready", "settle", "reconcile", "trade", "open"}
          /\ \E ph \in {"settle", "reconcile", "trade", "open", "save"} : Goto(p, ph)
          /\ pc[p] = "open" => Goto(p, "save")
          /\ UNCHANGED <<heal, haltVars>>
      BY <1>4 DEF Acquire, Settle, ReconcileOk, NoEntryNow, SettleOpen, Enter
    <2>2. PICK ph \in {"settle", "reconcile", "trade", "open", "save"} :
            Goto(p, ph) /\ (pc[p] = "open" => ph = "save")
      BY <2>1
    <2>3. pc[p] # "open" => p \in Cyclers
      BY <2>1, CyclerPhases
    <2>4. ph # "save" => halt \in {"none", "manual"}
      BY <2>1, <2>2, <2>3 DEF HaltsInTurn
    <2> QED
      BY <2>1, <2>2, <2>3, <2>4, HaltMoves
  <1>5. CASE OpenFails(p) \/ Fault(p)
    <2>1. /\ pc[p] \in {"settle", "reconcile", "trade", "open"}
          /\ Goto(p, "save") \/ Goto(p, "faulted")
          /\ UNCHANGED <<heal, haltVars>>
          /\ pc[p] = "open" => p \in Executing
      BY <1>5 DEF OpenFails, Fault
    <2>2. p \in Cyclers
      BY <2>1, CyclerPhases, ProcsAssumption
    <2>3. halt \in {"none", "manual"} /\ heal # "clearing"
      BY <2>1, <2>2, InsideNotClearing DEF HaltsInTurn
    <2> QED
      BY <2>1, <2>2, <2>3, HaltMoves
  <1>6. CASE FaultSave(p)
    <2>1. pc[p] = "faulted" /\ Goto(p, "failing") /\ UNCHANGED <<heal, haltVars>>
      BY <1>6 DEF FaultSave
    <2>2. p \in Cyclers
      BY <2>1, CyclerPhases
    <2>3. halt \in {"none", "manual"} /\ heal # "clearing"
      BY <2>1, <2>2 DEF HaltsInTurn
    <2> QED
      BY <2>1, <2>2, <2>3, HaltMoves
  <1>7. CASE FaultHalt(p) \/ ReconcileHalts(p) \/ KillSwitch(p) \/ StaleDataHalts(p)
    <2>1. /\ pc[p] \in {"failing", "reconcile", "trade"}
          /\ Goto(p, "off") /\ UNCHANGED heal
          /\ \E class \in Resumable \cup ManualOnly : SetHalt(class)
      BY <1>7 DEF FaultHalt, ReconcileHalts, KillSwitch, StaleDataHalts, HaltLocked, Done,
         Resumable, ManualOnly, Breakers
    <2>2. p \in Cyclers
      BY <2>1, CyclerPhases
    <2>3. heal # "clearing"
      BY <2>1, <2>2, InsideNotClearing DEF HaltsInTurn
    <2> QED
      BY <2>1, <2>2, <2>3, HaltMoves
  <1> QED
    BY <1>1, <1>2, <1>3, <1>4, <1>5, <1>6, <1>7 DEF Works

\* The phone and the self-healer: a manual halt, a reset, and a clear of what
\* was verified.
LEMMA OthersHaltStep ==
  ASSUME IInv, HaltsInTurn, SingleCycler, Broker \/ Phone \/ Heal
  PROVE  HaltsInTurn'
  <1> USE DEF PhonePhases, Underway
  <1>1. CASE Broker
    <2>1. UNCHANGED <<pc, halt, heal, unchanged>>
      BY <1>1 DEF Broker, Resolves, StopFires, Becomes
    <2> QED
      BY <2>1 DEF HaltsInTurn, HealerClearsWhatItVerified
  <1>2. CASE PhoneHalt \/ Reset
    <2>1. /\ halt' \in {"none", "manual"} /\ unchanged' = FALSE /\ UNCHANGED <<pc, heal>>
          /\ halt' = "none" \/ heal # "clearing"
      BY <1>2, InsideNotClearing DEF PhoneHalt, Reset, SetHalt
    <2> QED
      BY <2>1 DEF HaltsInTurn, HealerClearsWhatItVerified
  <1>3. CASE PhoneBuy \/ PhoneSells \/ PhoneWorks
    <2>1. \/ \E ph \in {"close", "save", "off"} : Goto(Listener, ph)
          \/ Goto(Listener, "submit") /\ halt = "none"
          \/ Goto(Listener, "open") /\ pc[Listener] = "submit"
      BY <1>3 DEF PhoneBuy, PhoneSells, PhoneBegins, PhoneWorks, PhoneSubmits, PhoneCloses, PhoneFails, Done
    <2>2. UNCHANGED <<heal, haltVars>>
      BY <1>3 DEF PhoneBuy, PhoneSells, PhoneBegins, PhoneWorks, PhoneSubmits, PhoneCloses, PhoneFails
    <2>3. Listener \in Procs
      BY DEF Procs
    <2>4. CASE \E ph \in {"close", "save", "off"} : Goto(Listener, ph)
      BY <2>2, <2>3, <2>4, HaltMoves
    <2>5. CASE Goto(Listener, "submit") /\ halt = "none"
      BY <2>2, <2>3, <2>5, HaltMoves
    <2>6. CASE Goto(Listener, "open") /\ pc[Listener] = "submit" /\ Listener \in Cyclers
      <3>1. halt \in {"none", "manual"}
        BY <2>6 DEF HaltsInTurn
      <3> QED
        BY <2>2, <2>3, <2>6, <3>1, HaltMoves
    <2>7. CASE Goto(Listener, "open") /\ Listener \notin Cyclers
      <3>1. pc' = [pc EXCEPT ![Listener] = "open"] /\ pc \in [Procs -> Phases]
        BY <2>7 DEF Goto, IInv, TypeOK, Phases
      <3>2. pc'[Listener] = "open" /\ \A q \in Cyclers : pc'[q] = pc[q]
        BY <2>7, <3>1 DEF Procs
      <3> QED
        BY <2>2, <3>2 DEF HaltsInTurn, haltVars, HealerClearsWhatItVerified
    <2> QED
      BY <2>1, <2>4, <2>5, <2>6, <2>7
  <1>4. CASE HealCompare
    <2>1. /\ halt \in Resumable /\ unchanged /\ UNCHANGED <<pc, haltVars>>
      BY <1>4 DEF HealCompare, HaltsInTurn
    <2>2. \A p \in Cyclers : pc[p] \notin Underway
      BY <2>1 DEF HaltsInTurn, Resumable
    <2> QED
      BY <2>1, <2>2 DEF HaltsInTurn, haltVars, HealerClearsWhatItVerified
  <1>5. CASE HealRead \/ HealGivesUp \/ HealClear \/ HealCrash
    <2>1. /\ heal' # "clearing" /\ UNCHANGED pc
          /\ \/ UNCHANGED halt /\ unchanged' = TRUE /\ halt \in Resumable
             \/ UNCHANGED haltVars
             \/ halt' = "none" /\ unchanged' = FALSE
      BY <1>5 DEF HealRead, HealGivesUp, HealClear, HealCrash, SetHalt
    <2> QED
      BY <2>1 DEF HaltsInTurn, haltVars, HealerClearsWhatItVerified
  <1> QED
    BY <1>1, <1>2, <1>3, <1>4, <1>5 DEF Phone, Heal

\* With one cycler, halts take turns: a cycle sets one only where there was none
\* or the phone's, and the self-healer clears only what still stands.
THEOREM HaltsTakeTurns ==
  ASSUME SingleCycler
  PROVE  Spec => []HaltsInTurn
  <1>1. IInv /\ HaltsInTurn /\ [Next]_vars => HaltsInTurn'
    <2>1. IInv /\ HaltsInTurn /\ Next => HaltsInTurn'
      BY CycleHaltStep, OthersHaltStep DEF Next
    <2>2. HaltsInTurn /\ UNCHANGED vars => HaltsInTurn'
      BY DEF HaltsInTurn, vars, HealerClearsWhatItVerified
    <2> QED
      BY <2>1, <2>2
  <1> QED
    BY InitHalts, <1>1, Invariance, PTL DEF Spec

\* The self-healer, which verifies without the lock, clears the very halt it
\* verified, as long as one process runs cycles.
THEOREM HealerClearsVerified ==
  ASSUME SingleCycler
  PROVE  Spec => []HealerClearsWhatItVerified
  <1>1. HaltsInTurn => HealerClearsWhatItVerified
    BY DEF HaltsInTurn
  <1> QED
    BY HaltsTakeTurns, <1>1, PTL

\* Who may replace a reconcile or a kill-switch halt: the phone's own halt, or
\* a reset.
LEMMA BreakerStep ==
  ASSUME IInv, HaltsInTurn, SingleCycler, [Next]_vars, halt \in Breakers
  PROVE  halt' \in ManualOnly \/ Reset
  <1>1. halt \in ManualOnly /\ halt \notin Resumable /\ halt \notin {"none", "manual"}
    BY DEF ManualOnly, Breakers, Resumable
  <1>2. \A p \in Cyclers : pc[p] \notin Underway
    BY <1>1 DEF HaltsInTurn
  <1>3. \A p \in Procs : pc[p] \notin Underway \/ pc[p] \in PhonePhases
    BY <1>2 DEF HaltsInTurn, Procs
  <1>4. ~ HealClear
    BY <1>1 DEF HealClear, HaltsInTurn, HealerClearsWhatItVerified
  <1>5. ASSUME NEW p \in Procs
        PROVE  ~ FaultHalt(p) /\ ~ ReconcileHalts(p) /\ ~ KillSwitch(p) /\ ~ StaleDataHalts(p)
    BY <1>3 DEF FaultHalt, ReconcileHalts, KillSwitch, StaleDataHalts, Underway, PhonePhases
  <1>6. PhoneHalt => halt' \in ManualOnly
    BY DEF PhoneHalt, SetHalt, ManualOnly
  <1>7. UNCHANGED halt \/ PhoneHalt \/ Reset
    BY <1>4, <1>5 DEF Next, Broker, Resolves, StopFires, Becomes, Phone, PhoneBuy, PhoneSells, PhoneBegins,
       PhoneWorks, PhoneSubmits, PhoneCloses, PhoneFails, Heal, HealRead,
       HealGivesUp, HealCompare, HealCrash, Construct, Acquire, Crash, Works, ReadHalt, Busy,
       Settle, ReconcileOk, Enter, SettleOpen, OpenFails, NoEntryNow, Fault, FaultSave, Save, haltVars, vars
  <1> QED
    BY <1>1, <1>6, <1>7

\* A kill-switch or reconcile halt lasts until a reset or a halt by hand, as
\* long as one process runs cycles.
THEOREM BreakersStick ==
  ASSUME SingleCycler
  PROVE  Spec => BreakerHaltsStick
  <1>1. IInv /\ HaltsInTurn /\ [Next]_vars => [(halt \in Breakers) => halt' \in ManualOnly \/ Reset]_vars
    BY BreakerStep
  <1> QED
    BY <1>1, HaltsTakeTurns, Invariance, PTL DEF Spec, BreakerHaltsStick
=============================================================================
