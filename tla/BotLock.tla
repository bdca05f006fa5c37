------------------------------ MODULE BotLock ------------------------------
(***************************************************************************)
(* What bot_lock covers and what it does not: the scheduled cycles, the    *)
(* listener (phone actions, and /run, which is a propose cycle) and the    *)
(* self-healer around positions.json and halt.json.                        *)
(*                                                                         *)
(* Inside the lock one process works.  Outside it: an Orchestrator loads   *)
(* positions.json and reads halt.json when it is constructed, its          *)
(* exception handler saves and halts after the with block is left,         *)
(* run_paper --reset clears the halt, and the self-healer verifies.        *)
(*                                                                         *)
(* One symbol is followed.  What the broker does with an order is reduced  *)
(* to the life of its entry; module OrderLifecycle has the rest.           *)
(***************************************************************************)
EXTENDS Naturals, FiniteSets

CONSTANTS
  Cyclers,    \* processes that run cycles; Listener among them for /run
  Executing,  \* those of them that run in execute mode
  Listener,
  Healer,
  Entries,    \* identities of entry orders; bounds how many are ever made
  NoEntry,
  Free        \* nobody holds the lock

Procs == Cyclers \cup {Listener}

ASSUME ProcsAssumption ==
  /\ Executing \subseteq Cyclers \ {Listener}
  /\ Healer \notin Procs
  /\ Free \notin Procs \cup {Healer}
  /\ NoEntry \notin Entries

VARIABLES
  lock,       \* state/.bot.lock: its holder, or Free
  file,       \* state/positions.json: the entry of the symbol's record
  halt,       \* state/halt.json: its class, or "none"
  st,         \* the broker's view of each entry
  pc,         \* how far each process has come
  mem,        \* the record each process has in memory
  base,       \* history: the record as the process loaded it
  heal,       \* how far the self-healer has come
  unchanged   \* halt.json was not written since the healer read it

vars == <<lock, file, halt, st, pc, mem, base, heal, unchanged>>
fileVars == <<file, mem, base>>
haltVars == <<halt, unchanged>>

\* Mutant of Resumable: a reconcile halt may be resumed too.
ResumableTooWide == {"stale_data", "disconnect", "reconcile_mismatch"}

Resumable  == {"stale_data", "disconnect"}
Breakers   == {"reconcile_mismatch", "kill_switch"}
ManualOnly == Breakers \cup {"manual", "exception"}

\* pending: working at the broker; filled: held, no stop yet; covered: held
\* and protected; sold: was covered, is gone; dead: gone before it was.
Over == {"sold", "dead"}
Held == {e \in Entries : st[e] \in {"filled", "covered"}}

Locked   == {"settle", "reconcile", "trade", "open", "save", "submit", "close"}
Unlocked == {"loaded", "ready", "faulted", "failing"}

TypeOK ==
  /\ lock \in Procs \cup {Healer, Free}
  /\ file \in Entries \cup {NoEntry}
  /\ halt \in Resumable \cup ManualOnly \cup {"none"}
  /\ st \in [Entries -> {"absent", "pending", "filled", "covered", "sold", "dead"}]
  /\ pc \in [Procs -> Locked \cup Unlocked \cup {"off"}]
  /\ mem \in [Procs -> Entries \cup {NoEntry}]
  /\ base \in [Procs -> Entries \cup {NoEntry}]
  /\ heal \in {"off", "verify", "clearing"}
  /\ unchanged \in BOOLEAN

Init ==
  /\ lock = Free
  /\ file = NoEntry
  /\ halt = "none"
  /\ st = [e \in Entries |-> "absent"]
  /\ pc = [p \in Procs |-> "off"]
  /\ mem = [p \in Procs |-> NoEntry]
  /\ base = [p \in Procs |-> NoEntry]
  /\ heal = "off"
  /\ unchanged = FALSE

Goto(p, ph) == pc' = [pc EXCEPT ![p] = ph]

Load(p) ==
  /\ mem' = [mem EXCEPT ![p] = file]
  /\ base' = [base EXCEPT ![p] = file]

Remember(p, e) ==
  /\ mem' = [mem EXCEPT ![p] = e]
  /\ UNCHANGED <<file, base>>

\* A process that is done forgets what it loaded.
Done(p) ==
  /\ Goto(p, "off")
  /\ mem' = [mem EXCEPT ![p] = NoEntry]
  /\ base' = [base EXCEPT ![p] = NoEntry]

SetHalt(class) ==
  /\ halt' = class
  /\ unchanged' = FALSE

(***************************************************************************)
(* The broker (external), between any two steps.  Entries are DAY market   *)
(* orders: they fill or they die.                                          *)
(***************************************************************************)
Becomes(e, s) ==
  /\ st' = [st EXCEPT ![e] = s]
  /\ UNCHANGED <<lock, file, halt, pc, mem, base, heal, unchanged>>

Resolves(e) == st[e] = "pending" /\ (Becomes(e, "filled") \/ Becomes(e, "dead"))
StopFires(e) == st[e] = "covered" /\ Becomes(e, "sold")

\* The shares are sold and the orders of the symbol cancelled.
Liquidated ==
  [e \in Entries |-> CASE st[e] = "covered" -> "sold"
                       [] st[e] \in {"pending", "filled"} -> "dead"
                       [] OTHER -> st[e]]

(***************************************************************************)
(* A cycle: constructed, then run under the lock.                          *)
(***************************************************************************)
Construct(p) ==
  /\ p \in Cyclers
  /\ pc[p] = "off"
  /\ Load(p)
  /\ Goto(p, "loaded")
  /\ UNCHANGED <<lock, file, halt, st, heal, unchanged>>

ReadHalt(p) ==
  /\ pc[p] = "loaded"
  /\ IF halt = "none" THEN Goto(p, "ready") /\ UNCHANGED <<mem, base>> ELSE Done(p)
  /\ UNCHANGED <<lock, file, halt, st, heal, unchanged>>

\* Mutant of Acquire: the try for the file lock counts as success.
AcquireAnyway(p) ==
  /\ pc[p] = "ready"
  /\ lock' = p
  /\ Goto(p, "settle")
  /\ UNCHANGED <<fileVars, haltVars, st, heal>>

Acquire(p) ==
  /\ pc[p] = "ready"
  /\ lock = Free
  /\ lock' = p
  /\ Goto(p, "settle")
  /\ UNCHANGED <<fileVars, haltVars, st, heal>>

\* BotBusy after cycle_lock_timeout: the run is skipped.
Busy(p) ==
  /\ pc[p] = "ready"
  /\ lock # Free
  /\ Done(p)
  /\ UNCHANGED <<lock, file, halt, st, heal, unchanged>>

\* settle() of the symbol's record, at the start of an execute cycle and
\* after an entry: a fill is protected, a dead entry dropped.
Settled(p) ==
  LET e == mem[p]
  IN IF e \in Entries /\ st[e] = "filled"
     THEN st' = [st EXCEPT ![e] = "covered"] /\ UNCHANGED fileVars
     ELSE /\ UNCHANGED st
          /\ IF e \in Entries /\ st[e] = "dead" THEN Remember(p, NoEntry) ELSE UNCHANGED fileVars

Settle(p) ==
  /\ pc[p] = "settle"
  /\ IF p \in Executing THEN Settled(p) ELSE UNCHANGED <<fileVars, st>>
  /\ Goto(p, "reconcile")
  /\ UNCHANGED <<lock, haltVars, heal>>

\* A record of an entry that was not settled passes on any order of the symbol while
\* nothing is held, and else on any stop: another entry's will do.
PendingPasses ==
  IF Held = {} THEN \E e \in Entries : st[e] = "pending"
               ELSE \E e \in Held : st[e] = "covered"

\* Mutant of MustMismatch: shares without a record are ignored.
MismatchTrackedOnly(p) ==
  LET e == mem[p]
  IN e # NoEntry /\ (\/ st[e] \in {"pending", "filled", "dead"} /\ ~PendingPasses
                     \/ p \in Executing /\ st[e] = "covered" /\ Held # {e})

\* The broker's shares against the record.  An execute cycle has settled a covered
\* one by now, so that its quantity is compared; in another cycle it may still read
\* pending.
MustMismatch(p) ==
  LET e == mem[p]
  IN \/ e = NoEntry /\ Held # {}
     \/ e # NoEntry /\ (\/ st[e] \in {"pending", "filled", "dead"} /\ ~PendingPasses
                        \/ p \in Executing /\ st[e] = "covered" /\ Held # {e})

\* Shares and orders are read one after the other, and what fills, dies or is
\* sold in between may look like a mismatch.
MayMismatch(p) ==
  LET e == mem[p]
  IN IF e = NoEntry THEN Held # {}
                    ELSE (st[e] = "pending" => Held # {}) /\ (st[e] = "covered" => Held # {e})

ReconcileOk(p) ==
  /\ pc[p] = "reconcile"
  /\ ~MustMismatch(p)
  /\ IF mem[p] # NoEntry /\ st[mem[p]] = "sold" /\ Held = {}
     THEN Remember(p, NoEntry)      \* auto-closed
     ELSE UNCHANGED fileVars
  /\ Goto(p, "trade")
  /\ UNCHANGED <<lock, haltVars, st, heal>>

\* _halt inside the with block: no save, and the lock is released.
HaltLocked(p, class) ==
  /\ SetHalt(class)
  /\ lock' = Free
  /\ Done(p)
  /\ UNCHANGED <<file, heal>>

ReconcileHalts(p) ==
  /\ pc[p] = "reconcile"
  /\ MayMismatch(p)
  /\ HaltLocked(p, "reconcile_mismatch")
  /\ UNCHANGED st

KillSwitch(p) ==
  /\ pc[p] = "trade"
  /\ \/ UNCHANGED st
     \/ p \in Executing /\ st' = Liquidated
  /\ HaltLocked(p, "kill_switch")

StaleDataHalts(p) ==
  /\ pc[p] = "trade"
  /\ HaltLocked(p, "stale_data")
  /\ UNCHANGED st

Enter(p, e) ==
  /\ pc[p] = "trade"
  /\ p \in Executing
  /\ mem[p] = NoEntry
  /\ st[e] = "absent"
  /\ st' = [st EXCEPT ![e] = "pending"]
  /\ Remember(p, e)
  /\ Goto(p, "open")
  /\ UNCHANGED <<lock, haltVars, heal>>

SettleOpen(p) ==
  /\ pc[p] = "open"
  /\ Settled(p)
  /\ Goto(p, "save")
  /\ UNCHANGED <<lock, haltVars, heal>>

\* The entry or its settlement raises: the position is not stored, and the
\* error is isolated or is one too many.
OpenFails(p) ==
  /\ pc[p] = "open"
  /\ p \in Executing
  /\ Remember(p, NoEntry)
  /\ \/ Goto(p, "save") /\ UNCHANGED lock
     \/ Goto(p, "faulted") /\ lock' = Free
  /\ UNCHANGED <<haltVars, st, heal>>

NoEntryNow(p) ==
  /\ pc[p] = "trade"
  /\ Goto(p, "save")
  /\ UNCHANGED <<lock, fileVars, haltVars, st, heal>>

Save(p) ==
  /\ pc[p] = "save"
  /\ file' = mem[p]
  /\ lock' = Free
  /\ Done(p)
  /\ UNCHANGED <<haltVars, st, heal>>

\* Mutant of Fault: the lock is not released on the way to the handler.
FaultKeepsLock(p) ==
  /\ pc[p] \in {"settle", "reconcile", "trade"}
  /\ Goto(p, "faulted")
  /\ UNCHANGED <<lock, fileVars, haltVars, st, heal>>

\* An exception leaves the with block first: the handler saves and halts
\* with the lock released.
Fault(p) ==
  /\ pc[p] \in {"settle", "reconcile", "trade"}
  /\ lock' = Free
  /\ Goto(p, "faulted")
  /\ UNCHANGED <<fileVars, haltVars, st, heal>>

FaultSave(p) ==
  /\ pc[p] = "faulted"
  /\ file' = mem[p]
  /\ Goto(p, "failing")
  /\ UNCHANGED <<lock, haltVars, st, mem, base, heal>>

FaultHalt(p) ==
  /\ pc[p] = "failing"
  /\ \E class \in {"disconnect", "exception"} : SetHalt(class)
  /\ Done(p)
  /\ UNCHANGED <<lock, file, st, heal>>

\* The file lock dies with its process.
Crash(p) ==
  /\ pc[p] # "off"
  /\ lock' = IF lock = p THEN Free ELSE lock
  /\ Done(p)
  /\ UNCHANGED <<file, haltVars, st, heal>>

(***************************************************************************)
(* The phone: TradeService loads and checks under the lock.                *)
(***************************************************************************)
PhoneBegins(ph) ==
  /\ pc[Listener] = "off"
  /\ lock = Free
  /\ lock' = Listener
  /\ Load(Listener)
  /\ Goto(Listener, ph)
  /\ UNCHANGED <<file, haltVars, st, heal>>

\* place_manual and execute_approved refuse while halted or already tracked.
PhoneBuy   == halt = "none" /\ file = NoEntry /\ PhoneBegins("submit")
PhoneSells == file # NoEntry /\ PhoneBegins("close")

PhoneSubmits(e) ==
  /\ pc[Listener] = "submit"
  /\ st[e] = "absent"
  /\ st' = [st EXCEPT ![e] = "pending"]
  /\ Remember(Listener, e)
  /\ Goto(Listener, "open")
  /\ UNCHANGED <<lock, haltVars, heal>>

\* Mutant of PhoneCloses: the record is dropped whatever the broker answered.
PhoneClosesAnyway ==
  /\ pc[Listener] = "close"
  /\ UNCHANGED st
  /\ Remember(Listener, NoEntry)
  /\ Goto(Listener, "save")
  /\ UNCHANGED <<lock, haltVars, heal>>

\* /close and /flatten drop the record when the broker confirmed.
PhoneCloses ==
  /\ pc[Listener] = "close"
  /\ Held # {}
  /\ st' = Liquidated
  /\ Remember(Listener, NoEntry)
  /\ Goto(Listener, "save")
  /\ UNCHANGED <<lock, haltVars, heal>>

\* Vetoed, market closed, refused, or the answer was lost: nothing is saved.
PhoneFails ==
  /\ pc[Listener] \in {"submit", "open", "close"}
  /\ \/ UNCHANGED st
     \/ pc[Listener] = "close" /\ Held # {} /\ st' = Liquidated
  /\ lock' = Free
  /\ Done(Listener)
  /\ UNCHANGED <<file, haltVars, heal>>

PhoneHalt ==
  /\ pc[Listener] = "off"
  /\ lock = Free
  /\ SetHalt("manual")
  /\ UNCHANGED <<lock, fileVars, st, pc, heal>>

\* /reset holds the lock, run_paper --reset does not.
Reset ==
  /\ SetHalt("none")
  /\ UNCHANGED <<lock, fileVars, st, pc, heal>>

(***************************************************************************)
(* The self-healer.                                                        *)
(***************************************************************************)
HealRead ==
  /\ heal = "off"
  /\ halt \in Resumable
  /\ heal' = "verify"
  /\ unchanged' = TRUE
  /\ UNCHANGED <<lock, fileVars, halt, st, pc>>

\* Not verified, cooldown, daily cap, or the state is busy.
HealGivesUp ==
  /\ heal = "verify"
  /\ heal' = "off"
  /\ UNCHANGED <<lock, fileVars, haltVars, st, pc>>

\* Mutant of HealCompare: the halt is not compared with the one verified.
HealCompareSkipped ==
  /\ heal = "verify"
  /\ lock = Free
  /\ lock' = Healer
  /\ heal' = "clearing"
  /\ UNCHANGED <<fileVars, haltVars, st, pc>>

HealCompare ==
  /\ heal = "verify"
  /\ lock = Free
  /\ unchanged
  /\ lock' = Healer
  /\ heal' = "clearing"
  /\ UNCHANGED <<fileVars, haltVars, st, pc>>

HealClear ==
  /\ heal = "clearing"
  /\ SetHalt("none")
  /\ lock' = Free
  /\ heal' = "off"
  /\ UNCHANGED <<fileVars, st, pc>>

HealCrash ==
  /\ heal = "clearing"
  /\ lock' = Free
  /\ heal' = "off"
  /\ UNCHANGED <<fileVars, haltVars, st, pc>>

Broker == \E e \in Entries : Resolves(e) \/ StopFires(e)

Works(p) ==
  \/ ReadHalt(p) \/ Busy(p) \/ Settle(p) \/ ReconcileOk(p) \/ ReconcileHalts(p)
  \/ KillSwitch(p) \/ StaleDataHalts(p) \/ (\E e \in Entries : Enter(p, e))
  \/ SettleOpen(p) \/ OpenFails(p) \/ NoEntryNow(p) \/ Save(p)
  \/ Fault(p) \/ FaultSave(p) \/ FaultHalt(p)

PhoneWorks == (\E e \in Entries : PhoneSubmits(e)) \/ PhoneCloses \/ PhoneFails
Phone == PhoneBuy \/ PhoneSells \/ PhoneWorks \/ PhoneHalt \/ Reset
Heal  == HealRead \/ HealGivesUp \/ HealCompare \/ HealClear \/ HealCrash

Next ==
  \/ Broker \/ Phone \/ Heal
  \/ \E p \in Procs : Construct(p) \/ Acquire(p) \/ Works(p) \/ Crash(p)

Spec == Init /\ [][Next]_vars

(***************************************************************************)
(* Safety                                                                  *)
(***************************************************************************)
Writes(p) == pc[p] \in {"save", "faulted"} /\ pc'[p] # pc[p]

\* The record of an entry that is not over leaves positions.json only through
\* a process that loaded the file before that record was in it.  Nothing else
\* loses a record: no failed close, halt, crash, retry or late answer.
OnlyStaleLosesRecords ==
  [][file # NoEntry /\ file' # file /\ st[file] \notin Over
       => \E p \in Procs : Writes(p) /\ base[p] # file]_vars

\* With a single process running cycles: a kill-switch or reconcile halt is
\* never replaced by one the self-healer may clear, and never cleared but by
\* a reset.
BreakerHaltsStick ==
  [][(halt \in Breakers) => halt' \in ManualOnly \/ Reset]_vars

\* With a single process running cycles: the self-healer clears the very halt
\* it verified, although it verifies without the lock.
HealerClearsWhatItVerified == heal = "clearing" /\ halt # "none" => unchanged

(***************************************************************************)
(* What holds the lock together, for every number of processes.            *)
(***************************************************************************)
LockOwnership ==
  /\ \A p \in Procs : pc[p] \in Locked <=> lock = p
  /\ heal = "clearing" <=> lock = Healer

\* An entry is only made where no live record was loaded.
Opening == {"submit", "open"}

\* No record without an order behind it, on disk or in memory.
RecordsHaveOrders ==
  /\ file # NoEntry => st[file] # "absent"
  /\ \A p \in Procs : /\ mem[p] # NoEntry => st[mem[p]] # "absent"
                      /\ base[p] # NoEntry => st[base[p]] # "absent"

MemoryFollowsBase ==
  \A p \in Procs :
    /\ pc[p] = "off" => mem[p] = NoEntry /\ base[p] = NoEntry
    /\ base[p] # NoEntry => mem[p] = base[p] \/ st[base[p]] \in Over
    /\ pc[p] \in Opening => base[p] = NoEntry \/ st[base[p]] \in Over

IInv == TypeOK /\ LockOwnership /\ MemoryFollowsBase /\ RecordsHaveOrders

(***************************************************************************)
(* What orders the halts, when a single process runs cycles.               *)
(***************************************************************************)
SingleCycler == \A p, q \in Cyclers : p = q

PhonePhases == {"off", "submit", "open", "close", "save"}

\* A cycle read that there was no halt, and may still set one.
Underway == {"ready", "settle", "reconcile", "trade", "submit", "open", "faulted", "failing"}

\* While it is underway only the phone halts, and the self-healer verifies or
\* clears only when it is not.
HaltsInTurn ==
  /\ Listener \in Cyclers \/ pc[Listener] \in PhonePhases
  /\ \A p \in Cyclers :
       /\ pc[p] \in Underway => halt \in {"none", "manual"}
       /\ heal = "clearing" => pc[p] \notin {"faulted", "failing"}
  /\ unchanged => halt \in Resumable
  /\ HealerClearsWhatItVerified

\* Whoever works between taking and leaving the lock, by their own steps.
Inside ==
  {p \in Procs : pc[p] \in Locked} \cup {h \in {Healer} : heal = "clearing"}

M == INSTANCE Mutex WITH Actors <- Procs \cup {Healer}, inside <- Inside

\* Cycles, phone actions and the self-healer's clear exclude each other,
\* through faults that leave the with block, handlers that go on without the
\* lock, and processes that die inside.
MutualExclusion == M!Spec

(***************************************************************************)
(* Liveness: cron starts cycles for ever, a started process runs on, the   *)
(* lock is not withheld from a cycle for ever, DAY orders resolve.         *)
(***************************************************************************)
Fairness ==
  /\ \A e \in Entries : WF_vars(Resolves(e))
  /\ \A p \in Cyclers \ {Listener} : WF_vars(Construct(p)) /\ SF_vars(Acquire(p))
  /\ \A p \in Procs : WF_vars(Works(p))
  /\ WF_vars(PhoneWorks)
  /\ WF_vars(HealClear)

FairSpec == Spec /\ Fairness

\* Shares at the broker that no record accounts for.
Unaccounted == Cardinality(Held) > IF file = NoEntry THEN 0 ELSE 1

\* Crashes and skipped cycles end: from some point on only a step of the
\* process's own looks like a crash, and cron's wait for the lock succeeds.
CyclesGoThrough ==
  <>[][/\ \A p \in Procs : Crash(p) => Works(p) \/ PhoneWorks
       /\ \A p \in Cyclers \ {Listener} : ~Busy(p)]_vars

\* A record lost to a race is not lost for good: the reconciler halts on the
\* shares nobody tracks, or they go.
LostIsNoticed == CyclesGoThrough => (Unaccounted ~> (halt # "none" \/ ~Unaccounted))

(***************************************************************************)
(* What the documents say and the code does not do                         *)
(***************************************************************************)
\* proclock: neither the cycle nor the phone can clobber the other's save.
RecordsSurvive ==
  [][file # NoEntry /\ file' # file => st[file] \in Over]_vars

\* SAFEGUARDS: every order path refuses while HALTED.
NoEntryWhileHalted ==
  [][halt # "none" => \A e \in Entries : st[e] = "absent" => st'[e] = "absent"]_vars

\* HaltClass: only STALE_DATA and DISCONNECT are auto-resumable, "the rest stay
\* manual": such a halt is over only after a reset.
ManualHaltsStick ==
  [][(halt \in ManualOnly) => halt' \in ManualOnly \/ Reset]_vars
=============================================================================
