--------------------------- MODULE OrderLifecycle ---------------------------
(***************************************************************************)
(* The life of one symbol's position: the execution layer (OrderManager,   *)
(* Reconciler), the scheduled Orchestrator cycle and the phone's           *)
(* TradeService actions that drive it, positions.json, and the broker.     *)
(*                                                                         *)
(* The lock holders run one at a time here (module BotLock is about what   *)
(* happens around the lock), but the broker never waits: fills, rejections *)
(* and stops firing come between any two calls, a call may fail before or  *)
(* after it reached the broker, and the process may die at any point.      *)
(*                                                                         *)
(* Levels are protective levels: greater is more protective, which is up   *)
(* for a long and down for a short, so one order covers both sides.        *)
(***************************************************************************)
EXTENDS Naturals, FiniteSets

CONSTANTS
  MaxDay,      \* last day modelled; the cycle tags its entries with the day
  Strategies,  \* what the router may send the symbol to, anew at every cycle
  PhoneTags,   \* tags of phone entries: manual-<date>, approved-<proposal id>
  Orders,      \* identities of protective orders at the broker
  Qty,         \* shares of an entry
  MaxLevel,    \* highest protective level
  Modes,       \* modes the scheduled cycle may run in
  NoTag, NoOrder

\* An id tells entries apart, and their exits: a client_order_id is of a symbol,
\* a strategy and a tag.
Days   == 1..MaxDay
Tags   == (Days \X Strategies) \cup PhoneTags
Levels == 1..MaxLevel

ASSUME ConstantsAssumption ==
  /\ MaxDay \in Nat \ {0}
  /\ Qty \in Nat \ {0}
  /\ MaxLevel \in Nat \ {0}
  /\ Modes \subseteq {"execute", "propose"}
  /\ NoTag \notin Tags
  /\ NoOrder \notin Orders

VARIABLES
  entry,    \* broker: the entry order of each coid
  order,    \* broker: the protective orders
  held,     \* broker: shares held
  pos,      \* the running process's record of the position (positions[symbol])
  saved,    \* the record in state/positions.json
  phase,    \* how far the lock holder has come; "off" when nobody runs
  mode,     \* who runs: a cycle in one of Modes, or the phone
  snap,     \* shares seen by reconcile()'s list_positions
  halted,   \* state/halt.json exists
  day

brokerVars == <<entry, order, held>>
vars == <<entry, order, held, pos, saved, phase, mode, snap, halted, day>>

(***************************************************************************)
(* Records.  A symbol with no record, or with a CLOSED one, is NoPos:      *)
(* every reader of positions treats the two alike.  PENDING_EXIT is        *)
(* declared by the code and never assigned.                                *)
(***************************************************************************)
NoPos == [status |-> "none", tag |-> NoTag, filled |-> 0,
          stop |-> NoOrder, cur |-> 0, ratchet |-> 0]

NewPos(t) == [status |-> "pending", tag |-> t, filled |-> 0,
              stop |-> NoOrder, cur |-> 1, ratchet |-> 1]

Position == [status : {"none", "pending", "open"}, tag : Tags \cup {NoTag},
             filled : 0..Qty, stop : Orders \cup {NoOrder},
             cur : 0..MaxLevel, ratchet : 0..MaxLevel]

NoEntry  == [st |-> "absent", filled |-> 0]
Unused   == [st |-> "absent", tag |-> NoTag, qty |-> 0, level |-> 0]
Resting(t, q, l) == [st |-> "working", tag |-> t, qty |-> q, level |-> l]

Phases == {"off", "settle", "attach", "recheck", "positions", "orders",
           "manage", "refresh", "exit", "enter", "open", "openattach", "save"}

TypeOK ==
  /\ entry \in [Tags -> [st : {"absent", "working", "filled", "dead"}, filled : 0..Qty]]
  /\ order \in [Orders -> [st : {"absent", "working", "gone"}, tag : Tags \cup {NoTag},
                           qty : 0..Qty, level : 0..MaxLevel]]
  /\ held \in Nat
  /\ pos \in Position
  /\ saved \in Position
  /\ phase \in Phases
  /\ mode \in Modes \cup {"phone", "none"}
  /\ snap \in Nat
  /\ halted \in BOOLEAN
  /\ day \in Days

Init ==
  /\ entry = [t \in Tags |-> NoEntry]
  /\ order = [o \in Orders |-> Unused]
  /\ held = 0
  /\ pos = NoPos
  /\ saved = NoPos
  /\ phase = "off"
  /\ mode = "none"
  /\ snap = 0
  /\ halted = FALSE
  /\ day = 1

(***************************************************************************)
(* The broker (external).  A client_order_id is accepted once; a replace   *)
(* retires the old order and creates a new one at the same quantity.       *)
(***************************************************************************)
Working(o)   == order[o].st = "working"
CoidUsed(t)  == \E o \in Orders : order[o].tag = t
StopResting  == \E o \in Orders : Working(o)
EntryWorking == \E t \in Tags : entry[t].st = "working"
Fresh        == {o \in Orders : order[o].st = "absent"}


SubmitEntry(t) ==
  /\ entry[t].st = "absent"
  /\ entry' = [entry EXCEPT ![t] = [st |-> "working", filled |-> 0]]
  /\ UNCHANGED <<order, held>>

\* Mutant of SubmitExit: a new client_order_id at every attempt.
SubmitExitFreshCoid(o, t, q, l) ==
  /\ o \in Fresh
  /\ order' = [order EXCEPT ![o] = Resting(t, q, l)]
  /\ UNCHANGED <<entry, held>>

SubmitExit(o, t, q, l) ==
  /\ ~CoidUsed(t)
  /\ o \in Fresh
  /\ order' = [order EXCEPT ![o] = Resting(t, q, l)]
  /\ UNCHANGED <<entry, held>>

Replace(old, new, l) ==
  /\ old \in Orders
  /\ Working(old)
  /\ new \in Fresh
  /\ order' = [order EXCEPT ![old].st = "gone",
                            ![new] = Resting(order[old].tag, order[old].qty, l)]
  /\ UNCHANGED <<entry, held>>

Cancelled == [o \in Orders |-> IF Working(o) THEN [order[o] EXCEPT !.st = "gone"] ELSE order[o]]
Killed    == [t \in Tags |-> IF entry[t].st = "working" THEN [entry[t] EXCEPT !.st = "dead"]
                                                        ELSE entry[t]]

\* DELETE /v2/positions/{symbol}: liquidates and cancels the related orders;
\* refused when nothing is held.
ClosePosition ==
  /\ held > 0
  /\ held' = 0
  /\ order' = Cancelled
  /\ entry' = Killed

CancelOpenOrders ==
  /\ order' = Cancelled
  /\ entry' = Killed
  /\ UNCHANGED held

botVars == <<pos, saved, phase, mode, snap, halted, day>>

Fill(t) ==
  /\ entry[t].st = "working"
  /\ entry' = [entry EXCEPT ![t] = [st |-> IF entry[t].filled + 1 = Qty THEN "filled" ELSE "working",
                                    filled |-> entry[t].filled + 1]]
  /\ held' = held + 1
  /\ UNCHANGED <<order, botVars>>

\* rejected, cancelled or expired, possibly after a partial fill
EntryDies(t) ==
  /\ entry[t].st = "working"
  /\ entry' = [entry EXCEPT ![t].st = "dead"]
  /\ UNCHANGED <<order, held, botVars>>

StopFires(o) ==
  /\ Working(o)
  /\ order[o].qty <= held
  /\ held' = held - order[o].qty
  /\ order' = [order EXCEPT ![o].st = "gone"]
  /\ UNCHANGED <<entry, botVars>>

\* the 90-day aged-order cancel, or a cancel by hand
StopLapses(o) ==
  /\ Working(o)
  /\ order' = [order EXCEPT ![o].st = "gone"]
  /\ UNCHANGED <<entry, held, botVars>>

\* Entries are DAY orders: none is still working when the date changes.  The
\* date of date.today() changes outside market hours, between two cycles.
NextDay ==
  /\ day < MaxDay
  /\ phase = "off"
  /\ ~EntryWorking
  /\ day' = day + 1
  /\ UNCHANGED <<brokerVars, pos, saved, phase, mode, snap, halted>>

(***************************************************************************)
(* How a lock holder ends.  A process works on the record it loaded and    *)
(* the next one loads the file again, so pos is saved when phase is off.   *)
(***************************************************************************)
End(p) ==
  /\ phase' = "off"
  /\ mode' = "none"
  /\ snap' = 0
  /\ saved' = p
  /\ pos' = p

\* an exception out of run_cycle's body: save what is in memory, then halt
Raise(p) ==
  /\ End(p)
  /\ halted' = TRUE

\* _halt and return, with no save: what the cycle learnt is lost
HaltUnsaved ==
  /\ End(saved)
  /\ halted' = TRUE

Goto(ph) ==
  /\ phase' = ph
  /\ UNCHANGED <<saved, mode, snap, halted>>

\* An error isolated per symbol: go on to ph, or, when it is the one that
\* exhausts max_consecutive_errors, raise out of the cycle.
Isolated(p, ph) ==
  \/ pos' = p /\ Goto(ph)
  \/ Raise(p)

\* An error while opening: _open never stores the position, and the phone
\* answers with an error; the record of the entry is gone either way.
OpenFails ==
  \/ mode = "phone" /\ End(saved) /\ UNCHANGED halted
  \/ mode # "phone" /\ Isolated(NoPos, "save")

(***************************************************************************)
(* The scheduled cycle, in the order of run_cycle.                         *)
(***************************************************************************)
StartCycle ==
  /\ phase = "off"
  /\ ~halted
  /\ \E m \in Modes :
       /\ mode' = m
       /\ phase' = IF m = "execute" THEN "settle" ELSE "positions"
  /\ UNCHANGED <<brokerVars, pos, saved, snap, halted, day>>

\* Any read of the broker or of the features that keeps failing.
CycleRaises ==
  /\ mode \in Modes
  /\ phase \in {"settle", "recheck", "positions", "orders", "manage", "exit"}
  /\ Raise(pos)
  /\ UNCHANGED <<brokerVars, day>>

SettleNothing ==
  /\ phase = "settle"
  /\ pos.status # "pending"
  /\ Goto("recheck")
  /\ UNCHANGED <<brokerVars, pos, day>>

\* settle() reads the entry order, from _settle_pending and from an open.
Settle ==
  /\ phase \in {"settle", "open"}
  /\ pos.status = "pending"
  /\ LET e == entry[pos.tag]
         done == IF phase = "settle" THEN "recheck" ELSE "save"
     IN \/ /\ e.filled > 0
           /\ pos' = [pos EXCEPT !.filled = e.filled]
           /\ Goto(IF phase = "settle" THEN "attach" ELSE "openattach")
        \/ /\ e.filled = 0
           /\ e.st = "dead"
           /\ pos' = NoPos
           /\ Goto(done)
        \/ /\ e.filled = 0
           /\ e.st # "dead"
           /\ pos' = pos
           /\ Goto(done)
  /\ UNCHANGED <<brokerVars, day>>

OpenSettleFails ==
  /\ phase = "open"
  /\ OpenFails
  /\ UNCHANGED <<brokerVars, day>>

\* Mutant of AttachProtection: OPEN without waiting for the stop's id.
AttachOpensFirst ==
  /\ phase \in {"attach", "openattach"}
  /\ pos' = [pos EXCEPT !.status = "open"]
  /\ Goto(IF phase = "attach" THEN "recheck" ELSE "save")
  /\ UNCHANGED <<brokerVars, day>>

AttachProtection ==
  /\ phase \in {"attach", "openattach"}
  /\ \E o \in Orders :
       /\ SubmitExit(o, pos.tag, pos.filled, pos.cur)
       /\ pos' = [pos EXCEPT !.stop = o, !.status = "open"]
  /\ Goto(IF phase = "attach" THEN "recheck" ELSE "save")
  /\ UNCHANGED day

\* Rejected (a duplicate included), still failing at the third attempt, no
\* stop leg in the answer, or accepted with the answer lost: then the retry
\* is a duplicate.
AttachRaises ==
  /\ phase \in {"attach", "openattach"}
  /\ \/ UNCHANGED brokerVars
     \/ \E o \in Orders : SubmitExit(o, pos.tag, pos.filled, pos.cur)
  /\ \/ phase = "attach" /\ Raise(pos)
     \/ phase = "openattach" /\ OpenFails
  /\ UNCHANGED day

\* _recheck_partial_fills: the entry grew after the stop was sized.
Grew == pos.status = "open" /\ entry[pos.tag].filled > pos.filled

Recheck ==
  /\ phase = "recheck"
  /\ ~Grew
  /\ Goto("positions")
  /\ UNCHANGED <<brokerVars, pos, day>>

RecheckRaises ==
  /\ phase = "recheck"
  /\ Grew
  /\ Raise(pos)
  /\ UNCHANGED <<brokerVars, day>>

\* reconcile() lists the positions first and the open orders after.
ListPositions ==
  /\ phase = "positions"
  /\ phase' = "orders"
  /\ snap' = held
  /\ UNCHANGED <<brokerVars, pos, saved, mode, halted, day>>

OrderOpen == EntryWorking \/ StopResting

\* Mutants of Mismatch: an unknown broker position is ignored; whether an
\* exit order rests is not asked.
MismatchKnownOnly ==
  \/ pos.status = "pending" /\ snap = 0 /\ ~OrderOpen
  \/ pos.status = "pending" /\ snap > 0 /\ ~StopResting
  \/ pos.status = "open" /\ snap = 0 /\ OrderOpen
  \/ pos.status = "open" /\ snap > 0 /\ (snap # pos.filled \/ ~StopResting)

MismatchQtyOnly ==
  \/ pos.status = "none" /\ snap > 0
  \/ pos.status = "pending" /\ snap = 0 /\ ~OrderOpen
  \/ pos.status = "open" /\ snap = 0 /\ OrderOpen
  \/ pos.status = "open" /\ snap > 0 /\ snap # pos.filled

Mismatch ==
  \/ pos.status = "none" /\ snap > 0                              \* unknown
  \/ pos.status = "pending" /\ snap = 0 /\ ~OrderOpen             \* pending lost
  \/ pos.status = "pending" /\ snap > 0 /\ ~StopResting           \* unprotected
  \/ pos.status = "open" /\ snap = 0 /\ OrderOpen                 \* quantity
  \/ pos.status = "open" /\ snap > 0 /\ (snap # pos.filled \/ ~StopResting)

AutoClosed == pos.status = "open" /\ snap = 0

ReconcileOk ==
  /\ phase = "orders"
  /\ ~Mismatch
  /\ pos' = IF AutoClosed THEN NoPos ELSE pos
  /\ Goto("manage")
  /\ UNCHANGED <<brokerVars, day>>

ReconcileHalts ==
  /\ phase = "orders"
  /\ Mismatch
  /\ HaltUnsaved
  /\ UNCHANGED <<brokerVars, day>>

\* Kill switch: in execute mode _flatten closes the position, best effort,
\* then cancels every open order, best effort.
KillSwitch ==
  /\ phase = "manage"
  /\ \/ UNCHANGED brokerVars
     \/ mode = "execute" /\ pos.status = "open" /\ ClosePosition
     \/ mode = "execute" /\ CancelOpenOrders
  /\ HaltUnsaved
  /\ UNCHANGED day

\* Mutant of AfterManage: stops are refreshed whatever the mode.
AfterManageAnyMode == {"refresh"}

AfterManage == IF mode = "execute" THEN {"refresh"} ELSE {"exit", "save"}

\* not OPEN, no data or stale data
NothingToRaise ==
  /\ phase = "manage"
  /\ \E ph \in AfterManage : Goto(ph)
  /\ UNCHANGED <<brokerVars, pos, day>>

\* The ratchet only advances; lvl is the level the new close asks for.
Ratcheted(lvl) == IF lvl > pos.ratchet THEN lvl ELSE pos.ratchet

ShadowRatchet ==
  /\ phase = "manage"
  /\ mode # "execute"
  /\ pos.status = "open"
  /\ \E lvl \in Levels : pos' = [pos EXCEPT !.ratchet = Ratcheted(lvl)]
  /\ \E ph \in AfterManage : Goto(ph)
  /\ UNCHANGED <<brokerVars, day>>

\* Mutant of RaiseStop: the record is updated before the replace is known to
\* have succeeded.
RaiseStopRecordsFirst ==
  /\ phase = "manage"
  /\ mode = "execute"
  /\ pos.status = "open"
  /\ \E lvl \in Levels :
       /\ Ratcheted(lvl) > pos.cur
       /\ \/ UNCHANGED brokerVars
          \/ \E o \in Orders : Replace(pos.stop, o, Ratcheted(lvl))
       /\ Isolated([pos EXCEPT !.ratchet = Ratcheted(lvl), !.cur = Ratcheted(lvl)], "refresh")
  /\ UNCHANGED day

RaiseStop ==
  /\ phase = "manage"
  /\ mode = "execute"
  /\ pos.status = "open"
  /\ \E lvl \in Levels :
       LET new     == Ratcheted(lvl)
           trailed == [pos EXCEPT !.ratchet = new]
       IN \/ /\ new <= pos.cur
             /\ pos' = trailed
             /\ Goto("refresh")
             /\ UNCHANGED brokerVars
          \/ /\ new > pos.cur
             /\ \E o \in Orders : /\ Replace(pos.stop, o, new)
                                  /\ pos' = [pos EXCEPT !.ratchet = new, !.stop = o, !.cur = new]
             /\ Goto("refresh")
          \/ /\ new > pos.cur             \* refused, not reached, or answer lost
             /\ \/ UNCHANGED brokerVars
                \/ \E o \in Orders : Replace(pos.stop, o, new)
             /\ Isolated(trailed, "refresh")
  /\ UNCHANGED day

\* is_market_open, read before the stops are managed, decides what follows.
AfterRefresh == {"exit", "save"}

NothingToRefresh ==
  /\ phase = "refresh"
  /\ \E ph \in AfterRefresh : Goto(ph)
  /\ UNCHANGED <<brokerVars, pos, day>>

\* Mutant of RefreshStop: the old stop is replaced at the initial level.
RefreshAtInitial ==
  /\ phase = "refresh"
  /\ pos.status = "open"
  /\ \E ph \in AfterRefresh, o \in Orders :
       /\ Replace(pos.stop, o, 1)
       /\ pos' = [pos EXCEPT !.stop = o, !.cur = 1]
       /\ Goto(ph)
  /\ UNCHANGED day

RefreshStop ==
  /\ phase = "refresh"
  /\ pos.status = "open"
  /\ \E ph \in AfterRefresh :
       \/ \E o \in Orders : /\ Replace(pos.stop, o, pos.cur)
                            /\ pos' = [pos EXCEPT !.stop = o]
                            /\ Goto(ph)
       \/ /\ \/ UNCHANGED brokerVars
             \/ \E o \in Orders : Replace(pos.stop, o, pos.cur)
          /\ Isolated(pos, ph)
  /\ UNCHANGED day

NoExit ==
  /\ phase = "exit"
  /\ Goto("enter")
  /\ UNCHANGED <<brokerVars, pos, day>>

SignalExit ==
  /\ phase = "exit"
  /\ mode = "execute"
  /\ pos.status = "open"
  /\ ClosePosition
  /\ \/ pos' = NoPos /\ Goto("enter")
     \/ Raise(pos)                        \* closed, but the answer was lost
  /\ UNCHANGED day

NoEntryNow ==
  /\ phase = "enter"
  /\ Goto("save")
  /\ UNCHANGED <<brokerVars, pos, day>>

\* every symbol checked is stale
StaleDataHalts ==
  /\ phase = "enter"
  /\ HaltUnsaved
  /\ UNCHANGED <<brokerVars, day>>

Enter ==
  /\ phase = "enter"
  /\ mode = "execute"
  /\ pos.status = "none"
  /\ \/ \E s \in Strategies :
          /\ SubmitEntry(<<day, s>>)
          /\ \/ pos' = NewPos(<<day, s>>) /\ Goto("open")
             \/ OpenFails                 \* accepted, the answer was lost
     \/ UNCHANGED brokerVars /\ OpenFails \* refused (a duplicate included)
  /\ UNCHANGED day

Save ==
  /\ phase = "save"
  /\ End(pos)
  /\ UNCHANGED <<brokerVars, halted, day>>

(***************************************************************************)
(* The phone and the operator, each under the lock.                        *)
(***************************************************************************)
PhoneOpen(t) ==
  /\ phase = "off"
  /\ ~halted
  /\ saved.status = "none"
  /\ SubmitEntry(t)
  /\ \/ /\ pos' = NewPos(t)
        /\ phase' = "open"
        /\ mode' = "phone"
        /\ UNCHANGED <<saved, snap, halted>>
     \/ UNCHANGED <<pos, saved, phase, mode, snap, halted>>   \* answer lost
  /\ UNCHANGED day

\* /close and /flatten: the record goes only when the broker confirmed
PhoneClose ==
  /\ phase = "off"
  /\ saved.status # "none"
  /\ ClosePosition
  /\ End(NoPos) \/ End(saved)
  /\ UNCHANGED <<halted, day>>

PhoneHalt ==
  /\ phase = "off"
  /\ halted' = TRUE
  /\ UNCHANGED <<brokerVars, pos, saved, phase, mode, snap, day>>

Reset ==
  /\ phase = "off"
  /\ halted' = FALSE
  /\ UNCHANGED <<brokerVars, pos, saved, phase, mode, snap, day>>

Crash ==
  /\ phase # "off"
  /\ End(saved)
  /\ UNCHANGED <<brokerVars, halted, day>>

Broker ==
  \/ \E t \in Tags : Fill(t) \/ EntryDies(t)
  \/ \E o \in Orders : StopFires(o) \/ StopLapses(o)
  \/ NextDay

Cycle ==
  \/ CycleRaises \/ SettleNothing \/ Settle \/ OpenSettleFails
  \/ AttachProtection \/ AttachRaises \/ Recheck \/ RecheckRaises
  \/ ListPositions \/ ReconcileOk \/ ReconcileHalts \/ KillSwitch
  \/ NothingToRaise \/ ShadowRatchet \/ RaiseStop
  \/ NothingToRefresh \/ RefreshStop \/ NoExit \/ SignalExit
  \/ NoEntryNow \/ StaleDataHalts \/ Enter \/ Save

Phone == (\E t \in PhoneTags : PhoneOpen(t)) \/ PhoneClose \/ PhoneHalt \/ Reset

Next == Broker \/ StartCycle \/ Cycle \/ Phone \/ Crash

Spec == Init /\ [][Next]_vars

(***************************************************************************)
(* Safety                                                                  *)
(***************************************************************************)
Records == {pos, saved}

\* A record is OPEN only with the id of a stop the broker accepted for it,
\* sized to the fill it was opened with, in memory and on disk (rule 4).
OpenHasItsStop ==
  \A p \in Records : p.status = "open" =>
    /\ p.stop \in Orders
    /\ order[p.stop].tag = p.tag
    /\ order[p.stop].qty = p.filled
    /\ p.filled > 0

\* However often protection is retried, across halts and crashes, no second
\* stop ever rests on top of the first one of the same entry.
OneStopPerEntry ==
  \A o1, o2 \in Orders :
    Working(o1) /\ Working(o2) /\ order[o1].tag = order[o2].tag => o1 = o2

\* What rests at the broker is never less protective than what the bot
\* believes, even when a replace went through and its answer was lost, or
\* when the process restarts from an older file.
RestsAtLeastCurrent ==
  \A p \in Records, o \in Orders :
    p.status # "none" /\ Working(o) /\ order[o].tag = p.tag => order[o].level >= p.cur

\* A step never lowers the level at which an entry's stop rests.
RestingStopNeverLowered ==
  [][\A o1, o2 \in Orders :
       Working(o1) /\ Working(o2)' /\ order[o1].tag = order'[o2].tag
         => order'[o2].level >= order[o1].level]_vars

\* A propose cycle places and replaces nothing at the broker.
ProposePlacesNothing ==
  [][mode = "propose" =>
       /\ \A t \in Tags : entry[t].st = "absent" => entry'[t].st = "absent"
       /\ \A o \in Orders : order[o].st = "absent" => order'[o].st = "absent"]_vars

\* No phone entry was made, and none of a cycle on a day that had one of another
\* strategy.
SoleRoute ==
  /\ \A t \in PhoneTags : entry[t].st = "absent"
  /\ \A d \in Days, s1, s2 \in Strategies :
       entry[<<d, s1>>].st # "absent" /\ entry[<<d, s2>>].st # "absent" => s1 = s2

\* Crashes, lost answers and restarts alone never make the scheduled cycle double
\* a position, within a day or over several: the coid, the DAY life of an entry
\* and the reconciler together allow one entry's shares at most.  What doubles
\* is a symbol routed to another strategy within the day its entry was lost
\* track of, or a phone entry, which brings a tag of its own.
OnlyReroutedDoubles == SoleRoute => held <= Qty

(***************************************************************************)
(* The inductive invariant behind the safety properties: what else is true *)
(* of the records, of the orders and of the phases.                        *)
(***************************************************************************)
OrdersWellFormed ==
  \A o \in Orders :
    /\ Working(o) => order[o].tag \in Tags /\ order[o].level \in Levels
    /\ order[o].st = "absent" => order[o].tag = NoTag

EntriesWellFormed ==
  \A t \in Tags : entry[t].st = "working" => entry[t].filled < Qty

\* A stop id still working rests exactly at the level the record names; a
\* stale id names an order that is gone.
RecordsWellFormed ==
  \A p \in Records :
    /\ p.status # "none" => p.tag \in Tags
    /\ p.status = "pending" => p.cur = 1
    /\ p.status = "open" /\ Working(p.stop) => order[p.stop].level = p.cur

PhasesWellFormed ==
  /\ phase = "off" => pos = saved
  /\ phase = "off" <=> mode = "none"
  /\ phase # "off" => ~halted
  /\ phase \in {"attach", "openattach"} => pos.status = "pending" /\ pos.filled > 0
  /\ phase = "open" => pos.status = "pending"
  /\ mode = "propose" => phase \in {"positions", "orders", "manage", "exit", "enter", "save"}

IInv ==
  /\ TypeOK
  /\ OrdersWellFormed
  /\ EntriesWellFormed
  /\ RecordsWellFormed
  /\ PhasesWellFormed
  /\ OpenHasItsStop
  /\ OneStopPerEntry
  /\ RestsAtLeastCurrent

\* Why a cycle enters only a flat book: an entry of an earlier day has ended, a
\* day has one entry, and what the reconciler saw can only have shrunk since.
Reconciled == {"manage", "refresh", "exit", "enter"}

NoneToday == \A s \in Strategies : entry[<<day, s>>].st = "absent"

EntersFlat ==
  SoleRoute =>
    /\ \A d \in Days, s \in Strategies : entry[<<d, s>>].st = "working" => d = day
    /\ \A d \in Days, s \in Strategies : d > day => entry[<<d, s>>].st = "absent"
    /\ held <= Qty
    /\ \A s \in Strategies : entry[<<day, s>>].st # "absent" => held <= entry[<<day, s>>].filled
    /\ NoneToday /\ phase = "orders" => held <= snap
    /\ NoneToday /\ phase \in Reconciled /\ pos.status = "none" => held = 0

(***************************************************************************)
(* Liveness.  Cron starts cycles for ever and a started process runs on;   *)
(* it does not crash for ever.  Nothing is assumed of the broker or of the *)
(* phone.                                                                  *)
(***************************************************************************)
Fairness ==
  /\ SF_vars(StartCycle)
  /\ WF_vars(Cycle)

FairSpec == Spec /\ Fairness

Naked   == held > 0 /\ ~StopResting
Exposed == held > 0 /\ ~\E o \in Orders : Working(o) /\ order[o].qty >= held

\* Crashes end: from some point on only a step of the cycle looks like one (a
\* Save that writes what is there).
CrashesEnd == <>[][Crash => Cycle]_vars

\* Shares with no resting stop at all do not go unnoticed, whatever the mode of
\* the cycles: a stop comes, the shares go, or the bot halts and says so.
NakedIsNoticed == CrashesEnd => (Naked ~> (halted \/ ~Naked))

\* Nor do the shares of an entry that no resting stop covers in full, as long as
\* cycles in execute mode keep coming and the entry is the only one.  (With a
\* stop left over from another entry, that stop is taken for protection.)
SoleEntry == Cardinality({t \in Tags : entry[t].st # "absent"}) <= 1

ExposureIsNoticed ==
  CrashesEnd /\ []<>(mode = "execute") /\ []SoleEntry
    => (Exposed ~> (halted \/ ~Exposed))

(***************************************************************************)
(* What the documents say and the code does not do                         *)
(***************************************************************************)
\* SAFEGUARDS: idempotency keys so a retry never doubles a position.  Here no
\* phone entry is made.
RetryNeverDoubles == held <= Qty

\* SAFEGUARDS: when protection fails the cycle halts.
FailedProtectionHalts == [][AttachRaises /\ mode \in Modes => halted']_vars

\* Reconciler: a filled position does not get a pass because its record is still
\* pending; here cycles in any mode keep coming.
ExposedPending == Exposed /\ saved.status = "pending"

PendingGetsNoPass == CrashesEnd => (ExposedPending ~> (halted \/ ~ExposedPending))

\* _flatten: "best-effort; resting stops still protect".
UnclosedKeepsItsStop ==
  [][phase = "manage" /\ halted' /\ held' > 0 => (StopResting => StopResting')]_vars
=============================================================================
