----------------------- MODULE OrderLifecycle_proofs -----------------------
(***************************************************************************)
(* Type correctness and safety of OrderLifecycle, for every number of      *)
(* days, strategies, phone tags, orders, shares and levels.                *)
(*                                                                         *)
(* The inductive invariant is split in two predicates that name the order  *)
(* book they speak of, so that what a change of the book does is proved    *)
(* once, for any record, and used for pos and for saved alike.             *)
(***************************************************************************)
EXTENDS OrderLifecycle, TLAPS

OrderType == [st : {"absent", "working", "gone"}, tag : Tags \cup {NoTag},
              qty : 0..Qty, level : 0..MaxLevel]

BookOk(ord) ==
  /\ ord \in [Orders -> OrderType]
  /\ \A o \in Orders :
       /\ ord[o].st = "working" => ord[o].tag \in Tags /\ ord[o].level \in Levels
       /\ ord[o].st = "absent" => ord[o].tag = NoTag
  /\ \A o1, o2 \in Orders :
       ord[o1].st = "working" /\ ord[o2].st = "working" /\ ord[o1].tag = ord[o2].tag
         => o1 = o2

RecordOk(p, ord) ==
  /\ p \in Position
  /\ p.status # "none" => p.tag \in Tags
  /\ p.status = "pending" => p.cur = 1
  /\ p.status = "open" =>
       /\ p.stop \in Orders
       /\ ord[p.stop].tag = p.tag
       /\ ord[p.stop].qty = p.filled
       /\ p.filled > 0
       /\ ord[p.stop].st = "working" => ord[p.stop].level = p.cur
  /\ p.status # "none" =>
       \A o \in Orders : ord[o].st = "working" /\ ord[o].tag = p.tag => ord[o].level >= p.cur

EntryOk ==
  /\ entry \in [Tags -> [st : {"absent", "working", "filled", "dead"}, filled : 0..Qty]]
  /\ EntriesWellFormed

ControlOk ==
  /\ held \in Nat
  /\ phase \in Phases
  /\ mode \in Modes \cup {"phone", "none"}
  /\ snap \in Nat
  /\ halted \in BOOLEAN
  /\ day \in Days
  /\ PhasesWellFormed

\* The invariant of OrderLifecycle is exactly these parts.
LEMMA IInvParts ==
  IInv <=> BookOk(order) /\ RecordOk(pos, order) /\ RecordOk(saved, order) /\ EntryOk /\ ControlOk
  BY ConstantsAssumption
     DEF IInv, TypeOK, OrdersWellFormed, EntriesWellFormed, RecordsWellFormed, Records,
         OpenHasItsStop, OneStopPerEntry, RestsAtLeastCurrent, Working,
         BookOk, RecordOk, EntryOk, ControlOk, OrderType, Position

\* Protection accepted under a coid never used before: the book stays sound,
\* every record too, and the pending record it is for becomes an open one.
LEMMA SubmitExitSound ==
  ASSUME NEW ord, BookOk(ord), NEW t \in Tags, NEW q \in 0..Qty, NEW l \in Levels,
         NEW o \in Orders, ord[o].st = "absent", \A x \in Orders : ord[x].tag # t
  PROVE  LET new == [ord EXCEPT ![o] = Resting(t, q, l)]
         IN /\ BookOk(new)
            /\ \A p : RecordOk(p, ord) => RecordOk(p, new)
            /\ \A r \in Position : r.status = "open" /\ r.tag = t /\ r.stop = o
                                      /\ q = r.filled /\ q > 0 /\ l = r.cur
                                    => RecordOk(r, new)
  <1> DEFINE new == [ord EXCEPT ![o] = Resting(t, q, l)]
  <1>1. BookOk(new)
    BY ConstantsAssumption DEF BookOk, OrderType, Resting, Levels
  <1>2. ASSUME NEW p, RecordOk(p, ord) PROVE RecordOk(p, new)
    BY <1>2, ConstantsAssumption DEF RecordOk, BookOk, OrderType, Resting, Levels, Position
  <1>3. ASSUME NEW r \in Position, r.status = "open", r.tag = t, r.stop = o,
               q = r.filled, q > 0, l = r.cur
        PROVE  RecordOk(r, new)
    BY <1>3, ConstantsAssumption DEF RecordOk, BookOk, OrderType, Resting, Levels, Position
  <1>4. QED
    BY <1>1, <1>2, <1>3

\* A replace at a level at least as protective: nothing any record says is
\* falsified, and the record that held the old id may take the new one.
LEMMA ReplaceSound ==
  ASSUME NEW ord, BookOk(ord), NEW old \in Orders, NEW o \in Orders, NEW l \in Levels,
         ord[old].st = "working", ord[o].st = "absent", l >= ord[old].level
  PROVE  LET new == [ord EXCEPT ![old].st = "gone",
                                ![o] = Resting(ord[old].tag, ord[old].qty, l)]
         IN /\ BookOk(new)
            /\ \A p : RecordOk(p, ord) => RecordOk(p, new)
            /\ \A p, r : /\ RecordOk(p, ord) /\ p.status = "open" /\ p.stop = old
                         /\ r \in Position /\ r.status = "open" /\ r.tag = p.tag
                         /\ r.filled = p.filled /\ r.stop = o /\ r.cur = l
                         => RecordOk(r, new)
  <1> DEFINE new == [ord EXCEPT ![old].st = "gone",
                                ![o] = Resting(ord[old].tag, ord[old].qty, l)]
  <1>0. /\ old # o
        /\ new \in [Orders -> OrderType]
        /\ new[o] = Resting(ord[old].tag, ord[old].qty, l)
        /\ new[old] = [ord[old] EXCEPT !.st = "gone"]
        /\ \A x \in Orders : x # o /\ x # old => new[x] = ord[x]
    BY ConstantsAssumption DEF BookOk, OrderType, Resting, Levels
  <1>1. BookOk(new)
    BY <1>0, ConstantsAssumption DEF BookOk, OrderType, Resting, Levels
  <1>2. ASSUME NEW p, RecordOk(p, ord) PROVE RecordOk(p, new)
    BY <1>0, <1>2, ConstantsAssumption DEF RecordOk, BookOk, OrderType, Resting, Levels, Position
  <1>3. ASSUME NEW p, RecordOk(p, ord), p.status = "open", p.stop = old,
               NEW r \in Position, r.status = "open", r.tag = p.tag,
               r.filled = p.filled, r.stop = o, r.cur = l
        PROVE  RecordOk(r, new)
    BY <1>0, <1>3, ConstantsAssumption DEF RecordOk, BookOk, OrderType, Resting, Levels, Position
  <1>4. QED
    BY <1>1, <1>2, <1>3

\* Orders that stop working, for any reason, falsify nothing.
LEMMA GoneSound ==
  ASSUME NEW ord, BookOk(ord), NEW new \in [Orders -> OrderType],
         \A o \in Orders :
           /\ new[o].st # ord[o].st => ord[o].st = "working" /\ new[o].st = "gone"
           /\ new[o].tag = ord[o].tag
           /\ new[o].qty = ord[o].qty
           /\ new[o].level = ord[o].level
  PROVE  /\ BookOk(new)
         /\ \A p : RecordOk(p, ord) => RecordOk(p, new)
  <1>1. BookOk(new)
    BY ConstantsAssumption DEF BookOk, OrderType
  <1>2. ASSUME NEW p, RecordOk(p, ord) PROVE RecordOk(p, new)
    BY <1>2, ConstantsAssumption DEF RecordOk, BookOk, OrderType, Position
  <1>3. QED
    BY <1>1, <1>2

\* The records a handler builds from a sound one.
LEMMA NoPosSound ==
  ASSUME NEW ord PROVE RecordOk(NoPos, ord)
  BY ConstantsAssumption DEF RecordOk, NoPos, Position

\* The record open_position creates for an entry is sound.
LEMMA NewPosSound ==
  ASSUME NEW ord, BookOk(ord), NEW t \in Tags PROVE RecordOk(NewPos(t), ord)
  BY ConstantsAssumption DEF RecordOk, BookOk, OrderType, NewPos, Position, Levels

\* settle() recording the fill of a pending record keeps it sound.
LEMMA FilledSound ==
  ASSUME NEW ord, NEW p \in Position, RecordOk(p, ord), p.status = "pending", NEW f \in 0..Qty
  PROVE  RecordOk([p EXCEPT !.filled = f], ord)
  BY ConstantsAssumption DEF RecordOk, Position

\* Moving only the ratchet keeps a record sound.
LEMMA RatchetSound ==
  ASSUME NEW ord, NEW p \in Position, RecordOk(p, ord), NEW l \in Levels
  PROVE  RecordOk([p EXCEPT !.ratchet = l], ord)
  BY ConstantsAssumption DEF RecordOk, Position, Levels

SInv == BookOk(order) /\ RecordOk(pos, order) /\ RecordOk(saved, order) /\ EntryOk /\ ControlOk

\* Nothing ordered and nothing recorded is sound.
LEMMA InitSound == Init => SInv
  <1> SUFFICES ASSUME Init PROVE SInv
    OBVIOUS
  <1>1. BookOk(order)
    BY ConstantsAssumption DEF Init, BookOk, OrderType, Unused
  <1>2. RecordOk(pos, order) /\ RecordOk(saved, order)
    BY NoPosSound DEF Init
  <1>3. EntryOk
    BY ConstantsAssumption DEF Init, EntryOk, EntriesWellFormed, NoEntry
  <1>4. ControlOk
    <2>1. PhasesWellFormed
      BY DEF Init, PhasesWellFormed
    <2>2. day \in Days
      BY ConstantsAssumption DEF Init, Days
    <2>3. held \in Nat /\ snap \in Nat /\ phase \in Phases
      BY DEF Init, Phases
    <2>4. QED
      BY <2>1, <2>2, <2>3 DEF Init, ControlOk
  <1>5. QED
    BY <1>1, <1>2, <1>3, <1>4 DEF SInv

(***************************************************************************)
(* What the broker does, to its order book and its entries.                *)
(***************************************************************************)
\* A book after some orders stopped working is sound, with every record.
BookGone(ord, new) ==
  /\ BookOk(new)
  /\ \A p : RecordOk(p, ord) => RecordOk(p, new)

\* Cancelling every working order keeps every record sound: its stop id goes
\* stale.
LEMMA CancelledSound ==
  ASSUME BookOk(order) PROVE BookGone(order, Cancelled)
  <1>1. Cancelled \in [Orders -> OrderType]
    BY DEF Cancelled, Working, BookOk, OrderType
  <1>2. \A o \in Orders :
           /\ Cancelled[o].st # order[o].st => order[o].st = "working" /\ Cancelled[o].st = "gone"
           /\ Cancelled[o].tag = order[o].tag
           /\ Cancelled[o].qty = order[o].qty
           /\ Cancelled[o].level = order[o].level
    BY DEF Cancelled, Working, BookOk, OrderType
  <1>3. QED
    BY <1>1, <1>2, GoneSound DEF BookGone

\* One protective order that fires or lapses keeps every record sound.
LEMMA OneGoneSound ==
  ASSUME BookOk(order), NEW o \in Orders, Working(o)
  PROVE  BookGone(order, [order EXCEPT ![o].st = "gone"])
  <1> DEFINE new == [order EXCEPT ![o].st = "gone"]
  <1>1. new \in [Orders -> OrderType]
    BY DEF BookOk, OrderType
  <1>2. \A x \in Orders :
           /\ new[x].st # order[x].st => order[x].st = "working" /\ new[x].st = "gone"
           /\ new[x].tag = order[x].tag
           /\ new[x].qty = order[x].qty
           /\ new[x].level = order[x].level
    BY DEF Working, BookOk, OrderType
  <1>3. QED
    BY <1>1, <1>2, GoneSound DEF BookGone

\* Working entries cancelled with a close keep their fills.
LEMMA KilledSound ==
  ASSUME EntryOk PROVE entry' = Killed => EntryOk'
  BY DEF EntryOk, EntriesWellFormed, Killed

\* A broker event between two calls keeps the invariant.
LEMMA BrokerStep == SInv /\ Broker => SInv'
  <1> SUFFICES ASSUME SInv, Broker PROVE SInv'
    OBVIOUS
  <1>1. CASE \E t \in Tags : Fill(t)
    <2>1. EntryOk'
      BY <1>1, ConstantsAssumption DEF Fill, SInv, EntryOk, EntriesWellFormed
    <2>2. ControlOk'
      BY <1>1 DEF Fill, SInv, ControlOk, PhasesWellFormed, botVars
    <2>3. QED
      BY <1>1, <2>1, <2>2 DEF Fill, SInv, botVars
  <1>2. CASE \E t \in Tags : EntryDies(t)
    <2>1. EntryOk'
      BY <1>2, ConstantsAssumption DEF EntryDies, SInv, EntryOk, EntriesWellFormed
    <2>2. ControlOk'
      BY <1>2 DEF EntryDies, SInv, ControlOk, PhasesWellFormed, botVars
    <2>3. QED
      BY <1>2, <2>1, <2>2 DEF EntryDies, SInv, botVars
  <1>3. CASE \E o \in Orders : StopFires(o) \/ StopLapses(o)
    <2>1. PICK o \in Orders : StopFires(o) \/ StopLapses(o)
      BY <1>3
    <2>2. BookGone(order, order')
      BY <2>1, OneGoneSound DEF SInv, StopFires, StopLapses
    <2>3. EntryOk'
      BY <2>1 DEF StopFires, StopLapses, SInv, EntryOk, EntriesWellFormed
    <2>4. ControlOk'
      BY <2>1 DEF StopFires, StopLapses, SInv, ControlOk, BookOk, OrderType, PhasesWellFormed, botVars
    <2>5. QED
      BY <2>1, <2>2, <2>3, <2>4 DEF SInv, BookGone, StopFires, StopLapses, botVars
  <1>4. CASE NextDay
    <2>1. EntryOk'
      BY <1>4 DEF NextDay, brokerVars, SInv, EntryOk, EntriesWellFormed
    <2>2. ControlOk'
      BY <1>4, ConstantsAssumption
         DEF NextDay, brokerVars, SInv, ControlOk, PhasesWellFormed, Days
    <2>3. QED
      BY <1>4, <2>1, <2>2 DEF NextDay, brokerVars, SInv
  <1>5. QED
    BY <1>1, <1>2, <1>3, <1>4 DEF Broker

(***************************************************************************)
(* What a call does at the broker, whoever makes it.                       *)
(***************************************************************************)
BrokerSound ==
  /\ BookOk(order')
  /\ \A p : RecordOk(p, order) => RecordOk(p, order')
  /\ EntryOk'
  /\ held' \in Nat

\* A step that calls nothing that changes the broker leaves the book sound.
LEMMA NoCallSound == SInv /\ UNCHANGED brokerVars => BrokerSound
  BY DEF SInv, brokerVars, BrokerSound, EntryOk, EntriesWellFormed, ControlOk

\* An accepted entry leaves the protective orders as they were.
LEMMA SubmitEntrySound ==
  ASSUME SInv, NEW t \in Tags, SubmitEntry(t) PROVE BrokerSound
  <1>1. EntryOk'
    BY ConstantsAssumption DEF SInv, SubmitEntry, EntryOk, EntriesWellFormed
  <1>2. QED
    BY <1>1 DEF SInv, SubmitEntry, BrokerSound, ControlOk

\* A close or a sweep of the open orders leaves the book sound.
LEMMA CloseSound == SInv /\ (ClosePosition \/ CancelOpenOrders) => BrokerSound
  <1> SUFFICES ASSUME SInv, ClosePosition \/ CancelOpenOrders PROVE BrokerSound
    OBVIOUS
  <1>1. order' = Cancelled /\ entry' = Killed /\ held' \in Nat
    BY DEF ClosePosition, CancelOpenOrders, SInv, ControlOk
  <1>2. QED
    BY <1>1, CancelledSound, KilledSound DEF SInv, BookGone, BrokerSound

\* Protection submitted for the pending record: with or without the answer.
LEMMA AttachSound ==
  ASSUME SInv, NEW o \in Orders, SubmitExit(o, pos.tag, pos.filled, pos.cur),
         pos.status = "pending", pos.filled > 0
  PROVE  /\ BrokerSound
         /\ RecordOk([pos EXCEPT !.stop = o, !.status = "open"], order')
  <1> DEFINE r == [pos EXCEPT !.stop = o, !.status = "open"]
  <1>1. /\ BookOk(order)
        /\ pos \in Position
        /\ pos.tag \in Tags
        /\ pos.filled \in 0..Qty
        /\ pos.cur \in Levels
        /\ order[o].st = "absent"
        /\ \A x \in Orders : order[x].tag # pos.tag
    BY ConstantsAssumption
       DEF SInv, RecordOk, Position, Levels, SubmitExit, Fresh, CoidUsed
  <1>2. order' = [order EXCEPT ![o] = Resting(pos.tag, pos.filled, pos.cur)]
    BY DEF SubmitExit
  <1>3. BookOk(order') /\ \A p : RecordOk(p, order) => RecordOk(p, order')
    BY <1>1, <1>2, SubmitExitSound
  <1>4. /\ r \in Position /\ r.status = "open" /\ r.tag = pos.tag /\ r.stop = o
        /\ r.filled = pos.filled /\ r.cur = pos.cur
    BY <1>1 DEF Position
  <1>5. RecordOk(r, order')
    BY <1>1, <1>2, <1>4, SubmitExitSound
  <1>6. EntryOk' /\ held' \in Nat
    BY DEF SubmitExit, SInv, EntryOk, EntriesWellFormed, ControlOk
  <1>7. QED
    BY <1>3, <1>5, <1>6 DEF BrokerSound

\* The stop replaced at a level no lower than the record's, with or without
\* the answer.  The old order was still working, so it rested at pos.cur.
LEMMA ReplaceStopSound ==
  ASSUME SInv, NEW o \in Orders, NEW l \in Levels, l >= pos.cur,
         Replace(pos.stop, o, l), pos.status = "open"
  PROVE  /\ BrokerSound
         /\ \A r \in Position : /\ r.status = "open" /\ r.tag = pos.tag
                               /\ r.filled = pos.filled /\ r.stop = o /\ r.cur = l
                               => RecordOk(r, order')
  <1>1. /\ BookOk(order)
        /\ pos \in Position
        /\ pos.stop \in Orders
        /\ order[pos.stop].st = "working"
        /\ order[o].st = "absent"
        /\ l >= order[pos.stop].level
    BY DEF SInv, RecordOk, Replace, Working, Fresh
  <1>2. order' = [order EXCEPT ![pos.stop].st = "gone",
                               ![o] = Resting(order[pos.stop].tag, order[pos.stop].qty, l)]
    BY DEF Replace
  <1>3. BookOk(order') /\ \A p : RecordOk(p, order) => RecordOk(p, order')
    BY <1>1, <1>2, ReplaceSound
  <1>4. \A r \in Position : /\ r.status = "open" /\ r.tag = pos.tag
                            /\ r.filled = pos.filled /\ r.stop = o /\ r.cur = l
                            => RecordOk(r, order')
    BY <1>1, <1>2, ReplaceSound DEF SInv
  <1>5. EntryOk' /\ held' \in Nat
    BY DEF Replace, SInv, EntryOk, EntriesWellFormed, ControlOk
  <1>6. QED
    BY <1>3, <1>4, <1>5 DEF BrokerSound

\* A lock holder that ends leaves a sound file when what it wrote is sound.
LEMMA EndSound ==
  ASSUME SInv, BrokerSound, UNCHANGED day, halted' \in BOOLEAN,
         NEW p, RecordOk(p, order), End(p)
  PROVE  SInv'
  <1>1. RecordOk(pos', order') /\ RecordOk(saved', order')
    BY DEF End, BrokerSound
  <1>2. PhasesWellFormed'
    BY DEF End, PhasesWellFormed
  <1>3. ControlOk'
    BY <1>2 DEF End, ControlOk, BrokerSound, SInv, Phases
  <1>4. QED
    BY <1>1, <1>3 DEF SInv, BrokerSound

\* The exception handler writes the record it has: memory and file agree.
LEMMA RaiseSound ==
  ASSUME SInv, BrokerSound, UNCHANGED day, NEW p, RecordOk(p, order), Raise(p)
  PROVE  SInv'
  BY EndSound DEF Raise

\* A failed open drops the record and keeps what was saved.
LEMMA OpenFailsSound ==
  ASSUME SInv, BrokerSound, UNCHANGED day, OpenFails, phase # "off", mode # "propose"
  PROVE  SInv'
  <1>1. CASE mode = "phone" /\ End(saved) /\ UNCHANGED halted
    BY <1>1, EndSound DEF SInv, ControlOk
  <1>2. CASE Raise(NoPos)
    BY <1>2, NoPosSound, RaiseSound
  <1>3. CASE mode # "phone" /\ pos' = NoPos /\ Goto("save")
    <2>1. RecordOk(pos', order') /\ RecordOk(saved', order')
      BY <1>3, NoPosSound DEF Goto, BrokerSound, SInv
    <2>2. PhasesWellFormed'
      BY <1>3 DEF Goto, SInv, ControlOk, PhasesWellFormed
    <2>3. ControlOk'
      BY <1>3, <2>2 DEF Goto, SInv, ControlOk, BrokerSound, Phases
    <2>4. QED
      BY <2>1, <2>3 DEF SInv, BrokerSound
  <1>4. QED
    BY <1>1, <1>2, <1>3 DEF OpenFails, Isolated

\* A cycle or phone step that goes on, with a sound record, to a phase its
\* mode allows.
LEMMA GotoSound ==
  ASSUME SInv, BrokerSound, UNCHANGED day, NEW ph \in Phases \ {"off"}, Goto(ph),
         RecordOk(pos', order'),
         phase # "off",
         ph \in {"attach", "openattach"} => pos'.status = "pending" /\ pos'.filled > 0,
         ph = "open" => pos'.status = "pending",
         mode = "propose" => ph \in {"positions", "orders", "manage", "exit", "enter", "save"}
  PROVE  SInv'
  <1>1. RecordOk(saved', order')
    BY DEF Goto, BrokerSound, SInv
  <1>2. PhasesWellFormed'
    BY DEF Goto, SInv, ControlOk, PhasesWellFormed
  <1>3. ControlOk'
    BY <1>2 DEF Goto, SInv, ControlOk, BrokerSound
  <1>4. QED
    BY <1>1, <1>3 DEF SInv, BrokerSound

\* A propose cycle never reaches the phases that call for an order.
LEMMA ProposePhases ==
  SInv /\ mode = "propose" => phase \in {"positions", "orders", "manage", "exit", "enter", "save"}
  BY DEF SInv, ControlOk, PhasesWellFormed

(***************************************************************************)
(* The actions of the cycle.                                               *)
(***************************************************************************)
LEMMA SettleStep == SInv /\ Settle => SInv'
  <1> SUFFICES ASSUME SInv, Settle PROVE SInv'
    OBVIOUS
  <1> DEFINE e == entry[pos.tag]
             done == IF phase = "settle" THEN "recheck" ELSE "save"
  <1>1. BrokerSound /\ order' = order /\ UNCHANGED day
    BY NoCallSound DEF Settle, brokerVars
  <1>2. /\ pos \in Position /\ RecordOk(pos, order) /\ pos.status = "pending"
        /\ pos.tag \in Tags /\ e.filled \in 0..Qty
        /\ phase \in {"settle", "open"} /\ mode # "propose" /\ phase # "off"
    BY ProposePhases DEF Settle, SInv, RecordOk, EntryOk
  <1>3. CASE /\ e.filled > 0
             /\ pos' = [pos EXCEPT !.filled = e.filled]
             /\ Goto(IF phase = "settle" THEN "attach" ELSE "openattach")
    <2>1. RecordOk(pos', order')
      BY <1>1, <1>2, <1>3, FilledSound
    <2>2. pos'.status = "pending" /\ pos'.filled > 0
      BY <1>2, <1>3 DEF Position
    <2>3. QED
      BY <1>1, <1>2, <1>3, <2>1, <2>2, GotoSound DEF Phases
  <1>4. CASE pos' = NoPos /\ Goto(done)
    BY <1>1, <1>2, <1>4, NoPosSound, GotoSound DEF Phases
  <1>5. CASE pos' = pos /\ Goto(done)
    BY <1>1, <1>2, <1>5, GotoSound DEF Phases
  <1>6. QED
    BY <1>3, <1>4, <1>5 DEF Settle

\* _attach_protection keeps the invariant, whether it succeeds or raises.
LEMMA AttachStep == SInv /\ (AttachProtection \/ AttachRaises) => SInv'
  <1> SUFFICES ASSUME SInv, AttachProtection \/ AttachRaises PROVE SInv'
    OBVIOUS
  <1>1. /\ phase \in {"attach", "openattach"} /\ mode # "propose" /\ phase # "off"
        /\ pos.status = "pending" /\ pos.filled > 0 /\ UNCHANGED day
        /\ RecordOk(pos, order)
    BY ProposePhases DEF AttachProtection, AttachRaises, SInv, ControlOk, PhasesWellFormed
  <1>2. CASE AttachProtection
    <2>1. PICK o \in Orders : /\ SubmitExit(o, pos.tag, pos.filled, pos.cur)
                              /\ pos' = [pos EXCEPT !.stop = o, !.status = "open"]
      BY <1>2 DEF AttachProtection
    <2>2. BrokerSound /\ RecordOk(pos', order')
      BY <1>1, <2>1, AttachSound
    <2>3. QED
      BY <1>1, <1>2, <2>2, GotoSound DEF AttachProtection, Phases
  <1>3. CASE AttachRaises
    <2>1. BrokerSound
      BY <1>1, <1>3, NoCallSound, AttachSound DEF AttachRaises
    <2>2. CASE Raise(pos)
      BY <1>1, <2>1, <2>2, RaiseSound
    <2>3. CASE OpenFails
      BY <1>1, <2>1, <2>3, OpenFailsSound
    <2>4. QED
      BY <1>3, <2>2, <2>3 DEF AttachRaises
  <1>4. QED
    BY <1>2, <1>3

\* The steps that call nothing and keep the record: they raise, halt, go on
\* or drop the record of a position that is gone.
LEMMA ReadStep ==
  SInv /\ (\/ CycleRaises \/ SettleNothing \/ OpenSettleFails \/ Recheck \/ RecheckRaises
           \/ ReconcileOk \/ ReconcileHalts \/ NothingToRaise \/ NothingToRefresh
           \/ NoExit \/ NoEntryNow \/ StaleDataHalts \/ Save \/ Crash)
    => SInv'
  <1> SUFFICES ASSUME SInv,
                      \/ CycleRaises \/ SettleNothing \/ OpenSettleFails \/ Recheck \/ RecheckRaises
                      \/ ReconcileOk \/ ReconcileHalts \/ NothingToRaise \/ NothingToRefresh
                      \/ NoExit \/ NoEntryNow \/ StaleDataHalts \/ Save \/ Crash
               PROVE  SInv'
    OBVIOUS
  <1>1. UNCHANGED brokerVars /\ UNCHANGED day
    BY DEF CycleRaises, SettleNothing, OpenSettleFails, Recheck, RecheckRaises, ReconcileOk,
           ReconcileHalts, NothingToRaise, NothingToRefresh, NoExit, NoEntryNow,
           StaleDataHalts, Save, Crash, brokerVars
  <1>2. BrokerSound /\ order' = order
    BY <1>1, NoCallSound DEF brokerVars
  <1>3. RecordOk(pos, order) /\ RecordOk(saved, order) /\ RecordOk(NoPos, order)
        /\ halted \in BOOLEAN
    BY NoPosSound DEF SInv, ControlOk
  <1>4. CASE CycleRaises \/ RecheckRaises
    BY <1>1, <1>2, <1>3, <1>4, RaiseSound DEF CycleRaises, RecheckRaises
  <1>5. CASE ReconcileHalts \/ StaleDataHalts
    BY <1>1, <1>2, <1>3, <1>5, EndSound DEF ReconcileHalts, StaleDataHalts, HaltUnsaved
  <1>6. CASE Save \/ Crash
    BY <1>1, <1>2, <1>3, <1>6, EndSound DEF Save, Crash
  <1>7. CASE OpenSettleFails
    BY <1>1, <1>2, <1>7, OpenFailsSound, ProposePhases DEF OpenSettleFails
  <1>8. CASE SettleNothing \/ Recheck
    BY <1>1, <1>2, <1>3, <1>8, GotoSound, ProposePhases DEF SettleNothing, Recheck, Phases
  <1>9. CASE ReconcileOk
    BY <1>1, <1>2, <1>3, <1>9, GotoSound DEF ReconcileOk, Phases
  <1>10. CASE NothingToRaise
    BY <1>1, <1>2, <1>3, <1>10, GotoSound DEF NothingToRaise, AfterManage, Phases
  <1>11. CASE NothingToRefresh \/ NoExit \/ NoEntryNow
    BY <1>1, <1>2, <1>3, <1>11, GotoSound
       DEF NothingToRefresh, AfterRefresh, NoExit, NoEntryNow, Phases
  <1>12. QED
    BY <1>4, <1>5, <1>6, <1>7, <1>8, <1>9, <1>10, <1>11

\* reconcile()'s first read keeps the invariant.
LEMMA ListPositionsStep == SInv /\ ListPositions => SInv'
  <1> SUFFICES ASSUME SInv, ListPositions PROVE SInv'
    OBVIOUS
  <1>1. BrokerSound
    BY NoCallSound DEF ListPositions
  <1>2. PhasesWellFormed'
    BY DEF ListPositions, SInv, ControlOk, PhasesWellFormed
  <1>3. ControlOk'
    BY <1>1, <1>2 DEF ListPositions, SInv, ControlOk, BrokerSound, Phases
  <1>4. QED
    BY <1>1, <1>3 DEF ListPositions, SInv, BrokerSound

\* _flatten and the kill-switch halt keep the invariant.
LEMMA KillSwitchStep == SInv /\ KillSwitch => SInv'
  <1> SUFFICES ASSUME SInv, KillSwitch PROVE SInv'
    OBVIOUS
  <1>1. BrokerSound
    BY NoCallSound, CloseSound DEF KillSwitch
  <1>2. QED
    BY <1>1, EndSound DEF KillSwitch, HaltUnsaved, SInv

\* The advanced ratchet is a protective level, at least the old one.
LEMMA RatchetedInLevels ==
  ASSUME NEW l \in Levels, pos \in Position PROVE Ratcheted(l) \in 0..MaxLevel /\ Ratcheted(l) \in Levels
  BY ConstantsAssumption DEF Ratcheted, Levels, Position

\* The shadow ratchet of a propose cycle keeps the invariant.
LEMMA ShadowRatchetStep == SInv /\ ShadowRatchet => SInv'
  <1> SUFFICES ASSUME SInv, ShadowRatchet PROVE SInv'
    OBVIOUS
  <1>1. BrokerSound /\ order' = order /\ UNCHANGED day
    BY NoCallSound DEF ShadowRatchet, brokerVars
  <1>2. PICK l \in Levels : pos' = [pos EXCEPT !.ratchet = Ratcheted(l)]
    BY DEF ShadowRatchet
  <1>3. RecordOk(pos', order')
    BY <1>1, <1>2, RatchetSound, RatchetedInLevels DEF SInv, RecordOk
  <1>4. QED
    BY <1>1, <1>3, GotoSound DEF ShadowRatchet, AfterManage, Phases

\* raise_stop keeps the invariant: done, not needed, failed or answer lost.
LEMMA RaiseStopStep == SInv /\ RaiseStop => SInv'
  <1> SUFFICES ASSUME SInv, RaiseStop PROVE SInv'
    OBVIOUS
  <1>1. /\ pos \in Position /\ RecordOk(pos, order) /\ pos.status = "open"
        /\ phase = "manage" /\ mode = "execute" /\ UNCHANGED day
    BY DEF RaiseStop, SInv, RecordOk
  <1>a. pos.cur \in Nat
    BY <1>1, ConstantsAssumption DEF Position
  <1>b. PICK lvl \in Levels :
        LET new     == Ratcheted(lvl)
            trailed == [pos EXCEPT !.ratchet = new]
        IN \/ /\ new <= pos.cur
              /\ pos' = trailed
              /\ Goto("refresh")
              /\ UNCHANGED brokerVars
           \/ /\ new > pos.cur
              /\ \E o \in Orders : /\ Replace(pos.stop, o, new)
                                   /\ pos' = [pos EXCEPT !.ratchet = new, !.stop = o, !.cur = new]
              /\ Goto("refresh")
           \/ /\ new > pos.cur
              /\ \/ UNCHANGED brokerVars
                 \/ \E o \in Orders : Replace(pos.stop, o, new)
              /\ Isolated(trailed, "refresh")
    BY DEF RaiseStop
  <1> DEFINE new     == Ratcheted(lvl)
             trailed == [pos EXCEPT !.ratchet = new]
  <1>c. new \in Levels /\ new \in Nat
    <2>1. new \in Levels
      BY <1>1, RatchetedInLevels
    <2>2. QED
      BY <2>1 DEF Levels
  <1>2. RecordOk(trailed, order)
    BY <1>1, <1>c, RatchetSound
  <1> HIDE DEF new
  <1>3. CASE pos' = trailed /\ Goto("refresh") /\ UNCHANGED brokerVars
    <2>1. BrokerSound /\ order' = order
      BY <1>3, NoCallSound DEF brokerVars
    <2>2. QED
      BY <1>1, <1>2, <1>3, <2>1, GotoSound DEF Phases
  <1>4. CASE /\ new > pos.cur
             /\ \E o \in Orders : /\ Replace(pos.stop, o, new)
                                  /\ pos' = [pos EXCEPT !.ratchet = new, !.stop = o, !.cur = new]
             /\ Goto("refresh")
    <2>1. PICK o \in Orders : /\ Replace(pos.stop, o, new)
                              /\ pos' = [pos EXCEPT !.ratchet = new, !.stop = o, !.cur = new]
      BY <1>4
    <2>2. new >= pos.cur
      <3>1. new > pos.cur
        BY <1>4
      <3>2. QED
        BY <1>a, <1>c, <3>1
    <2>3. /\ pos' \in Position /\ pos'.status = "open" /\ pos'.tag = pos.tag
          /\ pos'.filled = pos.filled /\ pos'.stop = o /\ pos'.cur = new
      <3>1. pos' = [status |-> pos.status, tag |-> pos.tag, filled |-> pos.filled,
                    stop |-> o, cur |-> new, ratchet |-> new]
        BY <1>1, <2>1 DEF Position
      <3>2. new \in 0..MaxLevel
        BY <1>c DEF Levels
      <3>3. QED
        BY <1>1, <3>1, <3>2 DEF Position
    <2>4. BrokerSound /\ RecordOk(pos', order')
      BY <1>1, <1>c, <2>1, <2>2, <2>3, ReplaceStopSound
    <2>5. QED
      BY <1>1, <1>4, <2>4, GotoSound DEF Phases
  <1>5. CASE /\ new > pos.cur
             /\ \/ UNCHANGED brokerVars
                \/ \E o \in Orders : Replace(pos.stop, o, new)
             /\ Isolated(trailed, "refresh")
    <2>1. new >= pos.cur
      <3>1. new > pos.cur
        BY <1>5
      <3>2. QED
        BY <1>a, <1>c, <3>1
    <2>2. BrokerSound
      BY <1>1, <1>c, <1>5, <2>1, NoCallSound, ReplaceStopSound
    <2>3. CASE pos' = trailed /\ Goto("refresh")
      <3>1. RecordOk(pos', order')
        BY <1>2, <2>2, <2>3 DEF BrokerSound
      <3>2. QED
        BY <1>1, <2>2, <2>3, <3>1, GotoSound DEF Phases
    <2>4. CASE Raise(trailed)
      BY <1>1, <1>2, <2>2, <2>4, RaiseSound
    <2>5. QED
      BY <1>5, <2>3, <2>4 DEF Isolated
  <1>6. QED
    BY <1>b, <1>3, <1>4, <1>5 DEF new

\* refresh_stale_stop keeps the invariant, also when its answer is lost.
LEMMA RefreshStopStep == SInv /\ RefreshStop => SInv'
  <1> SUFFICES ASSUME SInv, RefreshStop PROVE SInv'
    OBVIOUS
  <1>1. /\ pos \in Position /\ RecordOk(pos, order) /\ pos.status = "open"
        /\ phase = "refresh" /\ mode # "propose" /\ UNCHANGED day
    BY ProposePhases DEF RefreshStop, SInv, RecordOk
  <1>2. PICK ph \in AfterRefresh :
          \/ \E o \in Orders : /\ Replace(pos.stop, o, pos.cur)
                               /\ pos' = [pos EXCEPT !.stop = o]
                               /\ Goto(ph)
          \/ /\ \/ UNCHANGED brokerVars
                \/ \E o \in Orders : Replace(pos.stop, o, pos.cur)
             /\ Isolated(pos, ph)
    BY DEF RefreshStop
  <1>3. ph \in Phases \ {"off"} /\ ph \in {"exit", "save"}
    BY DEF AfterRefresh, Phases
  \* a working stop of an open record rests at cur, which is a level
  <1>4. ASSUME NEW o \in Orders, Replace(pos.stop, o, pos.cur)
        PROVE  /\ BrokerSound
               /\ RecordOk([pos EXCEPT !.stop = o], order')
    <2>1. pos.cur \in Levels /\ pos.cur >= pos.cur
      BY <1>1, <1>4 DEF SInv, RecordOk, BookOk, Replace, Working, Levels
    <2>2. LET r == [pos EXCEPT !.stop = o]
          IN r \in Position /\ r.status = "open" /\ r.tag = pos.tag
             /\ r.filled = pos.filled /\ r.stop = o /\ r.cur = pos.cur
      BY <1>1 DEF Position
    <2>3. QED
      BY <1>1, <1>4, <2>1, <2>2, ReplaceStopSound
  <1>5. CASE \E o \in Orders : /\ Replace(pos.stop, o, pos.cur)
                              /\ pos' = [pos EXCEPT !.stop = o]
                              /\ Goto(ph)
    BY <1>1, <1>3, <1>4, <1>5, GotoSound
  <1>6. CASE /\ \/ UNCHANGED brokerVars
                \/ \E o \in Orders : Replace(pos.stop, o, pos.cur)
             /\ Isolated(pos, ph)
    <2>1. BrokerSound
      BY <1>4, <1>6, NoCallSound
    <2>2. CASE pos' = pos /\ Goto(ph)
      <3>1. RecordOk(pos', order')
        BY <1>1, <2>1, <2>2 DEF BrokerSound
      <3>2. QED
        BY <1>1, <1>3, <2>1, <2>2, <3>1, GotoSound
    <2>3. CASE Raise(pos)
      BY <1>1, <2>1, <2>3, RaiseSound
    <2>4. QED
      BY <1>6, <2>2, <2>3 DEF Isolated
  <1>7. QED
    BY <1>2, <1>5, <1>6

\* An exit on a signal keeps the invariant, also when its answer is lost.
LEMMA SignalExitStep == SInv /\ SignalExit => SInv'
  <1> SUFFICES ASSUME SInv, SignalExit PROVE SInv'
    OBVIOUS
  <1>1. /\ BrokerSound /\ phase # "off" /\ UNCHANGED day
        /\ RecordOk(pos, order) /\ mode # "propose"
    BY CloseSound DEF SignalExit, SInv
  <1>2. CASE pos' = NoPos /\ Goto("enter")
    BY <1>1, <1>2, NoPosSound, GotoSound DEF Phases
  <1>3. CASE Raise(pos)
    BY <1>1, <1>3, RaiseSound
  <1>4. QED
    BY <1>2, <1>3 DEF SignalExit

\* The day of a cycle, with a strategy, is a tag an entry may carry.
LEMMA DayIsATag == SInv => \A s \in Strategies : <<day, s>> \in Tags
  BY DEF SInv, ControlOk, Tags

\* _consider_entry keeps the invariant: accepted, refused or answer lost.
LEMMA EnterStep == SInv /\ Enter => SInv'
  <1> SUFFICES ASSUME SInv, Enter PROVE SInv'
    OBVIOUS
  <1>1. phase # "off" /\ mode # "propose" /\ UNCHANGED day
    BY DEF Enter
  <1>2. CASE \E s \in Strategies :
               SubmitEntry(<<day, s>>) /\ ((pos' = NewPos(<<day, s>>) /\ Goto("open")) \/ OpenFails)
    <2>1. PICK s \in Strategies :
            SubmitEntry(<<day, s>>) /\ ((pos' = NewPos(<<day, s>>) /\ Goto("open")) \/ OpenFails)
      BY <1>2
    <2> DEFINE t == <<day, s>>
    <2>2. t \in Tags /\ SubmitEntry(t)
      BY <2>1, DayIsATag
    <2> HIDE DEF t
    <2>3. CASE pos' = NewPos(t) /\ Goto("open")
      <3>1. BrokerSound
        BY <2>2, SubmitEntrySound
      <3>2. RecordOk(pos', order')
        BY <2>2, <2>3, <3>1, NewPosSound DEF BrokerSound
      <3>3. pos'.status = "pending"
        BY <2>3 DEF NewPos
      <3>4. QED
        BY <1>1, <2>3, <3>1, <3>2, <3>3, GotoSound DEF Phases
    <2>4. CASE OpenFails
      BY <1>1, <2>2, <2>4, SubmitEntrySound, OpenFailsSound
    <2>5. QED
      BY <2>1, <2>3, <2>4 DEF t
  <1>3. CASE UNCHANGED brokerVars /\ OpenFails
    BY <1>1, <1>3, NoCallSound, OpenFailsSound
  <1>4. QED
    BY <1>2, <1>3 DEF Enter

\* Starting a cycle, executing or proposing, keeps the invariant.
LEMMA StartCycleStep == SInv /\ StartCycle => SInv'
  <1> SUFFICES ASSUME SInv, StartCycle PROVE SInv'
    OBVIOUS
  <1>1. BrokerSound /\ order' = order
    BY NoCallSound DEF StartCycle, brokerVars
  <1>2. PICK m \in Modes : /\ mode' = m
                           /\ phase' = IF m = "execute" THEN "settle" ELSE "positions"
    BY DEF StartCycle
  <1>3. m \in {"execute", "propose"} /\ phase' \in {"settle", "positions"}
        /\ (mode' = "propose" => phase' = "positions")
    BY <1>2, ConstantsAssumption
  <1>4. PhasesWellFormed'
    BY <1>2, <1>3 DEF StartCycle, PhasesWellFormed
  <1>5. ControlOk'
    BY <1>1, <1>2, <1>3, <1>4 DEF StartCycle, SInv, ControlOk, BrokerSound, Phases
  <1>6. QED
    BY <1>1, <1>5 DEF StartCycle, SInv, BrokerSound

\* A phone entry keeps the invariant.
LEMMA PhoneOpenStep == ASSUME SInv, NEW t \in PhoneTags, PhoneOpen(t) PROVE SInv'
  <1>1. t \in Tags /\ BrokerSound
    BY SubmitEntrySound DEF PhoneOpen, Tags
  <1>2. CASE /\ pos' = NewPos(t)
             /\ phase' = "open"
             /\ mode' = "phone"
             /\ UNCHANGED <<saved, snap, halted>>
    <2>1. RecordOk(pos', order') /\ RecordOk(saved', order')
      BY <1>1, <1>2, NewPosSound DEF BrokerSound, SInv
    <2>2. PhasesWellFormed'
      BY <1>2 DEF PhoneOpen, PhasesWellFormed, NewPos
    <2>3. ControlOk'
      BY <1>1, <1>2, <2>2 DEF PhoneOpen, SInv, ControlOk, BrokerSound, Phases
    <2>4. QED
      BY <1>1, <2>1, <2>3 DEF SInv, BrokerSound
  <1>3. CASE UNCHANGED <<pos, saved, phase, mode, snap, halted>>
    <2>1. RecordOk(pos', order') /\ RecordOk(saved', order')
      BY <1>1, <1>3 DEF BrokerSound, SInv
    <2>2. ControlOk'
      BY <1>1, <1>3 DEF PhoneOpen, SInv, ControlOk, BrokerSound, PhasesWellFormed
    <2>3. QED
      BY <1>1, <2>1, <2>2 DEF SInv, BrokerSound
  <1>4. QED
    BY <1>2, <1>3 DEF PhoneOpen

\* /close, /flatten, /halt and /reset keep the invariant.
LEMMA PhoneStep == SInv /\ (PhoneClose \/ PhoneHalt \/ Reset) => SInv'
  <1> SUFFICES ASSUME SInv, PhoneClose \/ PhoneHalt \/ Reset PROVE SInv'
    OBVIOUS
  <1>1. CASE PhoneClose
    <2>1. BrokerSound /\ UNCHANGED day /\ halted' \in BOOLEAN
      BY <1>1, CloseSound DEF PhoneClose, SInv, ControlOk
    <2>2. RecordOk(NoPos, order) /\ RecordOk(saved, order)
      BY NoPosSound DEF SInv
    <2>3. QED
      BY <1>1, <2>1, <2>2, EndSound DEF PhoneClose
  <1>2. CASE PhoneHalt \/ Reset
    <2>1. BrokerSound /\ order' = order
      BY <1>2, NoCallSound DEF PhoneHalt, Reset, brokerVars
    <2>2. PhasesWellFormed'
      BY <1>2 DEF PhoneHalt, Reset, SInv, ControlOk, PhasesWellFormed
    <2>3. halted' \in BOOLEAN
      BY <1>2 DEF PhoneHalt, Reset
    <2>4. ControlOk'
      BY <1>2, <2>1, <2>2, <2>3 DEF PhoneHalt, Reset, SInv, ControlOk, BrokerSound
    <2>5. QED
      BY <1>2, <2>1, <2>4 DEF PhoneHalt, Reset, SInv, BrokerSound
  <1>3. QED
    BY <1>1, <1>2

\* Every step keeps the invariant.
LEMMA StepSound == SInv /\ [Next]_vars => SInv'
  <1> SUFFICES ASSUME SInv, [Next]_vars PROVE SInv'
    OBVIOUS
  <1>1. CASE Broker
    BY <1>1, BrokerStep
  <1>2. CASE StartCycle
    BY <1>2, StartCycleStep
  <1>3. CASE Cycle
    BY <1>3, SettleStep, AttachStep, ReadStep, ListPositionsStep, KillSwitchStep,
       ShadowRatchetStep, RaiseStopStep, RefreshStopStep, SignalExitStep, EnterStep
       DEF Cycle
  <1>4. CASE Phone
    BY <1>4, PhoneOpenStep, PhoneStep DEF Phone
  <1>5. CASE Crash
    BY <1>5, ReadStep
  <1>6. CASE UNCHANGED vars
    BY <1>6 DEF vars, SInv, EntryOk, EntriesWellFormed, ControlOk, PhasesWellFormed
  <1>7. QED
    BY <1>1, <1>2, <1>3, <1>4, <1>5, <1>6 DEF Next

(***************************************************************************)
(* The theorems.                                                           *)
(***************************************************************************)
\* The strengthened invariant holds of every behaviour: the records in memory
\* and on disk, the order book and the phases stay consistent through every
\* fill, failed or half-done call, halt, crash and restart.
THEOREM Invariance == Spec => []IInv
  <1>1. Init => SInv
    BY InitSound
  <1>2. SInv /\ [Next]_vars => SInv'
    BY StepSound
  <1>3. SInv => IInv
    BY IInvParts DEF SInv
  <1>4. QED
    BY <1>1, <1>2, <1>3, PTL DEF Spec

\* Every variable keeps its type.
THEOREM TypeCorrect == Spec => []TypeOK
  <1>1. IInv => TypeOK
    BY DEF IInv
  <1>2. QED
    BY <1>1, Invariance, PTL

\* A record is OPEN, in memory or in positions.json, only with the id of a
\* stop the broker accepted for that entry, at the size of its fill.
THEOREM OpenIsProtected == Spec => []OpenHasItsStop
  <1>1. IInv => OpenHasItsStop
    BY DEF IInv
  <1>2. QED
    BY <1>1, Invariance, PTL

\* However often open_position and settle retry, no entry ever has two stops
\* resting at the broker.
THEOREM NoDoubleStop == Spec => []OneStopPerEntry
  <1>1. IInv => OneStopPerEntry
    BY DEF IInv
  <1>2. QED
    BY <1>1, Invariance, PTL

\* The resting stop of a recorded position is never less protective than the
\* current_stop of the record, whatever raise_stop lost or a restart undid.
THEOREM BelievedIsCovered == Spec => []RestsAtLeastCurrent
  <1>1. IInv => RestsAtLeastCurrent
    BY DEF IInv
  <1>2. QED
    BY <1>1, Invariance, PTL

\* The three things a step can do to the order book.
Shrinks ==
  \A o \in Orders :
    /\ order'[o].st # order[o].st => order[o].st = "working" /\ order'[o].st = "gone"
    /\ order'[o].tag = order[o].tag
    /\ order'[o].level = order[o].level

Attaches == \E o \in Orders : SubmitExit(o, pos.tag, pos.filled, pos.cur)

Replaces ==
  /\ pos.status = "open"
  /\ \E o \in Orders, l \in Levels : l >= pos.cur /\ Replace(pos.stop, o, l)

\* Cancelling is a shrinking of the book.
LEMMA CancelledShrinks == SInv /\ order' = Cancelled => Shrinks
  BY DEF SInv, BookOk, OrderType, Cancelled, Working, Shrinks

\* RaiseStop is the only step with a level of its own; it asks for more than
\* the record has.
LEMMA RaiseStopBook == SInv /\ RaiseStop => Shrinks \/ Replaces
  <1> SUFFICES ASSUME SInv, RaiseStop PROVE Shrinks \/ Replaces
    OBVIOUS
  <1>1. pos \in Position /\ pos.status = "open"
    BY DEF RaiseStop, SInv, RecordOk
  <1>2. PICK lvl \in Levels :
          \/ UNCHANGED brokerVars
          \/ /\ Ratcheted(lvl) > pos.cur
             /\ \E o \in Orders : Replace(pos.stop, o, Ratcheted(lvl))
    BY DEF RaiseStop
  <1>3. Ratcheted(lvl) \in Levels
    BY <1>1, RatchetedInLevels
  <1>4. CASE UNCHANGED brokerVars
    BY <1>4 DEF brokerVars, Shrinks
  <1>5. CASE /\ Ratcheted(lvl) > pos.cur
             /\ \E o \in Orders : Replace(pos.stop, o, Ratcheted(lvl))
    <2>1. pos.cur \in Nat /\ Ratcheted(lvl) \in Nat
      BY <1>1, <1>3 DEF Position, Levels
    <2>2. Ratcheted(lvl) >= pos.cur
      BY <1>5, <2>1
    <2>3. QED
      BY <1>1, <1>3, <1>5, <2>2 DEF Replaces
  <1>6. QED
    BY <1>2, <1>4, <1>5

\* refresh_stale_stop only retires the old stop for one at the same level.
LEMMA RefreshStopBook == SInv /\ RefreshStop => Shrinks \/ Replaces
  <1> SUFFICES ASSUME SInv, RefreshStop PROVE Shrinks \/ Replaces
    OBVIOUS
  <1>1. CASE UNCHANGED brokerVars
    BY <1>1 DEF brokerVars, Shrinks
  <1>2. CASE \E o \in Orders : Replace(pos.stop, o, pos.cur)
    <2>1. pos.status = "open"
      BY DEF RefreshStop
    <2>2. pos.cur \in Levels /\ pos.cur >= pos.cur
      BY <1>2, <2>1 DEF SInv, RecordOk, BookOk, Replace, Working, Levels
    <2>3. QED
      BY <1>2, <2>1, <2>2 DEF Replaces
  <1>3. QED
    BY <1>1, <1>2 DEF RefreshStop

\* What any step does to the protective orders: some go, one is attached to an
\* entry that had none, or one replaces another.
LEMMA BookStep == SInv /\ Next => Shrinks \/ Attaches \/ Replaces
  <1> SUFFICES ASSUME SInv, Next PROVE Shrinks \/ Attaches \/ Replaces
    OBVIOUS
  <1>1. order' = order => Shrinks
    BY DEF Shrinks
  <1>2. CASE Broker
    <2>1. CASE \E o \in Orders : StopFires(o) \/ StopLapses(o)
      BY <2>1 DEF StopFires, StopLapses, Working, Shrinks, SInv, BookOk, OrderType
    <2>2. CASE ~\E o \in Orders : StopFires(o) \/ StopLapses(o)
      BY <1>1, <1>2, <2>2 DEF Broker, Fill, EntryDies, NextDay, brokerVars
    <2>3. QED
      BY <2>1, <2>2
  <1>3. CASE StartCycle \/ Crash
    BY <1>1, <1>3 DEF StartCycle, Crash, brokerVars
  <1>4. CASE Phone
    <2>1. order' = order \/ order' = Cancelled
      BY <1>4 DEF Phone, PhoneOpen, SubmitEntry, PhoneClose, ClosePosition, PhoneHalt,
                  Reset, brokerVars
    <2>2. QED
      BY <1>1, <2>1, CancelledShrinks
  <1>5. CASE AttachProtection \/ AttachRaises
    BY <1>1, <1>5 DEF AttachProtection, AttachRaises, Attaches, brokerVars
  <1>6. CASE RaiseStop
    BY <1>6, RaiseStopBook
  <1>7. CASE RefreshStop
    BY <1>7, RefreshStopBook
  <1>8. CASE KillSwitch \/ SignalExit \/ Enter
    <2>1. order' = order \/ order' = Cancelled
      BY <1>8 DEF KillSwitch, SignalExit, ClosePosition, CancelOpenOrders, Enter,
                  SubmitEntry, brokerVars
    <2>2. QED
      BY <1>1, <2>1, CancelledShrinks
  <1>9. CASE \/ CycleRaises \/ SettleNothing \/ Settle \/ OpenSettleFails \/ Recheck
             \/ RecheckRaises \/ ListPositions \/ ReconcileOk \/ ReconcileHalts
             \/ NothingToRaise \/ ShadowRatchet \/ NothingToRefresh \/ NoExit
             \/ NoEntryNow \/ StaleDataHalts \/ Save
    BY <1>1, <1>9
       DEF CycleRaises, SettleNothing, Settle, OpenSettleFails, Recheck, RecheckRaises,
           ListPositions, ReconcileOk, ReconcileHalts, NothingToRaise, ShadowRatchet,
           NothingToRefresh, NoExit, NoEntryNow, StaleDataHalts, Save, brokerVars
  <1>10. QED
    BY <1>2, <1>3, <1>4, <1>5, <1>6, <1>7, <1>8, <1>9 DEF Next, Cycle

\* What rests for an entry after a step is at least as protective as what
\* rested for it before.
LEMMA NeverLowered ==
  ASSUME SInv, Next, NEW o1 \in Orders, NEW o2 \in Orders, Working(o1), Working(o2)',
         order[o1].tag = order'[o2].tag
  PROVE  order'[o2].level >= order[o1].level
  <1>1. BookOk(order) /\ order[o1].st = "working" /\ order'[o2].st = "working"
        /\ order[o1].level \in Nat /\ order[o1].tag \in Tags
    BY DEF SInv, Working, BookOk, OrderType
  <1>2. CASE Shrinks
    <2>1. order[o2].st = "working" /\ order[o2].tag = order[o1].tag
          /\ order'[o2].level = order[o2].level
      BY <1>1, <1>2 DEF Shrinks
    <2>2. o1 = o2
      BY <1>1, <2>1 DEF BookOk
    <2>3. QED
      BY <1>1, <2>1, <2>2
  <1>3. CASE Attaches
    <2>1. PICK o \in Orders : SubmitExit(o, pos.tag, pos.filled, pos.cur)
      BY <1>3 DEF Attaches
    <2>2. order' = [order EXCEPT ![o] = Resting(pos.tag, pos.filled, pos.cur)]
          /\ \A x \in Orders : order[x].tag # pos.tag
      BY <2>1 DEF SubmitExit, CoidUsed
    <2>3. o2 # o
      BY <1>1, <2>2 DEF BookOk, OrderType, Resting
    <2>4. order'[o2] = order[o2]
      BY <1>1, <2>2, <2>3 DEF BookOk
    <2>5. o1 = o2
      BY <1>1, <2>4 DEF BookOk
    <2>6. QED
      BY <1>1, <2>4, <2>5
  <1>4. CASE Replaces
    <2>1. PICK o \in Orders, l \in Levels : l >= pos.cur /\ Replace(pos.stop, o, l)
      BY <1>4 DEF Replaces
    <2>2. /\ pos.stop \in Orders /\ order[pos.stop].st = "working"
          /\ order[pos.stop].level = pos.cur /\ order[o].st = "absent"
      BY <1>4, <2>1 DEF Replaces, Replace, Working, Fresh, SInv, RecordOk
    <2>3. /\ o # pos.stop
          /\ order'[o].tag = order[pos.stop].tag /\ order'[o].level = l
          /\ order'[pos.stop].st = "gone"
          /\ \A x \in Orders : x # o /\ x # pos.stop => order'[x] = order[x]
      BY <1>1, <2>1, <2>2 DEF Replace, Resting, BookOk, OrderType
    <2>4. CASE o2 = o
      <3>1. o1 = pos.stop
        BY <1>1, <2>2, <2>3, <2>4 DEF BookOk
      <3>2. QED
        BY <2>1, <2>2, <2>3, <2>4, <3>1
    <2>5. CASE o2 # o
      <3>1. order'[o2] = order[o2]
        BY <1>1, <2>3, <2>5
      <3>2. o1 = o2
        BY <1>1, <3>1 DEF BookOk
      <3>3. QED
        BY <1>1, <3>1, <3>2
    <2>6. QED
      BY <2>4, <2>5
  <1>5. QED
    BY <1>2, <1>3, <1>4, BookStep

\* No step of the cycle, of the phone or of the broker ever lowers the level
\* at which an entry's stop rests.
THEOREM StopOnlyAdvances == Spec => RestingStopNeverLowered
  <1>1. SInv /\ [Next]_vars =>
          [\A o1, o2 \in Orders :
             Working(o1) /\ Working(o2)' /\ order[o1].tag = order'[o2].tag
               => order'[o2].level >= order[o1].level]_vars
    BY NeverLowered
  <1>2. IInv => SInv
    BY IInvParts DEF SInv
  <1>3. QED
    BY <1>1, <1>2, Invariance, PTL DEF Spec, RestingStopNeverLowered

\* In propose mode only phases that place nothing are reached, so nothing a
\* propose cycle does creates an order at the broker.
LEMMA ProposeSteps ==
  ASSUME SInv, Next, mode = "propose"
  PROVE  /\ \A t \in Tags : entry[t].st = "absent" => entry'[t].st = "absent"
         /\ \A o \in Orders : order[o].st = "absent" => order'[o].st = "absent"
  <1>1. phase \in {"positions", "orders", "manage", "exit", "enter", "save"}
    BY ProposePhases
  <1>2. BookOk(order) /\ entry \in [Tags -> [st : {"absent", "working", "filled", "dead"}, filled : 0..Qty]]
    BY DEF SInv, EntryOk
  <1>3. ASSUME NEW t \in Tags, entry[t].st = "absent" PROVE entry'[t].st = "absent"
    <2>1. CASE UNCHANGED entry
      BY <1>3, <2>1
    <2>2. CASE \E u \in Tags : Fill(u) \/ EntryDies(u)
      BY <1>2, <1>3, <2>2 DEF Fill, EntryDies
    <2>3. CASE entry' = Killed
      BY <1>2, <1>3, <2>3 DEF Killed
    <2>4. QED
      BY <1>1, <2>1, <2>2, <2>3
         DEF Next, Broker, StopFires, StopLapses, NextDay, StartCycle, Phone, PhoneOpen,
             PhoneClose, PhoneHalt, Reset, Crash, Cycle, CycleRaises, SettleNothing, Settle,
             OpenSettleFails, AttachProtection, AttachRaises, Recheck, RecheckRaises,
             ListPositions, ReconcileOk, ReconcileHalts, KillSwitch, NothingToRaise,
             ShadowRatchet, RaiseStop, NothingToRefresh, RefreshStop, NoExit, SignalExit,
             NoEntryNow, StaleDataHalts, Enter, Save, ClosePosition, CancelOpenOrders,
             brokerVars
  <1>4. ASSUME NEW o \in Orders, order[o].st = "absent" PROVE order'[o].st = "absent"
    <2>1. CASE UNCHANGED order
      BY <1>4, <2>1
    <2>2. CASE \E x \in Orders : StopFires(x) \/ StopLapses(x)
      BY <1>2, <1>4, <2>2 DEF StopFires, StopLapses, Working, BookOk, OrderType
    <2>3. CASE order' = Cancelled
      BY <1>2, <1>4, <2>3 DEF Cancelled, Working
    <2>4. QED
      BY <1>1, <2>1, <2>2, <2>3
         DEF Next, Broker, Fill, EntryDies, NextDay, StartCycle, Phone, PhoneOpen, SubmitEntry,
             PhoneClose, PhoneHalt, Reset, Crash, Cycle, CycleRaises, SettleNothing, Settle,
             OpenSettleFails, AttachProtection, AttachRaises, Recheck, RecheckRaises,
             ListPositions, ReconcileOk, ReconcileHalts, KillSwitch, NothingToRaise,
             ShadowRatchet, RaiseStop, NothingToRefresh, RefreshStop, NoExit, SignalExit,
             NoEntryNow, StaleDataHalts, Enter, Save, ClosePosition, CancelOpenOrders,
             brokerVars
  <1>5. QED
    BY <1>3, <1>4

\* A cycle in propose mode creates no order at the broker, entry or stop.
THEOREM ProposeIsPassive == Spec => ProposePlacesNothing
  <1>1. SInv /\ [Next]_vars =>
          [mode = "propose" =>
             /\ \A t \in Tags : entry[t].st = "absent" => entry'[t].st = "absent"
             /\ \A o \in Orders : order[o].st = "absent" => order'[o].st = "absent"]_vars
    BY ProposeSteps
  <1>2. IInv => SInv
    BY IInvParts DEF SInv
  <1>3. QED
    BY <1>1, <1>2, Invariance, PTL DEF Spec, ProposePlacesNothing

(***************************************************************************)
(* A position is never doubled.                                            *)
(***************************************************************************)
\* Every strategy of every day has a tag.
LEMMA CycleTags == PhoneTags \subseteq Tags /\ \A d \in Days, s \in Strategies : <<d, s>> \in Tags
  BY DEF Tags

\* What the broker does apart from fills and new entries: shares go, entries end.
HeldShrinks ==
  /\ held' \in Nat /\ held' <= held
  /\ \A t \in Tags :
       /\ entry'[t].st = "absent" <=> entry[t].st = "absent"
       /\ entry'[t].st = "working" => entry[t].st = "working"
       /\ entry'[t].filled = entry[t].filled

\* A call that is not made changes nothing.
LEMMA NoCallShrinks == IInv /\ UNCHANGED <<entry, held>> => HeldShrinks
  BY DEF IInv, TypeOK, HeldShrinks

\* Liquidations and cancels, of one position and of all orders.
LEMMA CloseShrinks == IInv /\ (ClosePosition \/ CancelOpenOrders) => HeldShrinks
  <1> SUFFICES ASSUME IInv, ClosePosition \/ CancelOpenOrders PROVE HeldShrinks
    OBVIOUS
  <1>1. held' \in Nat /\ held' <= held /\ entry' = Killed
    BY DEF ClosePosition, CancelOpenOrders, IInv, TypeOK
  <1>2. ASSUME NEW t \in Tags
        PROVE  /\ Killed[t].st = "absent" <=> entry[t].st = "absent"
               /\ Killed[t].st = "working" => entry[t].st = "working"
               /\ Killed[t].filled = entry[t].filled
    BY DEF Killed, IInv, TypeOK
  <1> QED
    BY <1>1, <1>2 DEF HeldShrinks

\* What the reconciler saw when the cycle goes on to manage, and what is known
\* of the book in the phases after it.
SawEnough ==
  /\ phase' = "orders" => held' <= snap'
  /\ phase' \in Reconciled /\ pos'.status = "none" => held' = 0

\* A step that makes no entry leaves the routes as they are.
LEMMA SameRoutes ==
  ASSUME \A t \in Tags : entry'[t].st = "absent" <=> entry[t].st = "absent"
  PROVE  /\ SoleRoute' <=> SoleRoute
         /\ day' = day /\ day \in Days => (NoneToday' <=> NoneToday)
         /\ \A d \in Days, s \in Strategies :
              entry'[<<d, s>>].st = "absent" <=> entry[<<d, s>>].st = "absent"
  <1>1. \A d \in Days, s \in Strategies :
          entry'[<<d, s>>].st = "absent" <=> entry[<<d, s>>].st = "absent"
    BY CycleTags
  <1>2. \A t \in PhoneTags : entry'[t].st = "absent" <=> entry[t].st = "absent"
    BY CycleTags
  <1>3. SoleRoute' <=> SoleRoute
    BY <1>1, <1>2 DEF SoleRoute
  <1>4. ASSUME day' = day, day \in Days PROVE NoneToday' <=> NoneToday
    BY <1>1, <1>4 DEF NoneToday
  <1> QED
    BY <1>1, <1>3, <1>4

\* A shrinking book keeps entries flat, provided the cycle knows as much of it
\* as its phase asks for.
LEMMA ShrinksFlat ==
  ASSUME IInv, EntersFlat, HeldShrinks, day' = day,
         SoleRoute /\ NoneToday => SawEnough
  PROVE  EntersFlat'
  <1>1. day \in Days /\ \A s \in Strategies : <<day, s>> \in Tags
    BY CycleTags DEF IInv, TypeOK
  <1>2. /\ SoleRoute' <=> SoleRoute
        /\ NoneToday' <=> NoneToday
        /\ \A d \in Days, s \in Strategies :
             entry'[<<d, s>>].st = "absent" <=> entry[<<d, s>>].st = "absent"
    BY <1>1, SameRoutes DEF HeldShrinks
  <1>3. held \in Nat /\ held' \in Nat /\ held' <= held /\ Qty \in Nat
    BY ConstantsAssumption DEF HeldShrinks, IInv, TypeOK
  <1> SUFFICES ASSUME SoleRoute'
               PROVE  /\ \A d \in Days, s \in Strategies : entry'[<<d, s>>].st = "working" => d = day
                      /\ \A d \in Days, s \in Strategies : d > day => entry'[<<d, s>>].st = "absent"
                      /\ held' <= Qty
                      /\ \A s \in Strategies : entry'[<<day, s>>].st # "absent"
                                              => held' <= entry'[<<day, s>>].filled
                      /\ NoneToday' /\ phase' = "orders" => held' <= snap'
                      /\ NoneToday' /\ phase' \in Reconciled /\ pos'.status = "none" => held' = 0
    BY DEF EntersFlat
  <1>4. /\ \A d \in Days, s \in Strategies : entry[<<d, s>>].st = "working" => d = day
        /\ \A d \in Days, s \in Strategies : d > day => entry[<<d, s>>].st = "absent"
        /\ held <= Qty
        /\ \A s \in Strategies : entry[<<day, s>>].st # "absent" => held <= entry[<<day, s>>].filled
    BY <1>2 DEF EntersFlat
  <1>5. \A d \in Days, s \in Strategies : entry'[<<d, s>>].st = "working" => d = day
    BY <1>4, CycleTags DEF HeldShrinks
  <1>6. \A d \in Days, s \in Strategies : d > day => entry'[<<d, s>>].st = "absent"
    BY <1>2, <1>4
  <1>7. ASSUME NEW s \in Strategies, entry'[<<day, s>>].st # "absent"
        PROVE  held' <= entry'[<<day, s>>].filled
    <2>1. entry[<<day, s>>].st # "absent" /\ entry'[<<day, s>>].filled = entry[<<day, s>>].filled
      BY <1>1, <1>2, <1>7 DEF HeldShrinks
    <2>2. held <= entry[<<day, s>>].filled /\ entry[<<day, s>>].filled \in Nat
      BY <1>1, <1>4, <2>1, ConstantsAssumption DEF IInv, TypeOK
    <2> QED
      BY <1>3, <2>1, <2>2
  <1>8. NoneToday' => SawEnough
    BY <1>2
  <1>9. held' <= Qty
    BY <1>3, <1>4
  <1> QED
    BY <1>5, <1>6, <1>7, <1>8, <1>9 DEF SawEnough

\* The shares a cycle saw are still all there is, as far as shrinking goes.
LEMMA SeenStays ==
  ASSUME IInv, EntersFlat, HeldShrinks,
         \/ phase' \notin Reconciled \cup {"orders"}
         \/ phase' = phase /\ snap' = snap /\ pos' = pos
         \/ /\ phase' \in Reconciled /\ phase \in Reconciled
            /\ pos'.status = "none" => pos.status = "none" \/ held' = 0
  PROVE  SoleRoute /\ NoneToday => SawEnough
  <1> SUFFICES ASSUME SoleRoute, NoneToday PROVE SawEnough
    OBVIOUS
  <1>1. held \in Nat /\ held' \in Nat /\ held' <= held /\ snap \in Nat
    BY DEF HeldShrinks, IInv, TypeOK
  <1>2. /\ phase = "orders" => held <= snap
        /\ phase \in Reconciled /\ pos.status = "none" => held = 0
    BY DEF EntersFlat
  <1> QED
    BY <1>1, <1>2 DEF SawEnough, Reconciled

\* An entry that works is today's, and what is held came from it.
LEMMA FillFlat ==
  ASSUME IInv, EntersFlat, NEW t \in Tags, Fill(t)
  PROVE  EntersFlat'
  <1>1. /\ entry \in [Tags -> [st : {"absent", "working", "filled", "dead"}, filled : 0..Qty]]
        /\ held \in Nat /\ Qty \in Nat /\ day \in Days
    BY ConstantsAssumption DEF IInv, TypeOK
  <1>2. /\ entry[t].st = "working" /\ entry[t].filled < Qty
        /\ held' = held + 1
        /\ UNCHANGED <<phase, snap, pos, day>>
    BY DEF Fill, botVars, IInv, EntriesWellFormed
  <1>3. /\ entry'[t].st \in {"filled", "working"} /\ entry'[t].filled = entry[t].filled + 1
        /\ \A u \in Tags : u # t => entry'[u] = entry[u]
    BY <1>1 DEF Fill
  <1>4. \A u \in Tags : entry'[u].st = "absent" <=> entry[u].st = "absent"
    BY <1>2, <1>3
  <1>5. SUFFICES ASSUME SoleRoute' PROVE EntersFlat'
    BY DEF EntersFlat
  <1>6. SoleRoute
    BY <1>4, <1>5, SameRoutes
  <1>7. PICK s \in Strategies : t = <<day, s>>
    <2>1. t \notin PhoneTags
      BY <1>2, <1>6 DEF SoleRoute
    <2>2. PICK d \in Days, s \in Strategies : t = <<d, s>>
      BY <2>1 DEF Tags
    <2>3. d = day
      BY <1>2, <1>6, <2>2 DEF EntersFlat
    <2> QED
      BY <2>2, <2>3
  <1>8. held <= entry[t].filled /\ entry[t].filled \in Nat
    BY <1>1, <1>2, <1>6, <1>7 DEF EntersFlat
  <1>9. held' <= entry'[t].filled /\ held' <= Qty
    BY <1>1, <1>2, <1>3, <1>8
  <1>10. ASSUME NEW s2 \in Strategies, entry'[<<day, s2>>].st # "absent"
         PROVE  held' <= entry'[<<day, s2>>].filled
    <2>1. entry'[<<day, s>>].st # "absent"
      BY <1>3, <1>7
    <2>2. s2 = s
      BY <1>1, <1>5, <1>10, <2>1 DEF SoleRoute
    <2> QED
      BY <1>7, <1>9, <2>2
  <1>11. ASSUME NEW d \in Days, NEW s2 \in Strategies
         PROVE  /\ entry'[<<d, s2>>].st = "working" => d = day
                /\ d > day => entry'[<<d, s2>>].st = "absent"
    <2>1. <<d, s2>> \in Tags
      BY CycleTags
    <2>2. CASE <<d, s2>> = t
      <3>1. d = day
        BY <1>7, <2>2
      <3> QED
        BY <1>1, <3>1 DEF Days
    <2>3. CASE <<d, s2>> # t
      <3>1. entry'[<<d, s2>>] = entry[<<d, s2>>]
        BY <1>3, <2>1, <2>3
      <3> QED
        BY <1>6, <3>1 DEF EntersFlat
    <2> QED
      BY <2>2, <2>3
  <1>12. ~NoneToday'
    BY <1>2, <1>3, <1>7 DEF NoneToday
  <1> QED
    BY <1>2, <1>9, <1>10, <1>11, <1>12 DEF EntersFlat

\* On a new day no entry works, and that day has none yet.
LEMMA NextDayFlat == IInv /\ EntersFlat /\ NextDay => EntersFlat'
  <1> SUFFICES ASSUME IInv, EntersFlat, NextDay, SoleRoute' PROVE EntersFlat'
    BY DEF EntersFlat
  <1>1. /\ UNCHANGED <<entry, held, phase>> /\ phase = "off" /\ day' = day + 1
        /\ day < MaxDay /\ day \in Days /\ MaxDay \in Nat
        /\ \A t \in Tags : entry[t].st # "working"
    BY ConstantsAssumption DEF NextDay, brokerVars, EntryWorking, IInv, TypeOK
  <1>2. day' \in Days /\ day' > day /\ \A d \in Days : d > day' => d > day
    BY <1>1 DEF Days
  <1>3. SoleRoute
    BY <1>1 DEF SoleRoute
  <1>4. /\ \A d \in Days, s \in Strategies : d > day => entry[<<d, s>>].st = "absent"
        /\ held <= Qty
    BY <1>3 DEF EntersFlat
  <1>5. \A d \in Days, s \in Strategies : entry'[<<d, s>>].st # "working"
    BY <1>1, CycleTags
  <1>6. \A d \in Days, s \in Strategies : d > day' => entry'[<<d, s>>].st = "absent"
    BY <1>1, <1>2, <1>4
  <1>7. \A s \in Strategies : entry'[<<day', s>>].st = "absent"
    BY <1>1, <1>2, <1>4
  <1> QED
    BY <1>1, <1>4, <1>5, <1>6, <1>7 DEF EntersFlat, Reconciled

\* An entry of today is the first one of its day, and is made on a flat book.
LEMMA SubmitFlat ==
  ASSUME IInv, EntersFlat, NEW s \in Strategies, SubmitEntry(<<day, s>>),
         phase = "enter", pos.status = "none", day' = day,
         phase' \notin Reconciled \cup {"orders"}
  PROVE  EntersFlat'
  <1>1. /\ entry \in [Tags -> [st : {"absent", "working", "filled", "dead"}, filled : 0..Qty]]
        /\ held \in Nat /\ Qty \in Nat /\ day \in Days /\ <<day, s>> \in Tags
    BY ConstantsAssumption, CycleTags DEF IInv, TypeOK
  <1>2. /\ entry[<<day, s>>].st = "absent" /\ held' = held
        /\ entry'[<<day, s>>].st = "working" /\ entry'[<<day, s>>].filled = 0
        /\ \A u \in Tags : u # <<day, s>> => entry'[u] = entry[u]
    BY <1>1 DEF SubmitEntry
  <1>3. \A u \in Tags : entry'[u].st = "absent" => entry[u].st = "absent"
    BY <1>2
  <1>4. SUFFICES ASSUME SoleRoute' PROVE EntersFlat'
    BY DEF EntersFlat
  <1>5. SoleRoute
    <2>1. \A t \in PhoneTags : entry[t].st = "absent"
      BY <1>3, <1>4, CycleTags DEF SoleRoute
    <2>2. ASSUME NEW d \in Days, NEW s1 \in Strategies, NEW s2 \in Strategies,
                 entry[<<d, s1>>].st # "absent", entry[<<d, s2>>].st # "absent"
          PROVE  s1 = s2
      <3>1. entry'[<<d, s1>>].st # "absent" /\ entry'[<<d, s2>>].st # "absent"
        BY <1>3, <2>2, CycleTags
      <3> QED
        BY <1>4, <3>1 DEF SoleRoute
    <2> QED
      BY <2>1, <2>2 DEF SoleRoute
  <1>6. ASSUME NEW s2 \in Strategies, s2 # s PROVE entry'[<<day, s2>>].st = "absent"
    BY <1>1, <1>2, <1>4, <1>6 DEF SoleRoute
  <1>7. NoneToday
    BY <1>2, <1>3, <1>6, CycleTags, <1>1 DEF NoneToday
  <1>8. held = 0
    BY <1>5, <1>7 DEF EntersFlat, Reconciled
  <1>9. \A s2 \in Strategies : entry'[<<day, s2>>].st # "absent" => held' <= entry'[<<day, s2>>].filled
    BY <1>2, <1>6, <1>8
  <1>10. ASSUME NEW d \in Days, NEW s2 \in Strategies
         PROVE  /\ entry'[<<d, s2>>].st = "working" => d = day
                /\ d > day => entry'[<<d, s2>>].st = "absent"
    <2>1. CASE d = day
      BY <1>1, <2>1 DEF Days
    <2>2. CASE d # day
      <3>1. <<d, s2>> # <<day, s>> /\ <<d, s2>> \in Tags
        BY <2>2, CycleTags
      <3>2. entry'[<<d, s2>>] = entry[<<d, s2>>]
        BY <1>2, <3>1
      <3> QED
        BY <1>5, <3>2 DEF EntersFlat
    <2> QED
      BY <2>1, <2>2
  <1> QED
    BY <1>1, <1>2, <1>8, <1>9, <1>10 DEF EntersFlat, Reconciled

\* Whatever strategy the cycle's entry is routed to, and however it ends.
LEMMA EnterFlat == IInv /\ EntersFlat /\ Enter => EntersFlat'
  <1> SUFFICES ASSUME IInv, EntersFlat, Enter PROVE EntersFlat'
    OBVIOUS
  <1>1. phase = "enter" /\ pos.status = "none" /\ day' = day
        /\ phase' \notin Reconciled \cup {"orders"}
    BY DEF Enter, OpenFails, Isolated, Raise, End, Goto, Reconciled
  <1>2. CASE UNCHANGED brokerVars
    <2>1. HeldShrinks
      BY <1>2, NoCallShrinks DEF brokerVars
    <2> QED
      BY <1>1, <2>1, SeenStays, ShrinksFlat
  <1>3. CASE \E s \in Strategies : SubmitEntry(<<day, s>>)
    BY <1>1, <1>3, SubmitFlat
  <1> QED
    BY <1>2, <1>3 DEF Enter

\* A phone entry is outside the promise.
LEMMA PhoneOpenFlat ==
  ASSUME IInv, EntersFlat, NEW t \in PhoneTags, PhoneOpen(t)
  PROVE  EntersFlat'
  <1>1. entry'[t].st = "working"
    BY DEF PhoneOpen, SubmitEntry, IInv, TypeOK, Tags
  <1> QED
    BY <1>1 DEF EntersFlat, SoleRoute

\* The reconciler's look at the positions, and its verdict.
LEMMA ReconcileFlat ==
  ASSUME IInv, EntersFlat, ListPositions \/ ReconcileOk
  PROVE  EntersFlat'
  <1>1. HeldShrinks /\ day' = day /\ held' = held /\ held \in Nat /\ snap \in Nat
    BY NoCallShrinks DEF ListPositions, ReconcileOk, brokerVars, IInv, TypeOK
  <1>2. CASE ListPositions
    <2>1. SawEnough
      BY <1>1, <1>2 DEF ListPositions, SawEnough, Reconciled
    <2> QED
      BY <1>1, <2>1, ShrinksFlat
  <1>3. CASE ReconcileOk
    <2>1. phase' = "manage" /\ phase = "orders" /\ pos' = IF AutoClosed THEN NoPos ELSE pos
      BY <1>3 DEF ReconcileOk, Goto
    <2>2. pos'.status = "none" => snap = 0
      BY <1>1, <1>3, <2>1 DEF ReconcileOk, AutoClosed, Mismatch
    <2>3. SoleRoute /\ NoneToday => held <= snap
      BY <2>1 DEF EntersFlat
    <2>4. SoleRoute /\ NoneToday => SawEnough
      BY <1>1, <2>1, <2>2, <2>3 DEF SawEnough
    <2> QED
      BY <1>1, <2>4, ShrinksFlat
  <1> QED
    BY <1>2, <1>3

\* Every other step of a cycle, of the phone and of the broker only shrinks the
\* book, and forgets no record in it without closing it.
LEMMA OthersFlat ==
  ASSUME IInv, EntersFlat,
         \/ \E t \in Tags : EntryDies(t)
         \/ \E o \in Orders : StopFires(o) \/ StopLapses(o)
         \/ StartCycle \/ Crash \/ PhoneClose \/ PhoneHalt \/ Reset
         \/ CycleRaises \/ SettleNothing \/ Settle \/ OpenSettleFails
         \/ AttachProtection \/ AttachRaises \/ Recheck \/ RecheckRaises
         \/ ReconcileHalts \/ KillSwitch \/ NothingToRaise \/ ShadowRatchet \/ RaiseStop
         \/ NothingToRefresh \/ RefreshStop \/ NoExit \/ SignalExit
         \/ NoEntryNow \/ StaleDataHalts \/ Save
  PROVE  EntersFlat'
  <1> DEFINE Sees ==
        \/ phase' \notin Reconciled \cup {"orders"}
        \/ phase' = phase /\ snap' = snap /\ pos' = pos
        \/ /\ phase' \in Reconciled /\ phase \in Reconciled
           /\ pos'.status = "none" => pos.status = "none" \/ held' = 0
  <1>0. HeldShrinks /\ day' = day /\ Sees => EntersFlat'
    BY SeenStays, ShrinksFlat
  <1>1. CASE \E t \in Tags : EntryDies(t)
    <2>1. HeldShrinks
      BY <1>1 DEF EntryDies, HeldShrinks, IInv, TypeOK
    <2>2. day' = day /\ Sees
      BY <1>1 DEF EntryDies, botVars
    <2> QED
      BY <1>0, <2>1, <2>2
  <1>2. CASE \E o \in Orders : StopFires(o) \/ StopLapses(o)
    <2>1. PICK o \in Orders : StopFires(o) \/ StopLapses(o)
      BY <1>2
    <2>2. held \in Nat /\ order[o].qty \in Nat
      BY DEF IInv, TypeOK
    <2>3. HeldShrinks
      BY <2>1, <2>2 DEF StopFires, StopLapses, HeldShrinks
    <2>4. day' = day /\ Sees
      BY <2>1 DEF StopFires, StopLapses, botVars
    <2> QED
      BY <1>0, <2>3, <2>4
  <1>3. CASE StartCycle \/ Crash \/ PhoneHalt \/ Reset \/ CycleRaises \/ SettleNothing \/ Settle
             \/ OpenSettleFails \/ Recheck \/ RecheckRaises \/ ReconcileHalts \/ NoEntryNow
             \/ StaleDataHalts \/ Save
    <2>1. UNCHANGED <<entry, held>> /\ day' = day
      BY <1>3 DEF StartCycle, Crash, PhoneHalt, Reset, CycleRaises, SettleNothing, Settle,
         OpenSettleFails, Recheck, RecheckRaises, ReconcileHalts, NoEntryNow, StaleDataHalts, Save,
         brokerVars
    <2>2. Sees
      BY <1>3 DEF StartCycle, Crash, PhoneHalt, Reset, CycleRaises, SettleNothing, Settle,
         OpenSettleFails, Recheck, RecheckRaises, ReconcileHalts, NoEntryNow, StaleDataHalts, Save,
         OpenFails, Isolated, Raise, End, Goto, HaltUnsaved, Reconciled
    <2> QED
      BY <1>0, <2>1, <2>2, NoCallShrinks
  <1>4. CASE NothingToRaise \/ ShadowRatchet \/ NothingToRefresh \/ NoExit
    <2>1. UNCHANGED <<entry, held>> /\ day' = day
      BY <1>4 DEF NothingToRaise, ShadowRatchet, NothingToRefresh, NoExit, brokerVars
    <2>2. /\ phase \in Reconciled /\ phase' \in Reconciled \cup {"save"}
          /\ pos'.status = pos.status
      BY <1>4 DEF NothingToRaise, ShadowRatchet, NothingToRefresh, NoExit, Goto, AfterManage,
         AfterRefresh, Reconciled, IInv, TypeOK, Position
    <2>3. Sees
      BY <2>2 DEF Reconciled
    <2> QED
      BY <1>0, <2>1, <2>3, NoCallShrinks
  <1>5. CASE AttachProtection \/ AttachRaises
    <2>1. UNCHANGED <<entry, held>> /\ day' = day
      BY <1>5 DEF AttachProtection, AttachRaises, SubmitExit, brokerVars
    <2>2. Sees
      BY <1>5 DEF AttachProtection, AttachRaises, OpenFails, Isolated, Raise, End, Goto, Reconciled
    <2> QED
      BY <1>0, <2>1, <2>2, NoCallShrinks
  <1>6. CASE RaiseStop \/ RefreshStop
    <2>1. UNCHANGED <<entry, held>> /\ day' = day
      BY <1>6 DEF RaiseStop, RefreshStop, Replace, brokerVars
    <2>2. pos \in Position /\ pos.status = "open"
      BY <1>6 DEF RaiseStop, RefreshStop, IInv, TypeOK
    <2>3. phase' = "off" \/ (phase' \in {"refresh", "exit", "save"} /\ pos'.status = "open")
      BY <1>6, <2>2 DEF RaiseStop, RefreshStop, Isolated, Raise, End, Goto, AfterRefresh, Position
    <2>4. phase \in Reconciled
      BY <1>6 DEF RaiseStop, RefreshStop, Reconciled
    <2>5. Sees
      BY <2>3, <2>4 DEF Reconciled
    <2> QED
      BY <1>0, <2>1, <2>5, NoCallShrinks
  <1>7. CASE PhoneClose \/ KillSwitch
    <2>1. HeldShrinks /\ day' = day
      BY <1>7, CloseShrinks, NoCallShrinks DEF PhoneClose, KillSwitch, brokerVars
    <2>2. Sees
      BY <1>7 DEF PhoneClose, KillSwitch, HaltUnsaved, End, Reconciled
    <2> QED
      BY <1>0, <2>1, <2>2
  <1>8. CASE SignalExit
    <2>1. HeldShrinks /\ day' = day /\ held' = 0
      BY <1>8, CloseShrinks DEF SignalExit, ClosePosition
    <2>2. phase = "exit" /\ phase' \in {"enter", "off"}
      BY <1>8 DEF SignalExit, Goto, Raise, End
    <2>3. Sees
      BY <2>1, <2>2 DEF Reconciled
    <2> QED
      BY <1>0, <2>1, <2>3
  <1> QED
    BY <1>1, <1>2, <1>3, <1>4, <1>5, <1>6, <1>7, <1>8

\* At first nothing is held and no entry was made.
LEMMA InitFlat == Init => EntersFlat
  <1> SUFFICES ASSUME Init PROVE EntersFlat
    OBVIOUS
  <1>1. \A d \in Days, s \in Strategies : entry[<<d, s>>] = NoEntry
    BY CycleTags DEF Init
  <1>2. held = 0 /\ phase = "off" /\ 1 \in Days /\ day = 1 /\ Qty \in Nat
    BY ConstantsAssumption DEF Init, Days
  <1> QED
    BY <1>1, <1>2 DEF EntersFlat, NoEntry, Reconciled

\* Every step keeps entries flat.
LEMMA FlatStep == IInv /\ EntersFlat /\ [Next]_vars => EntersFlat'
  <1>1. IInv /\ EntersFlat /\ Broker => EntersFlat'
    BY FillFlat, NextDayFlat, OthersFlat DEF Broker
  <1>2. IInv /\ EntersFlat /\ Cycle => EntersFlat'
    BY EnterFlat, ReconcileFlat, OthersFlat DEF Cycle
  <1>3. IInv /\ EntersFlat /\ (Phone \/ StartCycle \/ Crash) => EntersFlat'
    BY PhoneOpenFlat, OthersFlat DEF Phone
  <1>4. EntersFlat /\ UNCHANGED vars => EntersFlat'
    BY DEF EntersFlat, SoleRoute, NoneToday, vars
  <1> QED
    BY <1>1, <1>2, <1>3, <1>4 DEF Next

\* A cycle enters only a flat book, whatever strategy its entry is routed to: as
\* long as no phone entry was made and no day had entries of two strategies.
THEOREM FlatAtEntry == Spec => []EntersFlat
  BY InitFlat, FlatStep, Invariance, PTL DEF Spec

\* Crashes, lost answers, retries and restarts alone never make the cycle hold
\* more than one entry's shares, over any number of days: it takes an entry of a
\* second strategy on the same day, or one from the phone.
THEOREM OnlyReroutes == Spec => []OnlyReroutedDoubles
  <1>1. EntersFlat => OnlyReroutedDoubles
    BY DEF EntersFlat, OnlyReroutedDoubles
  <1> QED
    BY FlatAtEntry, <1>1, PTL
=============================================================================
