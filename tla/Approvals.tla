----------------------------- MODULE Approvals -----------------------------
(***************************************************************************)
(* From a proposal to an order by way of the phone: state/proposals.json   *)
(* and its writers, the Telegram update queue, the listener's handlers,    *)
(* and what is left of TradeService and the broker seen from here.         *)
(*                                                                         *)
(* proposals.json has no lock.  Every change of it loads the whole file,   *)
(* edits one record in memory and replaces the file, so two writers may    *)
(* overlap: the scheduled propose cycle and the discovery pass, processes  *)
(* of their own, and the listener.                                         *)
(***************************************************************************)
EXTENDS Naturals, Sequences, FiniteSets

CONSTANTS
  Proposals,   \* proposal ids; each is made once (uuid)
  Emitters,    \* run_paper --propose and run_discovery, started by cron
  Cycles,      \* those that are run_paper: a halted cycle leaves the file alone
  Listener,
  MadeBy,      \* who makes a proposal; the listener with /run and /ideas
  SymOf,       \* the symbol a proposal is about
  Taps,        \* updates the user may send
  MaxUpdates,  \* how many of them
  PageSize,    \* most updates getUpdates returns at once
  MaxDay       \* last date modelled; a manual buy is tagged with the date

Writers == Emitters \cup {Listener}
Symbols == {SymOf[p] : p \in Proposals}
Days    == 1..MaxDay

\* What the phone can send: taps on the buttons of a proposal or of a buy
\* confirmation, and the commands that reach proposals.json.
Updates == [kind : {"approve", "deny"}, id : Proposals]
      \cup [kind : {"buy"}, id : Symbols]
      \cup [kind : {"pending", "ideas", "run"}]

\* An id is a uuid, never a ticker.
ASSUME ConstantsAssumption ==
  /\ Listener \notin Emitters
  /\ Cycles \subseteq Emitters
  /\ Proposals \cap Symbols = {}
  /\ MadeBy \in [Proposals -> Writers]
  /\ Taps \subseteq Updates
  /\ MaxUpdates \in Nat
  /\ PageSize \in Nat \ {0}
  /\ MaxDay \in Nat \ {0}

VARIABLES
  file,        \* state/proposals.json: the status of each proposal
  made,        \* the proposals made so far
  late,        \* those whose expiry_ts has passed
  pc,          \* how far each writer has come
  copy,        \* what each writer last loaded of the file
  batch,       \* the proposals a writer still has to add
  sent,        \* Telegram: every update sent
  confirmed,   \* Telegram: how many of them are acknowledged
  offset,      \* listener: the next update to handle
  page,        \* listener: the last update of the answer being worked off
  orders,      \* broker: entry orders, with their client_order_id
  tracked,     \* symbols with a record in positions.json
  today

fileVars == <<file, copy, batch>>
chatVars == <<sent, confirmed, offset, page>>
tradeVars == <<orders, tracked>>
clockVars == <<made, late, today>>
vars == <<file, made, late, pc, copy, batch, sent, confirmed, offset, page,
          orders, tracked, today>>

Decided  == {"approved", "denied", "expired"}
Statuses == Decided \cup {"absent", "pending"}

\* Mutant of ApprovedCoid: tagged with the date, as a manual buy is.
ApprovedCoidDated(p) == <<"approved", SymOf[p], today>>

\* The tags of entry orders: approved-<id> and manual-<date>.
ApprovedCoid(p) == <<"approved", p, 0>>

ManualCoid(s) == <<"manual", s, today>>

EmitterPhases  == {"off", "purge", "purging", "pick", "add", "adding"}
ListenerPhases == EmitterPhases \cup {"drain", "poll", "handle", "place", "placebuy",
                     "record", "recordbuy", "approved", "denied", "expired",
                     "saveapproved", "savedenied", "saveexpired"}

TypeOK ==
  /\ file \in [Proposals -> Statuses]
  /\ made \subseteq Proposals
  /\ late \subseteq made
  /\ pc \in [Writers -> ListenerPhases]
  /\ \A e \in Emitters : pc[e] \in EmitterPhases
  /\ copy \in [Writers -> [Proposals -> Statuses]]
  /\ batch \in [Writers -> SUBSET Proposals]
  /\ sent \in Seq(Taps)
  /\ confirmed \in 0..Len(sent)
  /\ offset \in confirmed + 1..Len(sent) + 1
  /\ page \in 0..Len(sent)
  /\ \A o \in orders : o.of \in Proposals \cup Symbols
  /\ tracked \subseteq Symbols
  /\ today \in Days

Nothing == [p \in Proposals |-> "absent"]

Init ==
  /\ file = Nothing
  /\ made = {}
  /\ late = {}
  /\ pc = [w \in Writers |-> "off"]
  /\ copy = [w \in Writers |-> Nothing]
  /\ batch = [w \in Writers |-> {}]
  /\ sent = <<>>
  /\ confirmed = 0
  /\ offset = 1
  /\ page = 0
  /\ orders = {}
  /\ tracked = {}
  /\ today = 1

Goto(w, ph) == pc' = [pc EXCEPT ![w] = ph]

\* A process that is done with the file goes on polling, or ends.
Rest(w) == Goto(w, IF w = Listener THEN "poll" ELSE "off")

(***************************************************************************)
(* The record store: load, edit, replace.                                  *)
(***************************************************************************)
LoadRaw(w, ph) ==
  /\ copy' = [copy EXCEPT ![w] = file]
  /\ Goto(w, ph)
  /\ UNCHANGED <<file, batch, chatVars, tradeVars, clockVars>>

\* The copy is forgotten once it is written.
SaveRaw(w, payload) ==
  /\ file' = payload
  /\ copy' = [copy EXCEPT ![w] = Nothing]

\* Mutant of Purged: whatever is past its expiry is marked, decided or not.
PurgedAll(payload) ==
  [p \in Proposals |-> IF payload[p] # "absent" /\ p \in late THEN "expired" ELSE payload[p]]

Purged(payload) ==
  [p \in Proposals |-> IF payload[p] = "pending" /\ p \in late THEN "expired" ELSE payload[p]]

(***************************************************************************)
(* run_paper's _emit_proposals, run_discovery, and the listener's /run,    *)
(* /ideas and /pending: purge, then add what the report proposes.          *)
(***************************************************************************)
\* Mutant of Emit: it adds without purging first.
EmitUnpurged(e) ==
  /\ e \in Emitters
  /\ pc[e] = "off"
  /\ Goto(e, "pick")
  /\ UNCHANGED <<fileVars, chatVars, tradeVars, clockVars>>

\* A cycle whose report is halted returns before it, and a discovery pass that
\* does not get the account dies before it: neither takes a step here.
Emit(e) ==
  /\ e \in Emitters
  /\ pc[e] = "off"
  /\ Goto(e, "purge")
  /\ UNCHANGED <<fileVars, chatVars, tradeVars, clockVars>>

PurgeLoad(w) ==
  /\ pc[w] = "purge"
  /\ LoadRaw(w, "purging")

\* Only a purge that marked something writes.
PurgeSave(w) ==
  /\ pc[w] = "purging"
  /\ SaveRaw(w, IF Purged(copy[w]) = copy[w] THEN file ELSE Purged(copy[w]))
  /\ IF w = Listener /\ sent[offset - 1].kind = "pending" THEN Rest(w) ELSE Goto(w, "pick")
  /\ UNCHANGED <<batch, chatVars, tradeVars, clockVars>>

\* The report, of new ids.  Nothing to propose, or a discovery that fails, leaves
\* it empty.
Pick(w) ==
  /\ pc[w] = "pick"
  /\ \E new \in SUBSET {p \in Proposals \ made : MadeBy[p] = w} :
       /\ batch' = [batch EXCEPT ![w] = new]
       /\ made' = made \cup new
       /\ IF new = {} THEN Rest(w) ELSE Goto(w, "add")
  /\ UNCHANGED <<file, copy, late, today, chatVars, tradeVars>>

AddLoad(w) ==
  /\ pc[w] = "add"
  /\ LoadRaw(w, "adding")

AddTo(payload, p) == [payload EXCEPT ![p] = "pending"]

AddSave(w) ==
  /\ pc[w] = "adding"
  /\ \E p \in batch[w] :
       /\ SaveRaw(w, AddTo(copy[w], p))
       /\ batch' = [batch EXCEPT ![w] = @ \ {p}]
       /\ IF batch[w] = {p} THEN Rest(w) ELSE Goto(w, "add")
  /\ UNCHANGED <<chatVars, tradeVars, clockVars>>

(***************************************************************************)
(* Telegram (external) and the listener's poll loop.                       *)
(***************************************************************************)
\* A button exists once its proposal was pushed, and can be tapped again.
Shown(u) == u.kind \in {"approve", "deny"} =>
              u.id \in made /\ \A w \in Writers : u.id \notin batch[w]

Tap(u) ==
  /\ Len(sent) < MaxUpdates
  /\ Shown(u)
  /\ sent' = Append(sent, u)
  /\ UNCHANGED <<fileVars, pc, confirmed, offset, page, tradeVars, clockVars>>

Through(first) ==
  IF first + PageSize - 1 < Len(sent) THEN first + PageSize - 1 ELSE Len(sent)

StartListener ==
  /\ pc[Listener] = "off"
  /\ Goto(Listener, "drain")
  /\ UNCHANGED <<fileVars, chatVars, tradeVars, clockVars>>

\* The drain reads once, acknowledges nothing, and when it fails the first
\* poll starts from what is not acknowledged.
Drain ==
  /\ pc[Listener] = "drain"
  /\ \/ offset' = Through(confirmed + 1) + 1
     \/ offset' = confirmed + 1
  /\ page' = offset' - 1
  /\ Goto(Listener, "poll")
  /\ UNCHANGED <<fileVars, sent, confirmed, tradeVars, clockVars>>

\* A getUpdates that fails is tried again.
GetUpdates ==
  /\ pc[Listener] = "poll"
  /\ offset > page
  /\ offset <= Len(sent)
  /\ confirmed' = offset - 1
  /\ page' = Through(offset)
  /\ UNCHANGED <<fileVars, pc, sent, offset, tradeVars, clockVars>>

\* The offset moves on before the update is handled.
TakeUpdate ==
  /\ pc[Listener] = "poll"
  /\ offset <= page
  /\ offset' = offset + 1
  /\ Goto(Listener, "handle")
  /\ UNCHANGED <<fileVars, sent, confirmed, page, tradeVars, clockVars>>

InHand == sent[offset - 1]

\* An update that asks nothing of proposals.json, is not allowed, cannot be
\* understood, or whose handler raises: the loop goes on.
Dropped ==
  /\ pc[Listener] = "handle"
  /\ Rest(Listener)
  /\ UNCHANGED <<fileVars, chatVars, tradeVars, clockVars>>

OnCommand ==
  /\ pc[Listener] = "handle"
  /\ InHand.kind \in {"pending", "ideas", "run"}
  /\ Goto(Listener, IF InHand.kind = "run" THEN "pick" ELSE "purge")
  /\ UNCHANGED <<fileVars, chatVars, tradeVars, clockVars>>

OnApprove ==
  /\ pc[Listener] = "handle"
  /\ InHand.kind = "approve"
  /\ file[InHand.id] = "pending"
  /\ Goto(Listener, IF InHand.id \in late THEN "expired" ELSE "place")
  /\ UNCHANGED <<fileVars, chatVars, tradeVars, clockVars>>

OnDeny ==
  /\ pc[Listener] = "handle"
  /\ InHand.kind = "deny"
  /\ file[InHand.id] = "pending"
  /\ Goto(Listener, "denied")
  /\ UNCHANGED <<fileVars, chatVars, tradeVars, clockVars>>

OnBuyConfirm ==
  /\ pc[Listener] = "handle"
  /\ InHand.kind = "buy"
  /\ Goto(Listener, "placebuy")
  /\ UNCHANGED <<fileVars, chatVars, tradeVars, clockVars>>

(***************************************************************************)
(* execute_approved and place_manual.  Busy, halted, no price, market      *)
(* closed, vetoed or sized to zero: an answer, and nothing else.           *)
(***************************************************************************)
Placing == pc[Listener] \in {"place", "placebuy"}
Wanted  == IF pc[Listener] = "place" THEN SymOf[InHand.id] ELSE InHand.id
Coid    == IF pc[Listener] = "place" THEN ApprovedCoid(InHand.id) ELSE ManualCoid(InHand.id)

NotPlaced ==
  /\ Placing
  /\ Rest(Listener)
  /\ UNCHANGED <<fileVars, chatVars, tradeVars, clockVars>>

\* Mutant of Place: whatever the broker answered counts as placed.
PlaceAlways ==
  /\ Placing
  /\ Wanted \notin tracked
  /\ Goto(Listener, IF pc[Listener] = "place" THEN "record" ELSE "recordbuy")
  /\ \/ /\ \A o \in orders : o.coid # Coid
        /\ orders' = orders \cup {[coid |-> Coid, of |-> InHand.id]}
     \/ UNCHANGED orders
  /\ UNCHANGED <<fileVars, chatVars, tracked, clockVars>>

\* The broker takes a client_order_id once.  The answer may be lost, settle
\* may raise, or the entry be dead: then nothing is recorded.
Place ==
  /\ Placing
  /\ Wanted \notin tracked
  /\ \A o \in orders : o.coid # Coid
  /\ orders' = orders \cup {[coid |-> Coid, of |-> InHand.id]}
  /\ \/ Goto(Listener, IF pc[Listener] = "place" THEN "record" ELSE "recordbuy")
     \/ Rest(Listener)
  /\ UNCHANGED <<fileVars, chatVars, tracked, clockVars>>

Record ==
  /\ pc[Listener] \in {"record", "recordbuy"}
  /\ tracked' = tracked \cup {IF pc[Listener] = "record" THEN SymOf[InHand.id] ELSE InHand.id}
  /\ IF pc[Listener] = "record" THEN Goto(Listener, "approved") ELSE Rest(Listener)
  /\ UNCHANGED <<fileVars, chatVars, orders, clockVars>>

MarkLoad ==
  /\ pc[Listener] \in Decided
  /\ LoadRaw(Listener, CASE pc[Listener] = "approved" -> "saveapproved"
                         [] pc[Listener] = "denied"   -> "savedenied"
                         [] OTHER                     -> "saveexpired")

MarkedAs == CASE pc[Listener] = "saveapproved" -> "approved"
              [] pc[Listener] = "savedenied"   -> "denied"
              [] OTHER                         -> "expired"

\* mark() writes nothing when the record is gone.
MarkSave ==
  /\ pc[Listener] \in {"saveapproved", "savedenied", "saveexpired"}
  /\ SaveRaw(Listener, IF copy[Listener][InHand.id] = "absent" THEN file
                       ELSE [copy[Listener] EXCEPT ![InHand.id] = MarkedAs])
  /\ Rest(Listener)
  /\ UNCHANGED <<batch, chatVars, tradeVars, clockVars>>

(***************************************************************************)
(* Time, the market, and processes that die.                               *)
(***************************************************************************)
Expires(p) ==
  /\ p \in made \ late
  /\ late' = late \cup {p}
  /\ UNCHANGED <<fileVars, pc, chatVars, tradeVars, made, today>>

NextDay ==
  /\ today < MaxDay
  /\ today' = today + 1
  /\ UNCHANGED <<fileVars, pc, chatVars, tradeVars, made, late>>

\* A stop fired, or the position was closed.
Gone(s) ==
  /\ s \in tracked
  /\ tracked' = tracked \ {s}
  /\ UNCHANGED <<fileVars, pc, chatVars, orders, clockVars>>

Crash(w) ==
  /\ pc[w] # "off"
  /\ Goto(w, "off")
  /\ copy' = [copy EXCEPT ![w] = Nothing]
  /\ batch' = [batch EXCEPT ![w] = {}]
  /\ UNCHANGED <<file, chatVars, tradeVars, clockVars>>

Works(w) == PurgeLoad(w) \/ PurgeSave(w) \/ Pick(w) \/ AddLoad(w) \/ AddSave(w)

Listens ==
  \/ Drain \/ GetUpdates \/ TakeUpdate \/ Dropped
  \/ OnCommand \/ OnApprove \/ OnDeny \/ OnBuyConfirm
  \/ NotPlaced \/ Place \/ Record \/ MarkLoad \/ MarkSave

World ==
  \/ \E u \in Taps : Tap(u)
  \/ \E p \in Proposals : Expires(p)
  \/ \E s \in Symbols : Gone(s)
  \/ NextDay

Next ==
  \/ World \/ StartListener \/ Listens
  \/ \E e \in Emitters : Emit(e)
  \/ \E w \in Writers : Works(w) \/ Crash(w)

Spec == Init /\ [][Next]_vars

(***************************************************************************)
(* Safety                                                                  *)
(***************************************************************************)
\* However often an approval is tapped, replayed after a restart, or tried
\* again because its mark was lost or overwritten, the proposal becomes at
\* most one order: its id is the order's client_order_id.
OneOrderPerProposal ==
  \A p \in Proposals : Cardinality({o \in orders : o.of = p}) <= 1

Ordered(p) == \E o \in orders : o.of = p

\* A proposal reads "approved" only when an order of it reached the broker,
\* through every overlap of writers.
ApprovedHasOrder == \A p \in Proposals : file[p] = "approved" => Ordered(p)

(***************************************************************************)
(* The inductive invariant behind the safety properties.                   *)
(***************************************************************************)
ForApprove == {"place", "record", "approved", "saveapproved", "expired", "saveexpired"}
ForDeny    == {"denied", "savedenied"}
ForBuy     == {"placebuy", "recordbuy"}
Between    == {"off", "drain", "poll"}

\* The update a handler works on is one that was sent, and of its kind.
InHandFits ==
  /\ pc[Listener] \notin Between => offset > 1
  /\ pc[Listener] \in ForApprove => InHand.kind = "approve"
  /\ pc[Listener] \in ForDeny => InHand.kind = "deny"
  /\ pc[Listener] \in ForBuy => InHand.kind = "buy"

\* The tag of a proposal's order is the proposal's.
OrdersTagged ==
  \A o \in orders :
    /\ o = [coid |-> o.coid, of |-> o.of]
    /\ o.of \in Proposals => o.coid = ApprovedCoid(o.of)

\* Nobody is about to write "approved" of a proposal without an order.
ApprovalsBacked ==
  /\ ApprovedHasOrder
  /\ \A w \in Writers, p \in Proposals : copy[w][p] = "approved" => Ordered(p)
  /\ pc[Listener] \in {"record", "approved", "saveapproved"} => Ordered(InHand.id)

Unrecorded(p) == file[p] = "absent" /\ \A w \in Writers : copy[w][p] = "absent"

\* What is still to be added is in nobody's file.
AddedOnce ==
  \A p \in Proposals :
    /\ p \notin made => Unrecorded(p)
    /\ \A w \in Writers : p \in batch[w] => p \in made /\ MadeBy[p] = w /\ Unrecorded(p)

IInv == TypeOK /\ InHandFits /\ OrdersTagged /\ ApprovalsBacked /\ AddedOnce

Saving(w) == pc[w] \in {"purging", "adding", "saveapproved", "savedenied", "saveexpired"}

\* What is on record, a decision or a pending proposal, is taken back or lost
\* only by a writer that loaded the file before it was there.  A decision may
\* also give way to the tap that was being handled when it came to be on record:
\* an expiry by a purge, or, with two emitters, one a stale copy brought back.
OnlyOverlapLosesDecisions ==
  [][\A p \in Proposals :
       \/ file'[p] = file[p]
       \/ file[p] \in {"absent", "pending"} /\ file'[p] # "absent"
       \/ file[p] \in Decided /\ MarkSave /\ InHand.id = p
       \/ \E w \in Writers : Saving(w) /\ pc'[w] # pc[w] /\ copy[w][p] # file[p]]_vars

(***************************************************************************)
(* Liveness: cron starts its discovery passes for ever and the broker is   *)
(* not out in every one of them, a started process runs on and time        *)
(* passes.  Of the cycles nothing is assumed: a halt may last.             *)
(***************************************************************************)
Fairness ==
  /\ \A p \in Proposals : WF_vars(Expires(p))
  /\ \A e \in Emitters \ Cycles : WF_vars(Emit(e))
  /\ \A e \in Emitters : WF_vars(Works(e))
  /\ WF_vars(Works(Listener)) /\ WF_vars(Listens)

FairSpec == Spec /\ Fairness

CrashesEnd == <>[][\A w \in Writers : pc'[w] = "off" => pc[w] = "off" \/ Works(w)]_vars

\* No proposal stays pending for ever, even when overlapping writers bring it
\* back, the phone is never answered and the bot stays halted: a discovery pass
\* purges whatever the halt.
PendingEnds ==
  CrashesEnd => \A p \in Proposals : file[p] = "pending" ~> file[p] # "pending"

(***************************************************************************)
(* What a comment says and the code does not do                            *)
(***************************************************************************)
\* run(): skip any backlog so a restart never re-acts on stale taps.
RestartSkipsBacklog ==
  [][Drain => offset' > Len(sent)]_vars
=============================================================================
