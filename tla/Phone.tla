------------------------------- MODULE Phone --------------------------------
(***************************************************************************)
(* A message to the listener, from its arrival to what it does: voice, the *)
(* language model's answer or the local patterns in its place, the asset   *)
(* catalog, the confirmation, and the order path with its rate limits.     *)
(***************************************************************************)
EXTENDS Phrases, Breakers

CONSTANTS
  Listed,     \* symbols the broker lists as tradable; an empty list is no answer
  Messages,   \* free texts the user may send or say
  Asked,      \* commands: typed with a slash, or named by the model
  MaxSteps,   \* model turns of one agent call
  MaxOrders,  \* orders modelled
  MaxTime     \* ticks modelled

ASSUME PhoneAssumption ==
  /\ Listed \subseteq Tickers /\ Listed # {}
  /\ Messages \subseteq Texts
  /\ Asked \subseteq Commands
  /\ {MaxSteps, MaxOrders, MaxTime} \subseteq Nat \ {0}

VARIABLES
  stage,     \* what the listener is doing
  text,      \* the text being understood
  steps,     \* model turns taken for it
  command,   \* what it was understood as
  cache,     \* state/assets_cache.json
  catalog,   \* the resolver's copy of it, kept for the life of the process
  shown,     \* buttons on the phone: buys to confirm, and "flatten"
  held,      \* symbols tracked in positions.json
  halted,
  breakers,  \* the listener's CircuitBreakers
  counted,   \* when each order was counted, since the listener started
  now

talk  == <<stage, text, steps, command>>
names == <<cache, catalog>>
trade == <<held, halted, breakers, counted>>
vars  == <<talk, names, shown, trade, now>>

Unasked == [cmd |-> "unknown"]

TypeOK ==
  /\ stage \in {"idle", "voice", "think", "act"}
  /\ text \in Messages \cup {<<>>}
  /\ steps \in 0..MaxSteps
  /\ command \in Commands
  /\ cache \in {"none", "old", "fresh"}
  /\ catalog \in {"unread", "empty", "read"}
  /\ shown \subseteq Symbols \cup {"flatten"}
  /\ held \subseteq Symbols
  /\ halted \in BOOLEAN
  /\ breakers \in [times : Seq(0..MaxTime), count : 0..MaxOrders, day : 0..DayOf(MaxTime)]
  /\ counted \in Seq(0..MaxTime)
  /\ now \in 0..MaxTime

Init ==
  /\ stage = "idle" /\ text = <<>> /\ steps = 0 /\ command = Unasked
  /\ cache \in {"none", "old", "fresh"}
  /\ catalog = "unread"
  /\ shown = {} /\ held = {} /\ halted = FALSE
  /\ breakers = NoOrders /\ counted = <<>>
  /\ now = 0

\* What a message is waiting for; no text, turn or command is kept past it.
Becomes(st, t, n, c) == stage' = st /\ text' = t /\ steps' = n /\ command' = c
Idle == Becomes("idle", <<>>, 0, Unasked)

(***************************************************************************)
(* handle_message: a slash command, a free text, or a voice message.       *)
(***************************************************************************)
Typed ==
  /\ stage = "idle"
  /\ \E c \in Asked : Becomes("act", <<>>, 0, c)
  /\ UNCHANGED <<names, shown, trade, now>>

Said ==
  /\ stage = "idle"
  /\ \/ \E t \in Messages : Becomes("think", t, 0, Unasked)
     \/ Becomes("voice", <<>>, 0, Unasked)
  /\ UNCHANGED <<names, shown, trade, now>>

\* whisper, ffmpeg or the model file missing, the download, the conversion or
\* the transcription failing, or silence: an answer, and nothing is done.
Transcribe ==
  /\ stage = "voice"
  /\ Idle \/ \E t \in Messages : Becomes("think", t, 0, Unasked)
  /\ UNCHANGED <<names, shown, trade, now>>

(***************************************************************************)
(* NLCommandParser.parse.  The router has no tools: a call of one gets an  *)
(* error for an answer and costs a turn.                                   *)
(***************************************************************************)
\* Mutant of ToolTurn: the turns are not counted.
ToolTurnUncounted ==
  /\ steps <= MaxSteps
  /\ Becomes("think", text, 1 - steps, Unasked)

ToolTurn ==
  /\ steps + 1 < MaxSteps
  /\ Becomes("think", text, steps + 1, Unasked)

\* No key, an exception, no JSON object, or turns used up.
FallBack == Becomes("act", <<>>, 0, ParseNL(text))

\* _normalize: whatever the object holds is made a command, or "unknown".
Understood == \E c \in Asked : Becomes("act", <<>>, 0, c)

Think ==
  /\ stage = "think"
  /\ \/ ToolTurn
     \/ FallBack
     \/ Understood
  /\ UNCHANGED <<names, shown, trade, now>>

(***************************************************************************)
(* SymbolResolver: the catalog is read once per process; a file younger    *)
(* than 72 hours, or the broker, or the old file, or nothing.              *)
(***************************************************************************)
\* Mutant of Load: a refresh that failed forgets the old file.
LoadOrNothing ==
  \/ catalog # "unread" /\ UNCHANGED names
  \/ catalog = "unread" /\ cache = "fresh" /\ catalog' = "read" /\ UNCHANGED cache
  \/ catalog = "unread" /\ cache # "fresh" /\ catalog' = "read" /\ cache' = "fresh"
  \/ catalog = "unread" /\ cache # "fresh" /\ catalog' = "empty" /\ UNCHANGED cache

Load ==
  \/ catalog # "unread" /\ UNCHANGED names
  \/ catalog = "unread" /\ cache = "fresh" /\ catalog' = "read" /\ UNCHANGED cache
  \/ catalog = "unread" /\ cache # "fresh" /\ catalog' = "read" /\ cache' = "fresh"
  \/ /\ catalog = "unread" /\ cache # "fresh"
     /\ catalog' = IF cache = "old" THEN "read" ELSE "empty"
     /\ UNCHANGED cache

\* What a query can resolve to in assets c.  Without assets whatever is
\* shaped like a ticker is trusted; a name search finds one listing or none.
Resolutions(s, c) ==
  IF s \in c \/ (c = {} /\ s # NoSym) THEN {s} ELSE c \cup {NoSym}

Assets == IF catalog' = "read" THEN Listed ELSE {}

(***************************************************************************)
(* _dispatch and _handle_natural_language.                                 *)
(***************************************************************************)
Answer ==
  /\ stage = "act"
  /\ command.cmd \in {"status", "pending", "help", "run", "unknown"}
  /\ Idle
  /\ UNCHANGED <<names, shown, trade, now>>

\* A quantity that is no whole number, or none above zero, is asked for again.
Complete(c) == c.qty > 0

AskFlatten ==
  /\ stage = "act"
  /\ command.cmd = "flatten"
  /\ Idle
  /\ shown' = shown \cup {"flatten"}
  /\ UNCHANGED <<names, trade, now>>

BuyConfirm ==
  /\ stage = "act"
  /\ command.cmd = "buy"
  /\ Idle
  /\ IF Complete(command)
     THEN /\ Load
          /\ \E s \in Resolutions(command.sym, Assets) : shown' = shown \cup ({s} \ {NoSym})
     ELSE UNCHANGED <<names, shown>>
  /\ UNCHANGED <<trade, now>>

\* No button: the close is placed at once.  Not tracked, busy, or a broker
\* that fails: an answer only.
Close ==
  /\ stage = "act"
  /\ command.cmd = "close"
  /\ Idle
  /\ held' = held \ {command.sym} \/ UNCHANGED held
  /\ UNCHANGED <<names, shown, halted, breakers, counted, now>>

Control ==
  /\ stage = "act"
  /\ command.cmd \in {"halt", "reset"}
  /\ Idle
  /\ halted' = (command.cmd = "halt") \/ UNCHANGED halted
  /\ UNCHANGED <<names, shown, held, breakers, counted, now>>

(***************************************************************************)
(* handle_callback: the buttons, which can be tapped again and again.      *)
(***************************************************************************)
FlattenAll ==
  /\ stage = "idle"
  /\ "flatten" \in shown
  /\ \E left \in SUBSET held : held' = left
  /\ UNCHANGED <<talk, names, shown, halted, breakers, counted, now>>

\* The gate looks at the rates first; a veto for another reason, a closed
\* market, a failed or a dead entry leave the order uncounted.
NotPlaced(s) ==
  /\ ~halted /\ s \notin held
  /\ breakers' = Checked(breakers, now)
  /\ UNCHANGED <<held, halted, counted>>

Placed(s) ==
  /\ ~halted /\ s \notin held
  /\ WithinRates(Checked(breakers, now))
  /\ Len(counted) < MaxOrders
  /\ breakers' = RegisterOrder(Checked(breakers, now), now)
  /\ counted' = Append(counted, now)
  /\ held' = held \cup {s}
  /\ UNCHANGED halted

PlaceManual ==
  /\ stage = "idle"
  /\ \E s \in shown \ {"flatten"} : NotPlaced(s) \/ Placed(s)
  /\ UNCHANGED <<talk, names, shown, now>>

(***************************************************************************)
(* Time, the market, and a listener that dies.                             *)
(***************************************************************************)
Tick ==
  /\ now < MaxTime
  /\ now' = now + 1
  /\ cache' \in {cache, IF cache = "fresh" THEN "old" ELSE cache}
  /\ UNCHANGED <<talk, catalog, shown, trade>>

StoppedOut ==
  /\ held # {}
  /\ \E s \in held : held' = held \ {s}
  /\ UNCHANGED <<talk, names, shown, halted, breakers, counted, now>>

Restart ==
  /\ Idle
  /\ catalog' = "unread"
  /\ breakers' = NoOrders /\ counted' = <<>>
  /\ UNCHANGED <<cache, shown, held, halted, now>>

Handles == Transcribe \/ Think \/ Answer \/ AskFlatten \/ BuyConfirm \/ Close \/ Control

Next ==
  \/ Typed \/ Said \/ Handles
  \/ FlattenAll \/ PlaceManual
  \/ Tick \/ StoppedOut \/ Restart

Spec == Init /\ [][Next]_vars /\ WF_vars(Handles)

(***************************************************************************)
(* Properties                                                              *)
(***************************************************************************)
Recent == {i \in DOMAIN counted : now - counted[i] <= Window}
Today  == {i \in DOMAIN counted : DayOf(counted[i]) = DayOf(now)}

\* The rate limits refuse an order exactly when the window or the ET date is
\* full, counted from scratch: after any number of midnights, silences and
\* refusals, no order slips through and no count of an earlier day refuses
\* one for ever.
RatesExact ==
  WithinRates(Checked(breakers, now)) <=>
    Cardinality(Recent) < PerWindow /\ Cardinality(Today) < PerDay

\* What TLC checks of every state.
Inv == TypeOK /\ RatesExact

\* Once a catalog was ever saved, a buy is offered for confirmation only of a
\* listed symbol, through outages of the broker, an old file and restarts,
\* whatever the model or the patterns made of the message.
BuysAreListed ==
  [][\A s \in shown' \ shown : s \in Listed \cup {"flatten"} \/ cache' = "none"]_vars

\* Every message is done with, whatever the model answers or keeps asking.
MessagesEnd == stage # "idle" ~> stage = "idle"

(***************************************************************************)
(* What comments say and the code does not do                              *)
(***************************************************************************)
\* _parse_nl: "close my AAPL position" is a close of AAPL.
ClosesWhatItNames ==
  [][\A s \in Tickers :
       text = <<"close", "my", s>> /\ FallBack => command'.sym = s]_vars

\* _parse_nl: "clear halt" and "un-halt" are ways to ask for a reset.
ClearingResets ==
  [][Adjacent(text, "clear", "halt") /\ FallBack => command'.cmd # "halt"]_vars
=============================================================================
