---------------------------- MODULE Supervision ----------------------------
(***************************************************************************)
(* DataGate with the watchdog beside it: scripts/healthcheck, a process of *)
(* its own, reads halt.json, the audit trail, the listener's heartbeat and *)
(* the bar cache, and tells the phone what is wrong, with a fingerprint of *)
(* what it told last in state/watchdog.json.                               *)
(***************************************************************************)
EXTENDS DataGate

CONSTANT None

VARIABLES
  cycled,   \* cycle_complete was audited today at or after evaluate_at
  saved,    \* watchdog.json: the issues alerted last
  quiet,    \* when: today, yesterday, or over, past the alert cooldown
  haltTold, \* history: the halt in force was alerted
  watch     \* history: this evening's probes, and what came of a missed cycle

watchVars == <<cycled, saved, quiet, haltTold, watch>>
svars == <<vars, watchVars>>

SInit ==
  /\ Init
  /\ cycled = FALSE
  /\ saved = None
  /\ quiet = "over"
  /\ haltTold = FALSE
  /\ watch = "none"

(***************************************************************************)
(* DataGate's steps, and what they change of what the watchdog reads.      *)
(***************************************************************************)
\* The alert cooldown is shorter than from midnight to the evening.
DayEnds ==
  /\ Midnight
  /\ cycled' = FALSE
  /\ watch' = "none"
  /\ quiet' = IF quiet = "today" THEN "yesterday" ELSE quiet
  /\ UNCHANGED <<saved, haltTold>>

SessionEnds ==
  /\ Close
  /\ quiet' = IF quiet = "yesterday" THEN "over" ELSE quiet
  /\ UNCHANGED <<cycled, saved, haltTold, watch>>

\* The detail of a missed cycle names the last one: it is not the same issue
\* when there was a cycle since.
Completed(fp) == IF fp # None /\ fp.missed = "yes" THEN [fp EXCEPT !.missed = "past"] ELSE fp

\* A cycle of the session may have run before evaluate_at.
CycleRuns ==
  /\ Cycle
  /\ IF halt' = "none"
     THEN /\ cycled' \in (IF part = "session" THEN {cycled, TRUE} ELSE {TRUE})
          /\ saved' = Completed(saved)
          /\ watch' = IF cycled' THEN "none" ELSE watch
          /\ UNCHANGED haltTold
     ELSE haltTold' = FALSE /\ UNCHANGED <<cycled, saved, watch>>
  /\ UNCHANGED quiet

Beside(step) ==
  /\ step
  /\ haltTold' = (haltTold /\ halt' = halt)
  /\ UNCHANGED <<cycled, saved, quiet, watch>>

Lapse ==
  /\ quiet' = "over"
  /\ UNCHANGED <<vars, cycled, saved, haltTold, watch>>

(***************************************************************************)
(* evaluate_health                                                         *)
(***************************************************************************)
\* Mutant of Missed: a halted bot is not expected to run.
MissedUnlessHalted == trading /\ part = "evening" /\ ~cycled /\ halt = "none"

\* Past evaluate_at and its grace on a trading day, and no cycle since.
Missed == trading /\ part = "evening" /\ ~cycled

\* The listener beats before each poll; a probe finds its beat fresh or old.
Beats == {"fresh", "old"}

Issues(beat) == [halt   |-> halt,
                 missed |-> IF Missed THEN "yes" ELSE "no",
                 beat   |-> beat,
                 stale  |-> age > MaxAge]

Healthy(beat) == halt = "none" /\ ~Missed /\ beat = "fresh" /\ age <= MaxAge

\* Mutant of ShouldAlert: only what changed is news.
ShouldAlertChanged(fp) == saved # fp

\* The age of an old heartbeat is part of the fingerprint, in seconds: it is
\* never the same twice.
ShouldAlert(fp) == saved # fp \/ fp.beat = "old" \/ quiet = "over"

(***************************************************************************)
(* A probe.  A healthy one leaves the fingerprint of the last alert, and   *)
(* one whose alert failed saves it all the same.                           *)
(***************************************************************************)
Alerts(beat) ==
  /\ ~Healthy(beat)
  /\ ShouldAlert(Issues(beat))
  /\ saved' = Issues(beat)
  /\ quiet' = "today"
  /\ UNCHANGED <<vars, cycled>>

AlertSent(beat) ==
  /\ Alerts(beat)
  /\ haltTold' = (halt # "none")
  /\ watch' = IF Missed THEN "told" ELSE watch

AlertLost(beat) ==
  /\ Alerts(beat)
  /\ watch' = IF Missed /\ watch # "told" THEN "failed" ELSE watch
  /\ UNCHANGED haltTold

Silent(beat) ==
  /\ Healthy(beat) \/ ~ShouldAlert(Issues(beat))
  /\ watch' = IF part = "evening" /\ watch = "none" /\ ~cycled THEN "probed" ELSE watch
  /\ UNCHANGED <<vars, cycled, saved, quiet, haltTold>>

SNext ==
  \/ DayEnds \/ SessionEnds \/ CycleRuns
  \/ Beside(Discover) \/ Beside(PhoneHalt) \/ Beside(Reset)
  \/ Beside(Heals) \/ Beside(GiveUp) \/ Beside(Crash)
  \/ Lapse
  \/ \E beat \in Beats : AlertSent(beat) \/ AlertLost(beat) \/ Silent(beat)

\* The probe is scheduled every few minutes, whether or not the listener is
\* down, and hours pass.
SFairness ==
  /\ WF_svars(DayEnds) /\ WF_svars(SessionEnds)
  /\ SF_svars(Beside(Tick)) /\ SF_svars(Beside(Clear))
  /\ WF_svars(Beside(GiveUp)) /\ WF_svars(Beside(Increment))
  /\ WF_svars(Lapse) /\ WF_svars(AlertSent("fresh") \/ AlertLost("fresh"))

SSpec == SInit /\ [][SNext]_svars /\ SFairness

(***************************************************************************)
(* Properties                                                              *)
(***************************************************************************)
\* A trading day that ends without a decision cycle, and on whose evening the
\* watchdog ran and could reach the phone, was told as missed that evening,
\* whatever was told the days before.  An alert that failed counts as told.
MissedIsTold == [][DayEnds /\ trading /\ ~cycled => watch # "probed"]_svars

\* A halt that lasts is told, also when the first alert of it was lost or an
\* equal one was told before it.
HaltIsTold ==
  <>[][\A beat \in Beats : AlertLost(beat) => AlertSent(beat)]_svars => ((halt # "none" /\ ~haltTold) ~> (halt = "none" \/ haltTold))

(***************************************************************************)
(* What a docstring says and the code does not do                          *)
(***************************************************************************)
\* healthcheck: a persistent problem alerts once, not every probe.
NotRepeated ==
  \A beat \in Beats : ShouldAlert(Issues(beat)) => saved # Issues(beat) \/ quiet = "over"
=============================================================================
