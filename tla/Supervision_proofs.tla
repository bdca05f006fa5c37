------------------------- MODULE Supervision_proofs -------------------------
(***************************************************************************)
(* The healer's cap, corrected bars and the missed cycle that is told, for *)
(* every cap, age limit, overlap and gap, and any number of crashes.       *)
(***************************************************************************)
EXTENDS Supervision, TLAPS

(***************************************************************************)
(* The self-healer's cap                                                   *)
(***************************************************************************)
Uncounted == IF heal = "cleared" THEN 1 ELSE 0

\* A torn counter is met by no healer; one that can be read accounts for all
\* resumes of the day but those a crash kept from it.
CountInv ==
  /\ count \in Nat \cup {Torn} /\ resumed \in Nat /\ crashes \in Nat
  /\ heal # "off" => count # Torn /\ count < MaxPerDay
  /\ count # Torn => count <= MaxPerDay /\ resumed <= count + crashes + Uncounted
  /\ ResumesWithinCap

\* The healer's cap and counter are as they were.
HealUnchanged == UNCHANGED healVars

\* No resume is counted at first.
LEMMA CountInitially == Init => CountInv
  BY DataGateAssumption DEF Init, CountInv, Uncounted, ResumesWithinCap

\* The count depends on the healer's variables only.
LEMMA CountStutters ==
  ASSUME CountInv, HealUnchanged
  PROVE  CountInv'
  BY DEF CountInv, HealUnchanged, healVars, Uncounted, ResumesWithinCap

\* Only the healer, a crash of it and midnight touch what is counted.
LEMMA CountStep ==
  ASSUME CountInv, Next
  PROVE  CountInv'
  <1> USE DataGateAssumption DEF CountInv, Uncounted, ResumesWithinCap
  <1>1. CASE Midnight
    BY <1>1 DEF Midnight, CountAtMidnight
  <1>2. CASE Tick
    BY <1>2 DEF Tick, WithinCap
  <1>3. CASE Clear
    BY <1>3 DEF Clear
  <1>4. CASE Increment
    BY <1>4 DEF Increment
  <1>5. CASE GiveUp
    BY <1>5 DEF GiveUp
  <1>6. CASE Crash
    <2>1. /\ count \in Nat /\ count < MaxPerDay /\ resumed <= count + crashes + 1
          /\ heal' = "off" /\ crashes' = crashes + 1 /\ resumed' = resumed
      BY <1>6 DEF Crash
    <2>2. ResumesWithinCap' /\ resumed' <= count + crashes'
      BY <2>1
    <2>3. count' = count \/ count' = Torn
      BY <1>6 DEF Crash
    <2>4. QED
      BY <2>1, <2>2, <2>3
  <1>7. CASE Close \/ Discover \/ Cycle \/ PhoneHalt \/ Reset
    <2>1. HealUnchanged
      BY <1>7 DEF HealUnchanged, Close, Discover, Cycle, PhoneHalt, Reset
    <2>2. QED
      BY <2>1, CountStutters
  <1>8. QED
    BY <1>1, <1>2, <1>3, <1>4, <1>5, <1>6, <1>7 DEF Next, Heals

(***************************************************************************)
(* Bars within reach of the next fetch                                     *)
(***************************************************************************)
\* A fetch goes back Overlap days from the newest stored bar, and so replaces all
\* that is within reach; a batch replaces everything.
LEMMA FetchReplaces ==
  ASSUME CorrectionsInReach, Ingest \/ BatchIngest
  PROVE  CorrectionsInReach'
  <1> USE DEF CorrectionsInReach
  <1>1. CASE UNCHANGED barVars
    BY <1>1 DEF barVars
  <1>2. ASSUME NEW newest, Fetch(newest)
        PROVE  CorrectionsInReach'
    <2>1. \A o \in 0..Overlap : o <= Overlap
      BY DataGateAssumption
    <2>2. \A o \in outdated : o <= Overlap
      BY <2>1
    <2>3. outdated \ {o \in outdated : o <= Overlap} = {}
      BY <2>2, Zenon
    <2>4. outdated' = {}
      BY <1>2, <2>3 DEF Fetch, Upsert
    <2>5. QED
      BY <2>4
  <1>3. ASSUME NEW newest, FetchAll(newest)
        PROVE  CorrectionsInReach'
    BY <1>3 DEF FetchAll, Upsert
  <1>4. QED
    BY <1>1, <1>2, <1>3 DEF Ingest, BatchIngest

\* What becomes outdated is within reach: today's bar at the close, and overnight
\* the bars that are then at most Overlap days old.
LEMMA ReachStep ==
  ASSUME CorrectionsInReach, Next
  PROVE  CorrectionsInReach'
  <1> USE DEF CorrectionsInReach
  <1>1. CASE Discover
    BY <1>1, FetchReplaces DEF Discover
  <1>2. CASE Cycle
    BY <1>2, FetchReplaces DEF Cycle, FeedDown, barVars
  <1>3. CASE Close
    BY <1>3, DataGateAssumption DEF Close
  <1>4. CASE Midnight
    <2>1. PICK corrected \in SUBSET Correctable : outdated' = outdated \cup corrected
      BY <1>4 DEF Midnight
    <2>2. QED
      BY <2>1 DEF Correctable
  <1>5. CASE PhoneHalt \/ Reset \/ Heals \/ GiveUp \/ Crash
    BY <1>5 DEF PhoneHalt, Reset, Heals, Tick, Clear, Increment, GiveUp, Crash, barVars
  <1>6. QED
    BY <1>1, <1>2, <1>3, <1>4, <1>5 DEF Next

(***************************************************************************)
(* The missed cycle                                                        *)
(***************************************************************************)
Unran == part = "evening" /\ trading /\ ~cycled

\* An alert of today was sent in the session, when nothing was missed yet, or
\* this evening, and then it told what was missed; what was alerted before
\* today is past its cooldown by the evening.
ToldInv ==
  /\ part \in {"session", "evening"}
  /\ quiet \in {"today", "yesterday", "over"}
  /\ part = "evening" => quiet # "yesterday"
  /\ part = "session" /\ quiet = "today" => saved.missed # "yes"
  /\ part = "session" \/ Unran => watch # "probed"
  /\ Unran /\ quiet = "today" /\ saved.missed = "yes" => watch # "none"

\* On the first morning no probe has run.
LEMMA ToldInitially == SInit => ToldInv
  BY DEF SInit, Init, ToldInv, Unran

\* DataGate's steps between midnight and the close leave the clock alone.
LEMMA ClockStands ==
  ASSUME Discover \/ Cycle \/ PhoneHalt \/ Reset \/ Heals \/ GiveUp \/ Crash
  PROVE  part' = part /\ trading' = trading
  BY DEF Discover, Cycle, PhoneHalt, Reset, Heals, Tick, Clear, Increment, GiveUp, Crash, clockVars

\* An issue is found when no cycle has run.
LEMMA IssuesMissed ==
  ASSUME NEW beat
  PROVE  Issues(beat).missed = IF Missed THEN "yes" ELSE "no"
  BY DEF Issues

\* Every step keeps what the probe owes the operator.
LEMMA ToldStep ==
  ASSUME ToldInv, SNext
  PROVE  ToldInv'
  <1> USE DEF ToldInv, Unran
  <1>1. CASE DayEnds
    BY <1>1 DEF DayEnds, Midnight
  <1>2. CASE SessionEnds
    BY <1>2 DEF SessionEnds, Close
  <1>3. CASE CycleRuns
    <2>1. part' = part /\ trading' = trading /\ quiet' = quiet
      BY <1>3, ClockStands DEF CycleRuns
    <2>2. CASE halt' = "none" /\ part = "session"
      <3>1. saved.missed # "yes" => saved' = saved
        BY <1>3, <2>2 DEF CycleRuns, Completed
      <3>2. watch' # "probed"
        BY <1>3, <2>2 DEF CycleRuns
      <3>3. QED
        BY <2>1, <2>2, <3>1, <3>2
    <2>3. CASE halt' = "none" /\ part # "session"
      BY <1>3, <2>1, <2>3 DEF CycleRuns
    <2>4. CASE halt' # "none"
      BY <1>3, <2>1, <2>4 DEF CycleRuns
    <2>5. QED
      BY <2>2, <2>3, <2>4
  <1>4. CASE \/ Beside(Discover) \/ Beside(PhoneHalt) \/ Beside(Reset)
             \/ Beside(Heals) \/ Beside(GiveUp) \/ Beside(Crash)
    BY <1>4, ClockStands DEF Beside
  <1>5. CASE Lapse
    BY <1>5 DEF Lapse, vars
  <1>6. ASSUME NEW beat \in Beats, AlertSent(beat)
        PROVE  ToldInv'
    BY <1>6, IssuesMissed DEF AlertSent, Alerts, vars, Missed
  <1>7. ASSUME NEW beat \in Beats, AlertLost(beat)
        PROVE  ToldInv'
    BY <1>7, IssuesMissed DEF AlertLost, Alerts, vars, Missed
  <1>8. ASSUME NEW beat \in Beats, Silent(beat)
        PROVE  ToldInv'
    <2>1. /\ UNCHANGED <<part, trading, cycled, saved, quiet>>
          /\ watch' = IF part = "evening" /\ watch = "none" /\ ~cycled THEN "probed" ELSE watch
      BY <1>8 DEF Silent, vars
    <2>2. Unran /\ watch = "none" => FALSE
      <3>1. SUFFICES ASSUME Unran, watch = "none" PROVE FALSE
        OBVIOUS
      <3>2. Missed
        BY <3>1 DEF Missed
      <3>3. saved = Issues(beat) /\ quiet # "over"
        BY <1>8, <3>2 DEF Silent, Healthy, ShouldAlert
      <3>4. saved.missed = "yes" /\ quiet = "today"
        BY <3>1, <3>2, <3>3, IssuesMissed
      <3>5. QED
        BY <3>1, <3>4
    <2>3. QED
      BY <2>1, <2>2
  <1>9. QED
    BY <1>1, <1>2, <1>3, <1>4, <1>5, <1>6, <1>7, <1>8 DEF SNext

(***************************************************************************)
(* Theorems                                                                *)
(***************************************************************************)
IInv == CountInv /\ CorrectionsInReach /\ ToldInv

\* Every step of the watchdog's module is one of DataGate's or leaves its
\* variables alone.
LEMMA GateStep == SNext => Next \/ UNCHANGED vars
  BY DEF SNext, DayEnds, SessionEnds, CycleRuns, Beside, Lapse, AlertSent, AlertLost,
         Alerts, Silent, Next

\* The strengthening of the three theorems below holds of every behaviour.
THEOREM Invariance == SSpec => []IInv
  <1>1. SInit => IInv
    BY CountInitially, ToldInitially DEF SInit, Init, IInv, CorrectionsInReach
  <1>2. IInv /\ [SNext]_svars => IInv'
    <2>1. SUFFICES ASSUME IInv, [SNext]_svars PROVE IInv'
      OBVIOUS
    <2>2. CASE UNCHANGED svars
      BY <2>1, <2>2 DEF IInv, svars, vars, watchVars, CountInv, Uncounted, ResumesWithinCap,
                        CorrectionsInReach, ToldInv, Unran
    <2>3. CASE SNext
      <3>1. ToldInv'
        BY <2>1, <2>3, ToldStep DEF IInv
      <3>2. CASE Next
        BY <2>1, <3>1, <3>2, CountStep, ReachStep DEF IInv
      <3>3. CASE UNCHANGED vars
        BY <2>1, <3>1, <3>3 DEF IInv, vars, CountInv, Uncounted, ResumesWithinCap, CorrectionsInReach
      <3>4. QED
        BY <2>3, <3>2, <3>3, GateStep
    <2>4. QED
      BY <2>1, <2>2, <2>3
  <1>3. QED
    BY <1>1, <1>2, PTL DEF SSpec

\* The resumes of a day exceed the cap at most by the crashes between a clear
\* and its count.
THEOREM CapHolds == SSpec => []ResumesWithinCap
  <1>1. IInv => ResumesWithinCap
    BY DEF IInv, CountInv
  <1>2. QED
    BY <1>1, Invariance, PTL

\* A bar stored before its session ended, or corrected within the overlap, is
\* never out of reach of the next fetch, however long the cache is not fetched.
THEOREM ReachHolds == SSpec => []CorrectionsInReach
  <1>1. IInv => CorrectionsInReach
    BY DEF IInv
  <1>2. QED
    BY <1>1, Invariance, PTL

\* A trading day without a decision cycle does not end with the watchdog
\* having looked that evening and kept silent.
THEOREM MissedHolds == SSpec => MissedIsTold
  <1>1. IInv => (DayEnds /\ trading /\ ~cycled => watch # "probed")
    BY DEF IInv, ToldInv, Unran, DayEnds, Midnight
  <1>2. QED
    BY <1>1, Invariance, PTL DEF MissedIsTold
=============================================================================
