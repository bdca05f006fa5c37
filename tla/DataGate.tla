------------------------------ MODULE DataGate ------------------------------
(***************************************************************************)
(* Bars, the halt on stale ones, and the way back: the cache of daily bars *)
(* of one symbol, who fills it and when, the cycle that halts on its age,  *)
(* and the self-healer, which only reads it, with its cooldown and its     *)
(* daily cap kept in state/self_heal.json.                                 *)
(*                                                                         *)
(* Days are told apart by the age of what was stored, so time goes on for  *)
(* ever in finitely many states.                                           *)
(***************************************************************************)
EXTENDS Naturals

CONSTANTS
  MaxAge,      \* settings.data.max_bar_age_days
  Overlap,     \* _INCREMENTAL_OVERLAP_DAYS: how far behind its newest bar a fetch starts
  MaxGap,      \* longest weekend, in days between two sessions
  MaxPerDay,   \* settings.self_heal.max_per_day
  MaxCrashes,  \* bound: how often the healer dies
  Torn         \* a counter file that cannot be parsed

ASSUME DataGateAssumption ==
  /\ MaxGap \in Nat \ {0}
  /\ MaxAge \in Nat /\ MaxAge >= MaxGap
  /\ Overlap \in Nat
  /\ MaxPerDay \in Nat \ {0}
  /\ MaxCrashes \in Nat
  /\ Torn \notin Nat

VARIABLES
  part,      \* of the day: "session" until 16:00 ET, then "evening"
  trading,   \* today has a session
  gap,       \* days since the last session before today
  age,       \* days since the newest stored bar, at most Old
  outdated,  \* the stored bars that differ from the provider's, as days before the newest
  halt,      \* halt.json: none, stale_data or manual
  heal,      \* how far the self-healer has come
  unchanged, \* halt.json was not written since the healer read it
  count,     \* self_heal.json: resumes today, or torn by a crash
  resumed,   \* history: halts cleared today
  crashes

clockVars == <<part, trading, gap>>
barVars   == <<age, outdated>>
haltVars  == <<halt, unchanged>>
healVars  == <<heal, count, resumed, crashes>>
vars == <<part, trading, gap, age, outdated, halt, heal,
          unchanged, count, resumed, crashes>>

\* From here on ages are not told apart.
Old == IF MaxAge > Overlap THEN MaxAge + 1 ELSE Overlap + 1

Init ==
  /\ part = "session"
  /\ trading = TRUE
  /\ gap = 1
  /\ age = 1
  /\ outdated = {}
  /\ halt = "none"
  /\ heal = "off"
  /\ unchanged = FALSE
  /\ count = 0
  /\ resumed = 0
  /\ crashes = 0

(***************************************************************************)
(* The calendar (external).                                                *)
(***************************************************************************)
\* A bar of today that was stored during the session is not the final one.
Close ==
  /\ part = "session"
  /\ part' = "evening"
  /\ outdated' = IF age = 0 THEN outdated \cup {0} ELSE outdated
  /\ UNCHANGED <<trading, gap, age, haltVars, healVars>>

\* Mutant of CountAtMidnight: the date of the counter is not looked at.
CountStays == count

\* The healer's counter is of another day, unless it cannot be read.
CountAtMidnight == IF count = Torn THEN Torn ELSE 0

\* What the provider may correct overnight: bars that are then at most Overlap days
\* old.
Correctable == {o \in 0..Overlap : age + 1 + o <= Overlap}

Midnight ==
  /\ part = "evening"
  /\ part' = "session"
  /\ gap' = IF trading THEN 1 ELSE gap + 1
  /\ trading' \in (IF gap' = MaxGap THEN {TRUE} ELSE BOOLEAN)
  /\ age' = IF age = Old THEN age ELSE age + 1
  /\ \E corrected \in SUBSET Correctable : outdated' = outdated \cup corrected
  /\ count' = CountAtMidnight
  /\ resumed' = 0
  /\ UNCHANGED <<haltVars, heal, crashes>>

(***************************************************************************)
(* ingest_symbol and batch_ingest_universe.                                *)
(***************************************************************************)
\* The newest bar is dated today, whenever it was stored.
AlreadyFresh == age = 0

\* How old the newest bar of the provider's answer is: of today's session, or of
\* the one before it, as long as the symbol has not traded today.
Answers == IF trading THEN {0, gap} ELSE {gap}

\* Days before the newest bar: an offset grows with every newer bar that is stored,
\* and beyond Overlap it is not told apart.
Farther(o, newest) == IF o + age - newest > Overlap THEN Overlap + 1 ELSE o + age - newest

\* What is fetched replaces what was stored of its day.
Upsert(newest, fetched) ==
  /\ age' = newest
  /\ outdated' = {Farther(o, newest) : o \in outdated \ fetched}

\* Mutant of Fetch: the window goes back from today.
FetchBackFromToday(newest) == Upsert(newest, {o \in outdated : o + age <= Overlap})

\* ingest_symbol's window goes back from the newest stored bar.
Fetch(newest) == Upsert(newest, {o \in outdated : o <= Overlap})

\* batch_ingest_universe asks for the whole lookback.
FetchAll(newest) == Upsert(newest, outdated)

Ingest == IF AlreadyFresh THEN UNCHANGED barVars
                          ELSE \E newest \in Answers : Fetch(newest)

BatchIngest == IF AlreadyFresh THEN UNCHANGED barVars
                               ELSE \E newest \in Answers : FetchAll(newest)

\* The provider's answer is empty: nothing is upserted.
FeedDown == UNCHANGED barVars

\* drop_incomplete_bar: during the session a bar of today is not shown.
DroppedToday == age' = 0 /\ part = "session"
ShownAge     == IF DroppedToday THEN gap ELSE age'

(***************************************************************************)
(* Who ingests: a discovery pass at any time, halted or not, in a batch    *)
(* for its universe and one by one outside it, and a cycle that is not     *)
(* halted.                                                                 *)
(***************************************************************************)
Discover ==
  /\ Ingest \/ BatchIngest
  /\ UNCHANGED <<clockVars, haltVars, healVars>>

Write(class) ==
  /\ halt' = class
  /\ unchanged' = FALSE

\* All that could be age-checked is stale: the cycle halts.  A provider that
\* raises is isolated, and nothing is checked.
Cycle ==
  /\ halt = "none"
  /\ \/ /\ Ingest \/ FeedDown
        /\ IF ShownAge > MaxAge THEN Write("stale_data") ELSE UNCHANGED haltVars
     \/ UNCHANGED <<barVars, haltVars>>
  /\ UNCHANGED <<clockVars, healVars>>

PhoneHalt ==
  /\ Write("manual")
  /\ UNCHANGED <<clockVars, barVars, healVars>>

Reset ==
  /\ Write("none")
  /\ UNCHANGED <<clockVars, barVars, healVars>>

(***************************************************************************)
(* The self-healer: every gate, then the compare-and-clear, the counter.   *)
(***************************************************************************)
\* Mutant of WithinCap: the count is not read back from the file.
WithinAnyCap == count # Torn

\* A counter that cannot be parsed raises, on this and every later tick.
WithinCap == count # Torn /\ count < MaxPerDay

\* _data_is_fresh looks at the raw cache, today's bar included.
Verified == age <= MaxAge

\* A tick within the cooldown does nothing.
Tick ==
  /\ heal = "off"
  /\ halt = "stale_data"
  /\ WithinCap
  /\ Verified
  /\ heal' = "verified"
  /\ unchanged' = TRUE
  /\ UNCHANGED <<clockVars, barVars, halt, count, resumed, crashes>>

\* Under the lock: another halt is left alone.  The lock may be busy.
GiveUp ==
  /\ heal = "verified"
  /\ heal' = "off"
  /\ unchanged' = FALSE
  /\ UNCHANGED <<clockVars, barVars, halt, count, resumed, crashes>>

Clear ==
  /\ heal = "verified"
  /\ unchanged
  /\ Write("none")
  /\ heal' = "cleared"
  /\ resumed' = resumed + 1
  /\ UNCHANGED <<clockVars, barVars, count, crashes>>

Increment ==
  /\ heal = "cleared"
  /\ count' = IF count = Torn THEN Torn ELSE count + 1
  /\ heal' = "off"
  /\ UNCHANGED <<clockVars, barVars, haltVars, resumed, crashes>>

\* The counter is a plain write: a crash loses it or tears it.  A crash before
\* the halt was cleared is a tick that gave up.
Crash ==
  /\ heal = "cleared"
  /\ crashes < MaxCrashes
  /\ crashes' = crashes + 1
  /\ heal' = "off"
  /\ count' \in {count, Torn}
  /\ UNCHANGED <<clockVars, barVars, haltVars, resumed>>

Heals == Tick \/ Clear \/ Increment

Next ==
  \/ Close \/ Midnight
  \/ Discover \/ Cycle \/ PhoneHalt \/ Reset
  \/ Heals \/ GiveUp \/ Crash

Spec == Init /\ [][Next]_vars

(***************************************************************************)
(* Safety                                                                  *)
(***************************************************************************)
TypeOK ==
  /\ part \in {"session", "evening"}
  /\ trading \in BOOLEAN
  /\ gap \in 1..MaxGap
  /\ age \in 0..Old
  /\ outdated \subseteq 0..Overlap + 1
  /\ halt \in {"none", "stale_data", "manual"}
  /\ unchanged \in BOOLEAN
  /\ heal \in {"off", "verified", "cleared"}
  /\ count \in Nat \cup {Torn}
  /\ resumed \in Nat /\ crashes \in Nat

\* The resumes of a day, counted after the halt was cleared and the lock
\* released, exceed the cap at most by the crashes in between.
ResumesWithinCap == resumed <= MaxPerDay + crashes

\* A bar that was stored before its session ended, or that was corrected within
\* Overlap days of its date, is never out of reach of the next fetch: although a
\* cache that is fresh today is not fetched again, a quiet symbol's answer ends
\* before today, and days go by without a fetch.
CorrectionsInReach == outdated \subseteq 0..Overlap

(***************************************************************************)
(* Liveness: days pass and the healer is scheduled.                        *)
(***************************************************************************)
Fairness ==
  /\ WF_vars(Close) /\ WF_vars(Midnight)
  /\ SF_vars(Tick) /\ SF_vars(Clear) /\ WF_vars(GiveUp) /\ WF_vars(Increment)

FairSpec == Spec /\ Fairness

\* A stale-data halt ends as long as discovery passes get through to the feed,
\* although the halted cycle no longer ingests and the healer only looks.  A
\* used-up cap lasts until midnight; a torn counter stops the healer for good.
StaleHaltHeals ==
  []<><<Discover>>_vars /\ [](count # Torn) => (halt = "stale_data" ~> halt # "stale_data")

(***************************************************************************)
(* What a docstring says and the code does not do                          *)
(***************************************************************************)
\* live_feature_provider: signals always match what the backtester sees.  But
\* in the evening a bar stored during the session is taken for finished, and
\* is not fetched again.
EveningBarsAreFinished == part = "evening" /\ AlreadyFresh => 0 \notin outdated
=============================================================================
