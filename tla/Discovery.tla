----------------------------- MODULE Discovery -----------------------------
(***************************************************************************)
(* Discovery passes: cron's run_discovery and the listener's /ideas, which *)
(* may run at the same time.  A pass reads what is held and pending, lets  *)
(* every source gather on a thread of its own until a shared deadline,     *)
(* scores what came in time, and proposes the best that pass the gates.    *)
(* proposals.json is written one proposal at a time; how its writers lose  *)
(* each other's updates is Approvals' subject.                             *)
(***************************************************************************)
EXTENDS Scoring, FiniteSetsExt

CONSTANTS
  Passes,      \* who runs a pass
  Phone,       \* the listener, which handles nothing else meanwhile
  Symbols,
  Configs,     \* the sets of sources that may be switched on
  Inputs,      \* for each source, what its votes may be, symbol by symbol
  Nudges,      \* sources that must not carry an idea alone
  TopN,
  MinScore     \* in tenths

SOURCES == {"congress", "technical", "news", "fundamentals", "social", "volatility"}

\* What the configuration schema lets through.
DiscoverySettings ==
  /\ TopN \in Nat \ {0} /\ MinScore \in 0..1000
  /\ DOMAIN SourceWeights \subseteq SOURCES
  /\ UNION Configs \subseteq SOURCES

\* What it does not check: that no weight is negative, and that the share of a
\* nudge, in tenths of a point, rounds to less than the floor.
SaneWeights ==
  /\ SourceWeights \in [DOMAIN SourceWeights -> Nat]
  /\ \A C \in Configs : \A s \in Nudges \cap C :
       2 * 1000 * SourceWeights[s] < (2 * MinScore - 1) * SumWeights(C)

Votes ==
  /\ UNION Configs \subseteq DOMAIN SourceWeights
  /\ \A C \in Configs : \A s \in C : Inputs[s] \subseteq [Symbols -> 0..100 \cup {NoVote}]
  /\ NoVote \notin 0..100

ASSUME DiscoveryAssumption == Phone \in Passes /\ DiscoverySettings /\ SaneWeights /\ Votes

VARIABLES
  active,      \* discovery.sources
  phase,       \* of each pass: idle, gathering, proposing
  excluded,    \* held or pending when the pass began
  thread,      \* of each source of each pass: off, running, counted, skipped
  todo,        \* ideas still to be stored and pushed
  pending,     \* pending proposals of each symbol
  held,
  overlapped,  \* history: two passes ran at the same time
  unearned     \* history: an idea was proposed that was not earned

passVars == <<phase, excluded, thread, todo>>
deskVars == <<pending, held>>
history  == <<overlapped, unearned>>
discoveryVars == <<active, passVars, deskVars, history>>

PassInit ==
  /\ active \in Configs
  /\ phase = [w \in Passes |-> "idle"]
  /\ excluded = [w \in Passes |-> {}]
  /\ thread = [w \in Passes |-> [s \in active |-> "off"]]
  /\ todo = [w \in Passes |-> {}]
  /\ pending = [x \in Symbols |-> 0]
  /\ held = {}
  /\ overlapped = FALSE
  /\ unearned = FALSE

\* Mutant of Known: what is pending is not excluded.
KnownHeld == held

Known == held \cup {x \in Symbols : pending[x] > 0}

\* Account, positions and pending proposals are read; every source starts.
Start(w) ==
  /\ phase[w] = "idle"
  /\ phase' = [phase EXCEPT ![w] = "gathering"]
  /\ excluded' = [excluded EXCEPT ![w] = Known]
  /\ thread' = [thread EXCEPT ![w] = [s \in active |-> "running"]]
  /\ overlapped' = (overlapped \/ \E v \in Passes \ {w} : phase[v] # "idle")
  /\ UNCHANGED <<active, todo, deskVars, unearned>>

\* A source answers in time: with what it gathered or with what it raised.
Collect(w, s) ==
  /\ phase[w] = "gathering"
  /\ thread[w][s] = "running"
  /\ \E answer \in {"counted", "skipped"} : thread' = [thread EXCEPT ![w][s] = answer]
  /\ UNCHANGED <<active, phase, excluded, todo, deskVars, history>>

\* Mutant of Abandoned: the results are waited for without a timeout.
AwaitedStill(w) == thread[w]

Abandoned(w) == [s \in active |-> IF thread[w][s] = "running" THEN "skipped" ELSE thread[w][s]]

\* The deadline: what still runs is not looked at any more, and may run on.
Timeout(w) ==
  /\ phase[w] = "gathering"
  /\ thread' = [thread EXCEPT ![w] = Abandoned(w)]
  /\ UNCHANGED <<active, phase, excluded, todo, deskVars, history>>

Gathered(w) == phase[w] = "gathering" /\ \A s \in active : thread[w][s] # "running"

(***************************************************************************)
(* From the votes of the sources C, of those in a, to the ideas proposed.  *)
(***************************************************************************)
VotesOf(a, C) ==
  {[x \in Symbols |-> [s \in a |-> IF s \in C THEN pick[s][x] ELSE NoVote]] :
     pick \in {f \in [C -> UNION {Inputs[s] : s \in C}] : \A s \in C : f[s] \in Inputs[s]}}

Voters(vote) == {s \in DOMAIN vote : vote[s] # NoVote}

\* Screened, neither held nor pending, and above the floor.
Scored(votes, points, block) ==
  {x \in Symbols \ block : Voters(votes[x]) # {} /\ points[x] >= MinScore}

\* The best of those that get through: at most TopN, each of them at least
\* as high as any that is left out.
Best(points, through) ==
  {P \in SUBSET through :
     /\ Cardinality(P) = Least(TopN, Cardinality(through))
     /\ \A p \in P, q \in through \ P : points[q] <= points[p]}

Vote(vote, s) == IF vote[s] = NoVote THEN 0 ELSE vote[s]

\* Every source was at least as sure of p as of q, and one more so.
Outvotes(votes, p, q) ==
  /\ \A s \in DOMAIN votes[p] : Vote(votes[p], s) >= Vote(votes[q], s)
  /\ \E s \in DOMAIN votes[p] : Vote(votes[p], s) > Vote(votes[q], s)

\* A tie that rounding made is broken by the order the symbols came in.
Earned(votes, points, P, through) ==
  /\ \A p \in P : ~\E s \in Nudges : Voters(votes[p]) = {s}
  /\ \A p \in P, q \in through \ P : Outvotes(votes, q, p) => points[q] = points[p]

\* What a pass may propose when the sources a are switched on, those in C
\* answered, with these votes, and block was excluded.  Levels, the price floor
\* and the risk gate, all against the one exposure read in the beginning, let
\* some of the scored ideas through.
ReportsOf(a, C, block, votes) ==
  LET points == [x \in Symbols |-> Score(a, votes[x])]
  IN UNION {{[on |-> a, from |-> C, blocked |-> block,
              ideas |-> P, earned |-> Earned(votes, points, P, through)] : P \in Best(points, through)} :
              through \in SUBSET Scored(votes, points, block)}

ReportsOn(a, C, block) == UNION {ReportsOf(a, C, block, votes) : votes \in VotesOf(a, C)}

Reports == UNION {UNION {ReportsOn(a, C, block) : C \in SUBSET a, block \in SUBSET Symbols} :
                    a \in Configs}

Counted(w) == {s \in active : thread[w][s] = "counted"}

Rank(w) ==
  /\ Gathered(w)
  /\ \E report \in Reports :
       /\ report.on = active /\ report.from = Counted(w) /\ report.blocked = excluded[w]
       /\ todo' = [todo EXCEPT ![w] = report.ideas]
       /\ phase' = [phase EXCEPT ![w] = IF report.ideas = {} THEN "idle" ELSE "proposing"]
       /\ unearned' = (unearned \/ ~report.earned)
  /\ thread' = [thread EXCEPT ![w] = [s \in active |-> "off"]]
  /\ excluded' = [excluded EXCEPT ![w] = {}]
  /\ UNCHANGED <<active, deskVars, overlapped>>

\* Stored, then pushed to the phone.
Add(w) ==
  /\ phase[w] = "proposing"
  /\ \E x \in todo[w] :
       /\ pending' = [pending EXCEPT ![x] = @ + 1]
       /\ todo' = [todo EXCEPT ![w] = @ \ {x}]
       /\ phase' = [phase EXCEPT ![w] = IF todo[w] = {x} THEN "idle" ELSE "proposing"]
  /\ UNCHANGED <<active, excluded, thread, held, history>>

\* Denied, expired, or approved: that buys, unless it is held by then.
Decide(x) ==
  /\ phase[Phone] = "idle"
  /\ pending[x] > 0
  /\ pending' = [pending EXCEPT ![x] = @ - 1]
  /\ held' \in {held, held \cup {x}}
  /\ UNCHANGED <<active, passVars, history>>

Closed(x) ==
  /\ x \in held
  /\ held' = held \ {x}
  /\ UNCHANGED <<active, passVars, pending, history>>

PassNext ==
  \/ \E w \in Passes :
       \/ Start(w) \/ Timeout(w) \/ Rank(w) \/ Add(w)
       \/ \E s \in active : Collect(w, s)
  \/ \E x \in Symbols : Decide(x) \/ Closed(x)

\* Time passes and a pass goes on; a source may hang.
Fairness ==
  \A w \in Passes : WF_discoveryVars(Timeout(w)) /\ WF_discoveryVars(Rank(w)) /\ WF_discoveryVars(Add(w))

PassSpec == PassInit /\ [][PassNext]_discoveryVars /\ Fairness

(***************************************************************************)
(* Properties                                                              *)
(***************************************************************************)
\* Passes one after the other, whatever is decided in between or meanwhile,
\* do not propose a symbol twice: only passes that overlap, each of them not
\* seeing what the other is about to add, do.
DuplicatesOnlyByOverlap == overlapped \/ \A x \in Symbols : pending[x] <= 1

\* Whichever sources fail or come too late, an idea that is proposed does not
\* stand on a nudge alone, and was not outvoted by one that is left out, unless
\* their scores, rounded to a tenth, tie.
IdeasEarned == ~unearned

\* A source that hangs does not hang the pass, or the listener in it.
PassEnds == \A w \in Passes : phase[w] # "idle" ~> phase[w] = "idle"
=============================================================================
