------------------------------- MODULE Advice -------------------------------
(***************************************************************************)
(* What the bot may advise and only the operator may apply: the rotation   *)
(* of strategies (state/rotation.json) and the weights of the discovery    *)
(* sources (state/discovery_weights.json).  Both go the same way: a        *)
(* proposal is validated and stored, and on approval it is read again,     *)
(* applied, saved and then marked.  The listener is the only writer, one   *)
(* update at a time; it may die between the save and the mark.             *)
(***************************************************************************)
EXTENDS Integers, FiniteSets, Functions

CONSTANTS
  Strategies,
  OnByDefault,   \* enabled in config/strategies.yaml
  MaxWeight,     \* strategies.rotation_max_weight
  Sources,
  Configured,    \* discovery.weights, in thousandths
  Histories,     \* what the ledger may say of a source
  MinSample,     \* ledger rows a source needs to be judged
  MinDelta,      \* smallest change worth proposing, in thousandths
  Rotations,     \* rotation proposal ids: bounds how many are made
  Reweights,     \* weight proposal ids
  MaxCrashes,
  None

\* Every source has some weight, in the configuration and ever after.
Weighting == [Sources -> Nat \ {0}]

\* A history: rows in the ledger, rows that were proposed, average score
\* in tenths.
History == [surfaced : Nat, proposed : Nat, score : 0..10]

ASSUME AdviceAssumption ==
  /\ OnByDefault \subseteq Strategies
  /\ OnByDefault # {}
  /\ MaxWeight \in Nat \ {0}
  /\ IsFiniteSet(Sources) /\ IsFiniteSet(Reweights)
  /\ Configured \in Weighting
  /\ Histories \subseteq History
  /\ MinSample \in Nat \ {0}
  /\ MinDelta \in Nat
  /\ MaxCrashes \in Nat
  /\ Rotations \cap Reweights = {}

VARIABLES
  state,      \* rotation.json: the entry of each strategy that has one
  rotation,   \* rotation_proposals.json
  weights,    \* discovery_weights.json, or None before the first approval
  reweight,   \* discovery_weight_proposals.json
  ledger,     \* the ledger's summary of each source
  marking,    \* the proposal applied and not yet marked, or None
  applied,    \* history: how often each proposal was applied
  crashes

rotationVars == <<state, rotation>>
weightVars == <<weights, reweight, ledger>>
vars == <<state, rotation, weights, reweight, ledger, marking, applied, crashes>>

Actions  == {"enable", "disable", "reweight"}
Statuses == {"pending", "approved", "denied", "expired"}
Weights  == 0..MaxWeight
Entry    == [enabled : BOOLEAN, weight : Weights]
Change   == [action : Actions \ {"reweight"}, strategy : Strategies, weight : {0}]
       \cup [action : {"reweight"}, strategy : Strategies, weight : Weights]
Proposal == [change : Change, status : Statuses]

ASSUME NoneAssumption == None \notin Rotations \cup Reweights \cup Entry \cup Proposal

\* A weight proposal before it is made.
NotMade == [weights |-> None, base |-> None, judged |-> {}, status |-> "none"]

Init ==
  /\ state = [s \in Strategies |-> None]
  /\ rotation = [r \in Rotations |-> None]
  /\ weights = None
  /\ reweight = [r \in Reweights |-> NotMade]
  /\ ledger = [c \in Sources |-> [surfaced |-> 0, proposed |-> 0, score |-> 0]]
  /\ marking = None
  /\ applied = [r \in Rotations \cup Reweights |-> 0]
  /\ crashes = 0

(***************************************************************************)
(* Rotation                                                                *)
(***************************************************************************)
IsEnabled(st, s) ==
  IF st[s] = None THEN s \in OnByDefault ELSE st[s].enabled /\ st[s].weight > 0

Active(st) == {s \in Strategies : IsEnabled(st, s)}

\* An entry that is missing starts enabled, whatever the default says.
EntryOf(st, s) == IF st[s] = None THEN [enabled |-> TRUE, weight |-> 1] ELSE st[s]

Apply(st, ch) ==
  LET cur == EntryOf(st, ch.strategy)
  IN [st EXCEPT ![ch.strategy] =
        CASE ch.action = "disable" -> [enabled |-> FALSE, weight |-> cur.weight]
          [] ch.action = "enable"  -> [enabled |-> TRUE, weight |-> cur.weight]
          [] OTHER                 -> [enabled |-> ch.weight > 0, weight |-> ch.weight]]

\* What stays active is compared before the change: a strategy that is
\* enabled at weight zero is not.
ResultingEnabled(st, ch) ==
  IF ch.action = "disable" \/ (ch.action = "reweight" /\ ch.weight = 0)
  THEN Active(st) \ {ch.strategy}
  ELSE IF ch.action = "enable" THEN Active(st) \cup {ch.strategy}
  ELSE Active(st)

Valid(st, ch) == ResultingEnabled(st, ch) # {}

Propose(r, ch) ==
  /\ marking = None
  /\ rotation[r] = None
  /\ Valid(state, ch)
  /\ rotation' = [rotation EXCEPT ![r] = [change |-> ch, status |-> "pending"]]
  /\ UNCHANGED <<state, weightVars, marking, applied, crashes>>

Mark(r, status) == rotation' = [rotation EXCEPT ![r].status = status]

Pending(r) == rotation[r] # None /\ rotation[r].status = "pending"

\* Mutant of Approve: validated when it was proposed, not again.
ApproveStale(r) ==
  /\ marking = None
  /\ Pending(r)
  /\ state' = Apply(state, rotation[r].change)
  /\ marking' = r
  /\ applied' = [applied EXCEPT ![r] = @ + 1]
  /\ UNCHANGED <<rotation, weightVars, crashes>>

\* The state is loaded, the change validated on it and the result saved.
Approve(r) ==
  /\ marking = None
  /\ Pending(r)
  /\ Valid(state, rotation[r].change)
  /\ state' = Apply(state, rotation[r].change)
  /\ marking' = r
  /\ applied' = [applied EXCEPT ![r] = @ + 1]
  /\ UNCHANGED <<rotation, weightVars, crashes>>

\* An approval that comes too late, and a denial.
Ends(r) ==
  /\ marking = None
  /\ Pending(r)
  /\ Mark(r, "expired") \/ Mark(r, "denied")
  /\ UNCHANGED <<state, weightVars, marking, applied, crashes>>

MarkApproved(r) ==
  /\ marking = r
  /\ Mark(r, "approved")
  /\ marking' = None
  /\ UNCHANGED <<state, weightVars, applied, crashes>>

\* A corrupt rotation.json is moved away: back to the configured defaults.
Quarantine ==
  /\ marking = None
  /\ state' = [s \in Strategies |-> None]
  /\ UNCHANGED <<rotation, weightVars, marking, applied, crashes>>

(***************************************************************************)
(* Source weights                                                          *)
(***************************************************************************)
CurrentWeights == IF weights = None THEN Configured ELSE weights

Total(w) == FoldFunction(+, 0, w)

SumOver(w, C) == FoldFunctionOnSet(+, 0, w, C)

Bounded(x, lo, hi) == IF x < lo THEN lo ELSE IF x > hi THEN hi ELSE x

\* How often its votes are proposed, weighted by how strong they are, in
\* tenths where the code keeps four decimals: TLC could not multiply those, and
\* what is proved of the weights holds for any signals.
Contribution(h) == (h.proposed * h.score) \div h.surfaced

Judged == {c \in Sources : ledger[c].surfaced >= MinSample}

\* Each judged source's share by its signal, capped to 30 percent of its
\* weight, all times 10 * SignalTotal.
Signal      == [c \in Sources |-> IF c \in Judged THEN Contribution(ledger[c]) ELSE 0]
SignalTotal == SumOver(Signal, Judged)
Mass        == SumOver(CurrentWeights, Judged)

\* Mutant of Clamped: the cap is left out.
Uncapped == [c \in Judged |-> 10 * Mass * Signal[c]]

Clamped ==
  [c \in Judged |->
     Bounded(10 * Mass * Signal[c], 7 * CurrentWeights[c] * SignalTotal, 13 * CurrentWeights[c] * SignalTotal)]

\* Mutant of Suggested: clamped and not scaled back.
SuggestedUnscaled ==
  LET clamped == Clamped
  IN [c \in Sources |-> IF c \in Judged THEN clamped[c] \div (10 * SignalTotal) ELSE CurrentWeights[c]]

\* Scaled back to the weight the judged sources had together, and rounded.
Suggested ==
  LET clamped == Clamped
      sum     == Total(clamped)
      mass    == Mass
  IN [c \in Sources |-> IF c \in Judged THEN (2 * clamped[c] * mass + sum) \div (2 * sum)
                        ELSE CurrentWeights[c]]

Worthwhile ==
  /\ Cardinality(Judged) >= 2
  /\ SignalTotal > 0
  /\ Mass > 0
  /\ \E c \in Judged : LET d == Suggested[c] - CurrentWeights[c] IN d >= MinDelta \/ -d >= MinDelta

Suggest(r) ==
  /\ marking = None
  /\ reweight[r].status = "none"
  /\ Worthwhile
  /\ reweight' = [reweight EXCEPT ![r] = [weights |-> Suggested, base |-> CurrentWeights,
                                          judged |-> Judged, status |-> "pending"]]
  /\ UNCHANGED <<rotationVars, weights, ledger, marking, applied, crashes>>

MarkReweight(r, status) == reweight' = [reweight EXCEPT ![r].status = status]

\* Mutant of ApproveReweight: whatever its status.
ApproveReweightAgain(r) ==
  /\ marking = None
  /\ reweight[r].status # "none"
  /\ Total(reweight[r].weights) > 0
  /\ weights' = reweight[r].weights
  /\ marking' = r
  /\ applied' = [applied EXCEPT ![r] = @ + 1]
  /\ UNCHANGED <<rotationVars, reweight, ledger, crashes>>

\* The weights of the proposal replace all that are in force.
ApproveReweight(r) ==
  /\ marking = None
  /\ reweight[r].status = "pending"
  /\ Total(reweight[r].weights) > 0
  /\ weights' = reweight[r].weights
  /\ marking' = r
  /\ applied' = [applied EXCEPT ![r] = @ + 1]
  /\ UNCHANGED <<rotationVars, reweight, ledger, crashes>>

EndsReweight(r) ==
  /\ marking = None
  /\ reweight[r].status = "pending"
  /\ MarkReweight(r, "expired") \/ MarkReweight(r, "denied")
  /\ UNCHANGED <<rotationVars, weights, ledger, marking, applied, crashes>>

MarkReweighted(r) ==
  /\ marking = r
  /\ MarkReweight(r, "approved")
  /\ marking' = None
  /\ UNCHANGED <<rotationVars, weights, ledger, applied, crashes>>

\* A corrupt discovery_weights.json is moved away.
QuarantineWeights ==
  /\ marking = None
  /\ weights' = None
  /\ UNCHANGED <<rotationVars, reweight, ledger, marking, applied, crashes>>

\* A discovery pass appends its rows.
Surface(c) ==
  /\ \E h \in Histories :
       /\ h.surfaced > ledger[c].surfaced
       /\ ledger' = [ledger EXCEPT ![c] = h]
  /\ UNCHANGED <<rotationVars, weights, reweight, marking, applied, crashes>>

\* The listener dies and is started again: what was not marked stays pending.
Crash ==
  /\ marking # None
  /\ crashes < MaxCrashes
  /\ marking' = None
  /\ crashes' = crashes + 1
  /\ UNCHANGED <<rotationVars, weightVars, applied>>

Next ==
  \/ \E r \in Rotations :
       \/ \E ch \in Change : Propose(r, ch)
       \/ Approve(r) \/ Ends(r) \/ MarkApproved(r)
  \/ \E r \in Reweights :
       Suggest(r) \/ ApproveReweight(r) \/ EndsReweight(r) \/ MarkReweighted(r)
  \/ \E c \in Sources : Surface(c)
  \/ Quarantine \/ QuarantineWeights \/ Crash

Spec == Init /\ [][Next]_vars

(***************************************************************************)
(* Properties                                                              *)
(***************************************************************************)
TypeOK ==
  /\ state \in [Strategies -> Entry \cup {None}]
  /\ rotation \in [Rotations -> Proposal \cup {None}]

\* Whatever was approved, in whatever order, replayed after a crash or
\* undone by a quarantine, some strategy may still enter: a proposal that was
\* valid when it was made is not applied where it would disable the last one.
SomeStrategyActive == Active(state) # {}

\* The listener marks what was proposed.
MarkedWasMade == \A r \in Rotations : marking = r => rotation[r] # None

IInv == TypeOK /\ MarkedWasMade /\ SomeStrategyActive

\* A proposal takes effect once, and once more for a crash that came between
\* its save and its mark.
AppliedOncePerCrash == \A r \in Rotations \cup Reweights : applied[r] <= 1 + crashes

StatusOf(r) ==
  IF r \in Reweights THEN reweight[r].status
  ELSE IF rotation[r] = None THEN "none" ELSE rotation[r].status

\* Why: what is pending, and not being marked, was applied only by crashes.
CrashesPay ==
  /\ crashes \in Nat
  /\ applied \in [Rotations \cup Reweights -> Nat]
  /\ \A r \in Rotations \cup Reweights :
       /\ StatusOf(r) = "none" => applied[r] = 0 /\ marking # r
       /\ StatusOf(r) = "pending" /\ marking # r => applied[r] <= crashes
  /\ AppliedOncePerCrash

Made == Cardinality({r \in Reweights : reweight[r].status # "none"})

\* As much as is configured, but for the rounding of each source in each
\* suggestion.
Kept(w) ==
  LET d == Total(w) - Total(Configured)
  IN 2 * d <= Made * Cardinality(Sources) /\ -2 * d <= Made * Cardinality(Sources)

\* Approved suggestions reallocate: whichever is approved, stale ones
\* included, the weights in force add up to what is configured, or nearly so.
WeightKept == Kept(CurrentWeights)

\* The cap of 30 percent is taken before the weights are scaled back, so it
\* binds a source's weight only to between 7/13 and 13/7 of what it was.
ShiftBounded ==
  \A r \in Reweights : reweight[r].status # "none" =>
    \A c \in reweight[r].judged :
      /\ 7 * reweight[r].weights[c] <= 13 * reweight[r].base[c] + 7
      /\ 13 * reweight[r].weights[c] >= 7 * reweight[r].base[c] - 13

\* Why: what was suggested had drifted no further when it was suggested, and
\* no suggestion takes a source's last weight.
WInv ==
  /\ weights \in Weighting \cup {None}
  /\ ledger \in [Sources -> History]
  /\ \A r \in Reweights : reweight[r].status # "none" =>
       /\ reweight[r].weights \in Weighting /\ Kept(reweight[r].weights)
       /\ reweight[r].base \in Weighting /\ reweight[r].judged \subseteq Sources
  /\ WeightKept /\ ShiftBounded
=============================================================================
