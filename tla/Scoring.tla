------------------------------ MODULE Scoring ------------------------------
(***************************************************************************)
(* What a discovery source makes of a symbol, its vote, and the score the  *)
(* votes blend to.  Votes are in hundredths, and NoVote where a source has   *)
(* no opinion; scores are in tenths of a point, rounded as the code rounds.*)
(***************************************************************************)
EXTENDS Integers, FiniteSets, Functions

CONSTANTS
  SourceWeights,  \* discovery.weights, in hundredths
  NoVote

Least(x, y) == IF x < y THEN x ELSE y

Clamp(x) == IF x < 0 THEN 0 ELSE Least(x, 100)

(***************************************************************************)
(* Votes                                                                   *)
(***************************************************************************)
\* Disclosed stock buys within maxAge days: the freshest and how many bought.
CongressVote(age, buyers, maxAge) ==
  IF buyers = 0 \/ age < 0 \/ age > maxAge THEN NoVote
  ELSE Clamp(55 + (30 * (maxAge - age)) \div maxAge + (15 * Least(buyers - 1, 2)) \div 2)

VerdictFactor == [validated |-> 100, promising |-> 90, inconclusive |-> 70, noise |-> 45]

\* The routed strategy has a setup: its confidence, discounted by its verdict.
TechnicalVote(confidence, verdict) ==
  IF confidence = NoVote THEN NoVote ELSE Clamp(((100 + confidence) * VerdictFactor[verdict]) \div 200)

\* A growth or a size that is not reported is NoVote; growth is in hundredths.
FundamentalsVote(profitable, growth, cap) ==
  IF profitable = NoVote /\ growth = NoVote THEN NoVote
  ELSE Clamp(30 + (CASE profitable = NoVote  -> 0 [] profitable = "yes" -> 30 [] OTHER -> -20)
                + (IF growth = NoVote THEN 0 ELSE IF growth > 0 THEN Least(growth, 30) ELSE -15)
                + (CASE cap = NoVote -> 0 [] cap = "real" -> 10 [] OTHER -> -10))

\* Only news that is positive on balance says anything.
NewsVote(pos, neg) ==
  IF pos <= neg THEN NoVote
  ELSE Clamp(40 + (40 * (pos - neg)) \div (pos + neg) + (20 * Least(pos, 3)) \div 3)

\* Every post that names a symbol counts for it, the more the more upvotes it
\* has.  A forum that does not answer has no posts.
Buzz(posts, universe) ==
  LET naming(x) == {i \in DOMAIN posts : x \in posts[i].tickers}
      weight(i) == 100 + IF posts[i].upvotes > 0 THEN posts[i].upvotes ELSE 0
  IN [x \in universe |->
        IF naming(x) = {} THEN NoVote
        ELSE FoldFunctionOnSet(+, 0, [i \in naming(x) |-> weight(i)], naming(x))]

\* volatility and social: the rank among all that were measured, ties sharing
\* their average rank.
PercentileVotes(value) ==
  LET measured == {x \in DOMAIN value : value[x] # NoVote}
      below(x) == Cardinality({y \in measured : value[y] < value[x]})
      equal(x) == Cardinality({y \in measured : value[y] = value[x]})
  IN [x \in DOMAIN value |->
        IF x \in measured THEN (100 * (2 * below(x) + equal(x) + 1)) \div (2 * Cardinality(measured))
        ELSE NoVote]

(***************************************************************************)
(* The blend                                                               *)
(***************************************************************************)
SumWeights(S) == FoldFunctionOnSet(+, 0, SourceWeights, S)

\* Mutant of Score: normalised by the sources that voted.
ScoreOfVoters(on, vote) ==
  LET voted == {s \in on : vote[s] # NoVote}
      got   == FoldFunctionOnSet(+, 0, [s \in voted |-> SourceWeights[s] * vote[s]], voted)
      total == SumWeights(voted)
  IN IF total = 0 THEN 0 ELSE (20 * got + total) \div (2 * total)

\* Normalised by all sources that are switched on, whether they voted or not.
Score(on, vote) ==
  LET voted == {s \in on : vote[s] # NoVote}
      got   == FoldFunctionOnSet(+, 0, [s \in voted |-> SourceWeights[s] * vote[s]], voted)
      total == SumWeights(on)
  IN IF total = 0 THEN 0 ELSE (20 * got + total) \div (2 * total)

=============================================================================
