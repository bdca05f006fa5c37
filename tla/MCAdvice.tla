------------------------------ MODULE MCAdvice ------------------------------
\* Instances of Advice for TLC.
EXTENDS Advice, TLC

CONSTANTS c1, c2, c3

OneDominates == c1 :> 700 @@ c2 :> 200 @@ c3 :> 100

\* Never proposed, always proposed, in between.
ThreeHistories == {[surfaced |-> 10, proposed |-> 0, score |-> 5],
                   [surfaced |-> 10, proposed |-> 10, score |-> 9],
                   [surfaced |-> 20, proposed |-> 6, score |-> 5]}

\* Bound: rotation and reweighting share no state but the listener, so each
\* behaviour exercises one of them.
OneKindAtATime ==
  \/ \A r \in Rotations : rotation[r] = None
  \/ weights = None /\ \A c \in Sources : ledger[c].surfaced = 0
=============================================================================
