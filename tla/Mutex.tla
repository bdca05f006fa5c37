------------------------------- MODULE Mutex -------------------------------
(***************************************************************************)
(* What bot_lock promises those that use it: whoever is inside is there    *)
(* alone, and nobody comes in before the last one has left.                *)
(***************************************************************************)
CONSTANT Actors

VARIABLE inside  \* who is in the critical section

Init == inside = {}

Enter(a) == inside = {} /\ inside' = {a}

\* By the end of the with block, by an exception, or by dying.
Leave(a) == inside = {a} /\ inside' = {}

Next == \E a \in Actors : Enter(a) \/ Leave(a)

Spec == Init /\ [][Next]_inside
=============================================================================
