-------------------------- MODULE MCOrderLifecycle --------------------------
(* OrderLifecycle on small instances: the identities of protective orders, *)
(* and strategies, are interchangeable.                                    *)
EXTENDS OrderLifecycle, TLC

IdSymmetry == Permutations(Orders) \cup Permutations(Strategies)
=============================================================================
