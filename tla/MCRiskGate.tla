----------------------------- MODULE MCRiskGate -----------------------------
(* RiskGate on small instances: the symbols that have price history are    *)
(* interchangeable when all of them are correlated.                        *)
EXTENDS RiskGate, TLC

HistorySymmetry == Permutations(History)
=============================================================================
