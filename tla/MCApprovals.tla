---------------------------- MODULE MCApprovals ----------------------------
\* Instances of Approvals for TLC.
EXTENDS Approvals, TLC

CONSTANTS p1, p2, s1, paper, discovery, listener

\* Two proposals for one symbol, one made by a process of cron's, a discovery
\* pass or a cycle, and one by /ideas.
TwoMakers == p1 :> discovery @@ p2 :> listener
CycleMade == p1 :> paper @@ p2 :> listener
OneSymbol == p1 :> s1 @@ p2 :> s1

Approve(p) == [kind |-> "approve", id |-> p]
Deny(p)    == [kind |-> "deny", id |-> p]
Ideas      == [kind |-> "ideas"]
Pending    == [kind |-> "pending"]

AllTaps == {Approve(p1), Deny(p1), Ideas, Pending, [kind |-> "buy", id |-> s1]}
CycleTaps == AllTaps \ {Pending}
=============================================================================
