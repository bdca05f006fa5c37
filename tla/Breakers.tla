------------------------------ MODULE Breakers ------------------------------
(***************************************************************************)
(* The order rate limits of one CircuitBreakers object: a sliding window   *)
(* and a count for the ET date, rolled over lazily.  A scheduled cycle has *)
(* an object of its own; the phone listener keeps one for its whole life.  *)
(***************************************************************************)
EXTENDS Integers, Sequences

CONSTANTS
  PerWindow,  \* max_orders_per_minute
  PerDay,     \* max_orders_per_day
  Window,     \* order_rate_window_seconds, in ticks
  DayLength   \* ticks from one midnight in New York to the next

\* What the configuration schema lets through.
CircuitBreakerLimits == {PerWindow, PerDay, Window} \subseteq Nat \ {0}

ASSUME BreakersAssumption ==
  /\ CircuitBreakerLimits
  /\ DayLength \in Nat \ {0}

DayOf(t) == t \div DayLength + 1

NoOrders == [times |-> <<>>, count |-> 0, day |-> 0]

\* How many of the oldest have left the window, up to the first that has not.
Expired(ts, t) ==
  CHOOSE k \in 0..Len(ts) :
    /\ \A i \in 1..k : t - ts[i] > Window
    /\ k < Len(ts) => t - ts[k + 1] <= Window

Expire(b, t) == [b EXCEPT !.times = SubSeq(@, Expired(@, t) + 1, Len(@))]

\* Mutant of RollDay: the count of a process is never reset.
NeverRolled(b, t) == b

RollDay(b, t) == IF b.day = DayOf(t) THEN b ELSE [b EXCEPT !.count = 0, !.day = DayOf(t)]

Checked(b, t) == RollDay(Expire(b, t), t)

WithinRates(b) == Len(b.times) < PerWindow /\ b.count < PerDay

RegisterOrder(b, t) ==
  [RollDay(b, t) EXCEPT !.times = Append(@, t), !.count = @ + 1]
=============================================================================
