----------------------------- MODULE LeakyBucket -----------------------------
(***************************************************************************)
(* What pacing promises, whatever is inside: each request costs Interval,  *)
(* the cost drains with time, and a request is granted only when it fits.  *)
(* In any W ticks at most (Capacity + W) / Interval requests are granted.  *)
(***************************************************************************)
EXTENDS Integers

CONSTANTS Callers,   \* who asks for grants
          Interval,  \* the cost of a request, in ticks
          Capacity   \* how much cost may be outstanding

VARIABLES level,    \* the outstanding cost
          granted   \* callers that may send a request and have not yet

Init == level = 0 /\ granted = {}

Grant(c) == /\ c \notin granted
            /\ level + Interval <= Capacity
            /\ level' = level + Interval
            /\ granted' = granted \cup {c}

Spend(c) == /\ c \in granted
            /\ granted' = granted \ {c}
            /\ UNCHANGED level

Drain == /\ level > 0
         /\ level' = level - 1
         /\ UNCHANGED granted

Next == Drain \/ \E c \in Callers : Grant(c) \/ Spend(c)

Spec == Init /\ [][Next]_<<level, granted>>
=============================================================================
