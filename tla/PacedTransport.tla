--------------------------- MODULE PacedTransport ---------------------------
(***************************************************************************)
(* The request path every part of the library shares: DoRetry around       *)
(* pacedTransport.RoundTrip, with the process-wide cooldown gate and token *)
(* bucket (retry.go, ratelimit.go).                                        *)
(*                                                                         *)
(* Each member of Calls is one goroutine that runs one operation: an       *)
(* operation is DoRetry(OuterAttempts) around a transport helper, and the  *)
(* helper is itself DoRetry(Attempts) around one round trip (retryStoreOp  *)
(* around retryRaw).  OuterAttempts = 1 is a plain helper call.            *)
(*                                                                         *)
(* Time is relative: gate and timer hold the time that is left, so Tick    *)
(* needs no horizon and the state space is finite without a clock bound.   *)
(***************************************************************************)
EXTENDS Integers

CONSTANTS
    Calls,          \* concurrent goroutines, each running one operation
    Attempts,       \* RetryPolicy.Attempts of the transport helper
    OuterAttempts,  \* RetryPolicy.Attempts of the store operation around it
    Backoff,        \* Backoff[n]: backoffDelay(policy, n)
    RetryAfters,    \* Retry-After values the server may send, 0 = no header
    Interval,       \* ticks per token (1 / rate); 0 = the nil limiter
    Burst           \* capacity of the token bucket, in tokens

ASSUME PolicyAssumption ==
    /\ Attempts \in Nat \ {0}
    /\ OuterAttempts \in Nat \ {0}
    /\ Backoff \in [1..Attempts \cup 1..OuterAttempts -> Nat]
    /\ RetryAfters \subseteq Nat

ASSUME LimiterAssumption ==
    /\ Interval \in Nat
    /\ Burst \in Nat \ {0}

VARIABLES
    pc,        \* where each goroutine stands
    timer,     \* what is left of the timer the goroutine sleeps on
    ctxDone,   \* is the caller's context cancelled?
    att,       \* attempt of the helper's DoRetry loop, from 1
    outer,     \* attempt of the store operation's DoRetry loop, from 1
    ans,       \* the last answer: its kind and its Retry-After
    result,    \* what the operation returned
    gate,      \* globalCooldown.until - now, never below 0
    units,     \* rateLimiter.tokens, in ticks (Interval ticks = one token)
    age,       \* now - rateLimiter.last, saturated at the bucket's capacity
    (* history variables *)
    sent,      \* requests this operation has put on the wire
    extended,  \* was the gate extended since this goroutine last read it?
    owe        \* what is left of the last answer's Retry-After window

callVars    == <<pc, timer, ctxDone, att, outer, ans, result>>
gateVars    == <<gate, extended>>
limiterVars == <<units, age>>
vars        == <<callVars, gateVars, limiterVars, sent, owe>>

Capacity == Burst * Interval

MaxOf(a, b) == IF a >= b THEN a ELSE b
MinOf(a, b) == IF a <= b THEN a ELSE b
Left(n)     == IF n > 0 THEN n - 1 ELSE 0

Kinds   == {"none", "ok", "permanent", "throttled", "unavailable"}
Results == {"none", "ok", "permanent", "exhausted", "cancelled"}
Labels  == {"idle", "loop", "gate", "gateSleep", "limit", "limitSleep",
            "send", "wire", "answered", "backoff", "done"}

Answers == [kind : {"ok", "permanent"}, ra : {0}]
             \cup [kind : {"throttled", "unavailable"}, ra : RetryAfters]

\* Transient: 429 ("throttled") and 502/503/504 ("unavailable").
Transient(a) == a.kind \in {"throttled", "unavailable"}

TypeOK ==
    /\ pc \in [Calls -> Labels]
    /\ timer \in [Calls -> Nat]
    /\ ctxDone \in [Calls -> BOOLEAN]
    /\ att \in [Calls -> 1..Attempts]
    /\ outer \in [Calls -> 1..OuterAttempts]
    /\ ans \in [Calls -> [kind : Kinds, ra : Nat]]
    /\ result \in [Calls -> Results]
    /\ gate \in Nat
    /\ units \in 0..Capacity
    /\ age \in 0..Capacity
    /\ sent \in [Calls -> Nat]
    /\ extended \in [Calls -> BOOLEAN]
    /\ owe \in [Calls -> Nat]

Init ==
    /\ pc = [c \in Calls |-> "idle"]
    /\ timer = [c \in Calls |-> 0]
    /\ ctxDone = [c \in Calls |-> FALSE]
    /\ att = [c \in Calls |-> 1]
    /\ outer = [c \in Calls |-> 1]
    /\ ans = [c \in Calls |-> [kind |-> "none", ra |-> 0]]
    /\ result = [c \in Calls |-> "none"]
    /\ gate = 0
    /\ units = Capacity
    /\ age = 0
    /\ sent = [c \in Calls |-> 0]
    /\ extended = [c \in Calls |-> FALSE]
    /\ owe = [c \in Calls |-> 0]

-----------------------------------------------------------------------------
(* The cooldown gate and the token bucket                                  *)

\* Mutant of NotedGate: the last note wins, even if it is shorter.
NotedGateLastWins(d) == d

\* What cooldownGate.note(d) leaves in the gate.
NotedGate(d) == MaxOf(gate, d)

\* cooldownGate.note(d).
Note(d) ==
    /\ gate' = NotedGate(d)
    /\ extended' = IF NotedGate(d) > gate
                     THEN [c \in Calls |-> TRUE] ELSE extended

\* The refill at the top of rateLimiter.wait, capped at the burst.
Refilled == MinOf(Capacity, units + age)

GoTo(c, label) == pc' = [pc EXCEPT ![c] = label]

SleepFor(c, d, label) ==
    /\ GoTo(c, label)
    /\ timer' = [timer EXCEPT ![c] = d]

Return(c, r) ==
    /\ GoTo(c, "done")
    /\ result' = [result EXCEPT ![c] = r]

-----------------------------------------------------------------------------
(* One operation                                                           *)

Start(c) ==
    /\ pc[c] = "idle"
    /\ GoTo(c, "loop")
    /\ UNCHANGED <<timer, ctxDone, att, outer, ans, result,
                   gateVars, limiterVars, sent, owe>>

\* The top of both DoRetry loops: a cancelled context ends the operation.
Loop(c) ==
    /\ pc[c] = "loop"
    /\ IF ctxDone[c]
         THEN Return(c, "cancelled")
         ELSE GoTo(c, "gate") /\ UNCHANGED result
    /\ UNCHANGED <<timer, ctxDone, att, outer, ans,
                   gateVars, limiterVars, sent, owe>>

\* Mutant of ReadGate: the remaining time is cut down, the sleep too short.
ReadGateTruncated(c) ==
    /\ pc[c] = "gate"
    /\ extended' = [extended EXCEPT ![c] = FALSE]
    /\ IF gate = 0
         THEN GoTo(c, "limit") /\ UNCHANGED timer
         ELSE SleepFor(c, Left(gate), "gateSleep")
    /\ UNCHANGED <<ctxDone, att, outer, ans, result,
                   gate, limiterVars, sent, owe>>

\* cooldownGate.wait: the remaining time is read once, under the lock.
ReadGate(c) ==
    /\ pc[c] = "gate"
    /\ extended' = [extended EXCEPT ![c] = FALSE]
    /\ IF gate = 0
         THEN GoTo(c, "limit") /\ UNCHANGED timer
         ELSE SleepFor(c, gate, "gateSleep")
    /\ UNCHANGED <<ctxDone, att, outer, ans, result,
                   gate, limiterVars, sent, owe>>

\* The gate's timer fired; the gate is not looked at again.
LeaveGate(c) ==
    /\ pc[c] = "gateSleep"
    /\ timer[c] = 0
    /\ GoTo(c, "limit")
    /\ UNCHANGED <<timer, ctxDone, att, outer, ans, result,
                   gateVars, limiterVars, sent, owe>>

\* Mutant of TakeToken: `last` is not moved, the same time refills twice.
TakeTokenKeepsLast(c) ==
    /\ pc[c] = "limit"
    /\ Refilled >= Interval
    /\ units' = Refilled - Interval
    /\ GoTo(c, "send")
    /\ UNCHANGED <<timer, ctxDone, att, outer, ans, result, age,
                   gateVars, sent, owe>>

\* rateLimiter.wait finds a token.  A nil limiter grants at once.
TakeToken(c) ==
    /\ pc[c] = "limit"
    /\ Refilled >= Interval
    /\ units' = Refilled - Interval
    /\ age' = 0
    /\ GoTo(c, "send")
    /\ UNCHANGED <<timer, ctxDone, att, outer, ans, result,
                   gateVars, sent, owe>>

\* Mutant of AwaitToken: the fraction of a token refilled so far is lost.
AwaitTokenDropsFraction(c) ==
    /\ pc[c] = "limit"
    /\ Refilled < Interval
    /\ units' = 0
    /\ age' = 0
    /\ SleepFor(c, Interval - Refilled, "limitSleep")
    /\ UNCHANGED <<ctxDone, att, outer, ans, result,
                   gateVars, sent, owe>>

\* rateLimiter.wait finds none and sleeps until one should be there.
AwaitToken(c) ==
    /\ pc[c] = "limit"
    /\ Refilled < Interval
    /\ units' = Refilled
    /\ age' = 0
    /\ SleepFor(c, Interval - Refilled, "limitSleep")
    /\ UNCHANGED <<ctxDone, att, outer, ans, result,
                   gateVars, sent, owe>>

RetryToken(c) ==
    /\ pc[c] = "limitSleep"
    /\ timer[c] = 0
    /\ GoTo(c, "limit")
    /\ UNCHANGED <<timer, ctxDone, att, outer, ans, result,
                   gateVars, limiterVars, sent, owe>>

\* base.RoundTrip: net/http refuses a request whose context is done.
Send(c) ==
    /\ pc[c] = "send"
    /\ IF ctxDone[c]
         THEN Return(c, "cancelled") /\ UNCHANGED sent
         ELSE /\ GoTo(c, "wire")
              /\ sent' = [sent EXCEPT ![c] = @ + 1]
              /\ UNCHANGED result
    /\ UNCHANGED <<timer, ctxDone, att, outer, ans,
                   gateVars, limiterVars, owe>>

\* The server's answer arrives; on a 429 RoundTrip arms the gate with the
\* Retry-After header before it returns.
Answer(c, a) ==
    /\ pc[c] = "wire"
    /\ GoTo(c, "answered")
    /\ ans' = [ans EXCEPT ![c] = a]
    /\ owe' = [owe EXCEPT ![c] = a.ra]
    /\ IF a.kind = "throttled" THEN Note(a.ra) ELSE UNCHANGED gateVars
    /\ UNCHANGED <<timer, ctxDone, att, outer, result, limiterVars, sent>>

\* DoRetry between two attempts: the longer of backoff and Retry-After, noted
\* in the gate, then slept on; a zero wait goes straight round the loop.
Pause(c, wait) ==
    IF wait = 0
      THEN GoTo(c, "loop") /\ UNCHANGED <<timer, gateVars>>
      ELSE SleepFor(c, wait, "backoff") /\ Note(wait)

\* Mutant of WaitAfter: Retry-After is ignored.
WaitAfterBackoffOnly(c, n) == Backoff[n]

WaitAfter(c, n) == MaxOf(Backoff[n], ans[c].ra)

\* What the two nested DoRetry loops make of an answer.
ReturnAnswer(c) ==
    /\ pc[c] = "answered"
    /\ ~Transient(ans[c])
    /\ Return(c, ans[c].kind)
    /\ UNCHANGED <<timer, ctxDone, att, outer, ans,
                   gateVars, limiterVars, sent, owe>>

RetryHelper(c) ==
    /\ pc[c] = "answered"
    /\ Transient(ans[c])
    /\ att[c] < Attempts
    /\ att' = [att EXCEPT ![c] = @ + 1]
    /\ Pause(c, WaitAfter(c, att[c]))
    /\ UNCHANGED <<ctxDone, outer, ans, result, limiterVars, sent, owe>>

\* Mutant of RetryOperation: the helper's attempts are not counted anew.
RetryOperationKeepsAttempts(c) ==
    /\ pc[c] = "answered"
    /\ Transient(ans[c])
    /\ att[c] = Attempts
    /\ outer[c] < OuterAttempts
    /\ outer' = [outer EXCEPT ![c] = @ + 1]
    /\ Pause(c, WaitAfter(c, outer[c]))
    /\ UNCHANGED <<ctxDone, att, ans, result, limiterVars, sent, owe>>

\* The helper gives its last error back: %w keeps it transient, so the store
\* operation's own DoRetry starts the helper again from its first attempt.
RetryOperation(c) ==
    /\ pc[c] = "answered"
    /\ Transient(ans[c])
    /\ att[c] = Attempts
    /\ outer[c] < OuterAttempts
    /\ att' = [att EXCEPT ![c] = 1]
    /\ outer' = [outer EXCEPT ![c] = @ + 1]
    /\ Pause(c, WaitAfter(c, outer[c]))
    /\ UNCHANGED <<ctxDone, ans, result, limiterVars, sent, owe>>

GiveUp(c) ==
    /\ pc[c] = "answered"
    /\ Transient(ans[c])
    /\ att[c] = Attempts
    /\ outer[c] = OuterAttempts
    /\ Return(c, "exhausted")
    /\ UNCHANGED <<timer, ctxDone, att, outer, ans,
                   gateVars, limiterVars, sent, owe>>

EndBackoff(c) ==
    /\ pc[c] = "backoff"
    /\ timer[c] = 0
    /\ GoTo(c, "loop")
    /\ UNCHANGED <<timer, ctxDone, att, outer, ans, result,
                   gateVars, limiterVars, sent, owe>>

\* Every select waits for ctx.Done too, and a cancelled round trip fails: the
\* context's error is not transient, so both loops return it at once.
Abort(c) ==
    /\ ctxDone[c]
    /\ pc[c] \in {"gateSleep", "limitSleep", "wire", "backoff"}
    /\ Return(c, "cancelled")
    /\ UNCHANGED <<timer, ctxDone, att, outer, ans,
                   gateVars, limiterVars, sent, owe>>

-----------------------------------------------------------------------------
(* The environment                                                         *)

Cancel(c) ==
    /\ pc[c] # "done"
    /\ ~ctxDone[c]
    /\ ctxDone' = [ctxDone EXCEPT ![c] = TRUE]
    /\ UNCHANGED <<pc, timer, att, outer, ans, result,
                   gateVars, limiterVars, sent, owe>>

\* One unit of time.  A goroutine whose timer fired may still run later.
Tick ==
    /\ timer' = [c \in Calls |-> Left(timer[c])]
    /\ gate' = Left(gate)
    /\ age' = MinOf(Capacity, age + 1)
    /\ owe' = [c \in Calls |-> Left(owe[c])]
    /\ UNCHANGED <<pc, ctxDone, att, outer, ans, result,
                   units, sent, extended>>

Step(c) ==
    \/ Loop(c)
    \/ ReadGate(c)
    \/ LeaveGate(c)
    \/ TakeToken(c)
    \/ AwaitToken(c)
    \/ RetryToken(c)
    \/ Send(c)
    \/ ReturnAnswer(c)
    \/ RetryHelper(c)
    \/ RetryOperation(c)
    \/ GiveUp(c)
    \/ EndBackoff(c)
    \/ Abort(c)

ServerAnswers(c) == \E a \in Answers : Answer(c, a)

Next ==
    \/ \E c \in Calls : Start(c) \/ Step(c) \/ ServerAnswers(c) \/ Cancel(c)
    \/ Tick

Spec == Init /\ [][Next]_vars

\* Goroutines are scheduled, time passes, and a request on the wire is
\* answered or fails (http.Client has no timeout of its own, so that much is
\* assumed of the server).  Nothing obliges a caller to start or to cancel.
Fairness ==
    /\ \A c \in Calls : WF_vars(Step(c)) /\ WF_vars(ServerAnswers(c))
    /\ WF_vars(Tick)

FairSpec == Spec /\ Fairness

-----------------------------------------------------------------------------
(* Properties                                                              *)

\* Where a goroutine has left the gate behind and its request is not out yet.
PastGate(c) == pc[c] \in {"limit", "limitSleep", "send"}

\* A request leaves while the gate is closed only if some caller extended the
\* gate after this one looked at it: the single look of cooldownGate.wait is
\* exact unless another answer or another backoff moves `until` meanwhile
\* (ratelimit.go, cooldownGate.wait and note).
NoSlipUnlessExtended ==
    \A c \in Calls : PastGate(c) /\ ~extended[c] => gate = 0

\* As long as a 429's Retry-After window runs for any caller, the gate of the
\* whole process stays closed at least that long: no later note shortens it
\* (ratelimit.go, "note extends the gate to at least now+d").
GateCoversEveryWindow ==
    \A c \in Calls : ans[c].kind = "throttled" => owe[c] <= gate

\* An operation never goes back to the server inside the Retry-After window of
\* its own last answer, whichever of the nested loops retries and whether or
\* not the answer was a 429 (retry.go, "Retry-After wins when it is longer").
RetryAfterHonoured ==
    \A c \in Calls : pc[c] \in {"send", "wire"} => owe[c] = 0

\* The token bucket as its comment has it, "consumes one token, blocking until
\* one is available": refilled lazily, by whichever waiter looks at it, with
\* what is left of a token kept from one look to the next, it grants exactly
\* what a leaky bucket of the same size grants, however the callers interleave
\* and however late they wake (ratelimit.go, rateLimiter.wait).
Bucket == INSTANCE LeakyBucket WITH
              Callers <- Calls,
              level <- Capacity - Refilled,
              granted <- {c \in Calls : pc[c] = "send"}
PacedAsALeakyBucket == Bucket!Spec

\* The nested loops never exceed the product of their budgets, and a transient
\* error comes back only once that product is used up: no attempt is lost by
\* an early return (retry.go, DoRetry; filestore_core.go, retryStoreOp).
RequestBudget ==
    \A c \in Calls :
        /\ sent[c] <= OuterAttempts * Attempts
        /\ result[c] = "exhausted" => sent[c] = OuterAttempts * Attempts

\* Every operation that starts comes back, whatever the server answers and
\* however often the others extend the gate: a goroutine waits out the gate
\* once per attempt (ratelimit.go, cooldownGate.wait; retry.go, DoRetry).
EveryCallReturns ==
    \A c \in Calls : pc[c] = "loop" ~> pc[c] = "done"

=============================================================================
