------------------------ MODULE PacedTransportProofs ------------------------
(***************************************************************************)
(* Proofs about PacedTransport, for any set of goroutines, any policy, any *)
(* backoff schedule and any bucket.  Each property has an inductive        *)
(* invariant of its own, and all of them rest on type correctness.         *)
(***************************************************************************)
EXTENDS PacedTransport, TLAPS

\* The bucket's capacity is a natural number, however many tokens it holds.
LEMMA CapacityNat == Capacity \in Nat
  BY LimiterAssumption DEF Capacity

\* Noting a natural number keeps the gate and its history variable typed.
LEMMA NoteType ==
    ASSUME TypeOK, NEW d \in Nat, Note(d)
    PROVE  gate' \in Nat /\ extended' \in [Calls -> BOOLEAN]
  BY DEF TypeOK, Note, NotedGate, MaxOf

\* The wait before a retry is a natural number.
LEMMA WaitType ==
    ASSUME TypeOK, NEW c \in Calls,
           NEW n \in 1..Attempts \cup 1..OuterAttempts
    PROVE  WaitAfter(c, n) \in Nat
<1>1. Backoff[n] \in Nat /\ ans[c].ra \in Nat
  BY PolicyAssumption DEF TypeOK
<1>2. QED
  BY <1>1 DEF WaitAfter, MaxOf

\* A pause of a natural number of ticks keeps everything it touches typed.
LEMMA PauseType ==
    ASSUME TypeOK, NEW c \in Calls, NEW wait \in Nat, Pause(c, wait)
    PROVE  /\ pc' \in [Calls -> Labels]
           /\ timer' \in [Calls -> Nat]
           /\ gate' \in Nat
           /\ extended' \in [Calls -> BOOLEAN]
<1>1. CASE wait = 0
  BY <1>1 DEF Pause, GoTo, gateVars, TypeOK, Labels
<1>2. CASE wait # 0
  BY <1>2, NoteType DEF Pause, SleepFor, GoTo, TypeOK, Labels
<1>3. QED
  BY <1>1, <1>2

\* Whatever the server answers has the type of an answer.
LEMMA AnswerType == Answers \subseteq [kind : Kinds, ra : Nat]
<1>1. ASSUME NEW a \in [kind : {"ok", "permanent"}, ra : {0}]
      PROVE  a \in [kind : Kinds, ra : Nat]
  BY <1>1 DEF Kinds
<1>2. ASSUME NEW a \in [kind : {"throttled", "unavailable"}, ra : RetryAfters]
      PROVE  a \in [kind : Kinds, ra : Nat]
  <2>1. a.ra \in Nat /\ a.kind \in Kinds /\ a = [kind |-> a.kind, ra |-> a.ra]
    BY <1>2, PolicyAssumption DEF Kinds
  <2>2. QED
    BY <2>1
<1>3. QED
  BY <1>1, <1>2 DEF Answers

\* TypeOK is inductive by itself.
LEMMA TypeStep ==
    TypeOK /\ [Next]_vars => TypeOK'
<1> SUFFICES ASSUME TypeOK, [Next]_vars
             PROVE  TypeOK'
  OBVIOUS
<1>1. ASSUME NEW c \in Calls, Start(c)
      PROVE  TypeOK'
  BY <1>1 DEF Start, GoTo, gateVars, limiterVars, TypeOK, Labels
<1>2. ASSUME NEW c \in Calls, Loop(c)
      PROVE  TypeOK'
  BY <1>2 DEF Loop, GoTo, Return, gateVars, limiterVars, TypeOK, Labels,
     Results
<1>3. ASSUME NEW c \in Calls, ReadGate(c)
      PROVE  TypeOK'
  BY <1>3 DEF ReadGate, GoTo, SleepFor, limiterVars, TypeOK, Labels
<1>4. ASSUME NEW c \in Calls, LeaveGate(c)
      PROVE  TypeOK'
  BY <1>4 DEF LeaveGate, GoTo, gateVars, limiterVars, TypeOK, Labels
<1>5. ASSUME NEW c \in Calls, TakeToken(c)
      PROVE  TypeOK'
  BY <1>5, CapacityNat, LimiterAssumption DEF TakeToken, GoTo, gateVars,
     Refilled, MinOf, TypeOK, Labels
<1>6. ASSUME NEW c \in Calls, AwaitToken(c)
      PROVE  TypeOK'
  BY <1>6, CapacityNat, LimiterAssumption DEF AwaitToken, GoTo, SleepFor,
     gateVars, Refilled, MinOf, TypeOK, Labels
<1>7. ASSUME NEW c \in Calls, RetryToken(c)
      PROVE  TypeOK'
  BY <1>7 DEF RetryToken, GoTo, gateVars, limiterVars, TypeOK, Labels
<1>8. ASSUME NEW c \in Calls, Send(c)
      PROVE  TypeOK'
  <2>1. CASE ctxDone[c]
    BY <1>8, <2>1 DEF Send, GoTo, Return, gateVars, limiterVars, TypeOK,
       Labels, Results
  <2>2. CASE ~ctxDone[c]
    <3>1. /\ pc' = [pc EXCEPT ![c] = "wire"]
          /\ sent' = [sent EXCEPT ![c] = sent[c] + 1]
          /\ UNCHANGED result
      BY <1>8, <2>2 DEF Send, GoTo
    <3>2. sent' \in [Calls -> Nat] /\ pc' \in [Calls -> Labels]
      BY <3>1 DEF TypeOK, Labels
    <3>3. QED
      BY <1>8, <3>1, <3>2 DEF Send, gateVars, limiterVars, TypeOK
  <2>3. QED
    BY <2>1, <2>2
<1>9. ASSUME NEW c \in Calls, NEW a \in Answers, Answer(c, a)
      PROVE  TypeOK'
  <2>1. a \in [kind : Kinds, ra : Nat]
    BY AnswerType
  <2>2. gate' \in Nat /\ extended' \in [Calls -> BOOLEAN]
    BY <1>9, <2>1, NoteType DEF Answer, gateVars, TypeOK
  <2>3. ans' \in [Calls -> [kind : Kinds, ra : Nat]] /\ owe' \in [Calls -> Nat]
    BY <1>9, <2>1 DEF Answer, TypeOK
  <2>4. QED
    BY <1>9, <2>2, <2>3 DEF Answer, GoTo, limiterVars, TypeOK, Labels
<1>10. ASSUME NEW c \in Calls, ReturnAnswer(c)
      PROVE  TypeOK'
  <2>1. ans[c].kind \in Results
    BY <1>10 DEF ReturnAnswer, Transient, TypeOK, Kinds, Results
  <2>2. QED
    BY <1>10, <2>1 DEF ReturnAnswer, Return, GoTo, gateVars, limiterVars,
       TypeOK, Labels
<1>11. ASSUME NEW c \in Calls, RetryHelper(c)
      PROVE  TypeOK'
  <2>1. att[c] + 1 \in 1..Attempts /\ att[c] \in 1..Attempts
    BY <1>11, PolicyAssumption DEF RetryHelper, TypeOK
  <2>2. Pause(c, WaitAfter(c, att[c])) /\ WaitAfter(c, att[c]) \in Nat
    BY <1>11, <2>1, WaitType DEF RetryHelper
  <2>3. att' \in [Calls -> 1..Attempts]
    BY <1>11, <2>1 DEF RetryHelper, TypeOK
  <2>4. QED
    BY <1>11, <2>2, <2>3, PauseType DEF RetryHelper, limiterVars, TypeOK
<1>12. ASSUME NEW c \in Calls, RetryOperation(c)
      PROVE  TypeOK'
  <2>1. outer[c] + 1 \in 1..OuterAttempts /\ outer[c] \in 1..OuterAttempts
    BY <1>12, PolicyAssumption DEF RetryOperation, TypeOK
  <2>2. Pause(c, WaitAfter(c, outer[c])) /\ WaitAfter(c, outer[c]) \in Nat
    BY <1>12, <2>1, WaitType DEF RetryOperation
  <2>3. att' \in [Calls -> 1..Attempts] /\ outer' \in [Calls -> 1..OuterAttempts]
    BY <1>12, <2>1, PolicyAssumption DEF RetryOperation, TypeOK
  <2>4. QED
    BY <1>12, <2>2, <2>3, PauseType DEF RetryOperation, limiterVars, TypeOK
<1>13. ASSUME NEW c \in Calls, GiveUp(c)
      PROVE  TypeOK'
  BY <1>13 DEF GiveUp, GoTo, Return, gateVars, limiterVars, TypeOK, Labels,
     Results
<1>14. ASSUME NEW c \in Calls, EndBackoff(c)
      PROVE  TypeOK'
  BY <1>14 DEF EndBackoff, GoTo, gateVars, limiterVars, TypeOK, Labels
<1>15. ASSUME NEW c \in Calls, Abort(c)
      PROVE  TypeOK'
  BY <1>15 DEF Abort, GoTo, Return, gateVars, limiterVars, TypeOK, Labels,
     Results
<1>16. ASSUME NEW c \in Calls, Cancel(c)
      PROVE  TypeOK'
  BY <1>16 DEF Cancel, gateVars, limiterVars, TypeOK, Labels
<1>17. CASE Tick
  BY <1>17, CapacityNat DEF Tick, Left, MinOf, TypeOK, Labels
<1>18. CASE UNCHANGED vars
  BY <1>18 DEF vars, callVars, gateVars, limiterVars, TypeOK, Labels
<1>19. QED
  BY <1>1, <1>2, <1>3, <1>4, <1>5, <1>6, <1>7, <1>8, <1>9, <1>10, <1>11,
     <1>12, <1>13, <1>14, <1>15, <1>16, <1>17, <1>18
     DEF Next, Step, ServerAnswers

\* Every variable keeps its type in every behaviour of the request path.
THEOREM TypeCorrect == Spec => []TypeOK
<1>1. Init => TypeOK
  BY PolicyAssumption, CapacityNat DEF Init, TypeOK, Labels, Kinds, Results
<1>2. QED
  BY <1>1, TypeStep, PTL DEF Spec
-----------------------------------------------------------------------------
(* The gate                                                                *)

\* A goroutine asleep at the gate, if nobody extended it since, wakes no
\* sooner than the gate opens; and one that is past it finds it open.
GateInv ==
    \A c \in Calls :
        /\ pc[c] = "gateSleep" /\ ~extended[c] => gate <= timer[c]
        /\ PastGate(c) /\ ~extended[c] => gate = 0

\* Every step preserves GateInv: what raises the gate marks every goroutine.
LEMMA GateStep ==
    TypeOK /\ TypeOK' /\ GateInv /\ [Next]_vars => GateInv'
<1> SUFFICES ASSUME TypeOK, TypeOK', GateInv, [Next]_vars
             PROVE  GateInv'
  OBVIOUS
<1>1. ASSUME NEW c \in Calls, Start(c)
      PROVE  GateInv'
  BY <1>1 DEF Start, GoTo, gateVars, limiterVars, GateInv, PastGate, TypeOK
<1>2. ASSUME NEW c \in Calls, Loop(c)
      PROVE  GateInv'
  BY <1>2 DEF Loop, GoTo, Return, gateVars, limiterVars, GateInv, PastGate,
     TypeOK
<1>3. ASSUME NEW c \in Calls, ReadGate(c)
      PROVE  GateInv'
  BY <1>3 DEF ReadGate, GoTo, SleepFor, limiterVars, GateInv, PastGate, TypeOK
<1>4. ASSUME NEW c \in Calls, LeaveGate(c)
      PROVE  GateInv'
  BY <1>4 DEF LeaveGate, GoTo, gateVars, limiterVars, GateInv, PastGate,
     TypeOK
<1>5. ASSUME NEW c \in Calls, TakeToken(c)
      PROVE  GateInv'
  BY <1>5 DEF TakeToken, GoTo, gateVars, Refilled, MinOf, Capacity, GateInv,
     PastGate, TypeOK
<1>6. ASSUME NEW c \in Calls, AwaitToken(c)
      PROVE  GateInv'
  BY <1>6 DEF AwaitToken, GoTo, SleepFor, gateVars, Refilled, MinOf, Capacity,
     GateInv, PastGate, TypeOK
<1>7. ASSUME NEW c \in Calls, RetryToken(c)
      PROVE  GateInv'
  BY <1>7 DEF RetryToken, GoTo, gateVars, limiterVars, GateInv, PastGate,
     TypeOK
<1>8. ASSUME NEW c \in Calls, Send(c)
      PROVE  GateInv'
  BY <1>8 DEF Send, GoTo, Return, gateVars, limiterVars, GateInv, PastGate,
     TypeOK
<1>9. ASSUME NEW c \in Calls, NEW a \in Answers, Answer(c, a)
      PROVE  GateInv'
  BY <1>9 DEF Answer, Answers, GoTo, Note, NotedGate, MaxOf, gateVars,
     limiterVars, GateInv, PastGate, TypeOK
<1>10. ASSUME NEW c \in Calls, ReturnAnswer(c)
      PROVE  GateInv'
  BY <1>10 DEF ReturnAnswer, GoTo, Return, Transient, gateVars, limiterVars,
     GateInv, PastGate, TypeOK
<1>11. ASSUME NEW c \in Calls, RetryHelper(c)
      PROVE  GateInv'
  BY <1>11 DEF RetryHelper, GoTo, SleepFor, Pause, WaitAfter, Note, NotedGate,
     MaxOf, gateVars, limiterVars, GateInv, PastGate, TypeOK
<1>12. ASSUME NEW c \in Calls, RetryOperation(c)
      PROVE  GateInv'
  BY <1>12 DEF RetryOperation, GoTo, SleepFor, Pause, WaitAfter, Note,
     NotedGate, MaxOf, gateVars, limiterVars, GateInv, PastGate, TypeOK
<1>13. ASSUME NEW c \in Calls, GiveUp(c)
      PROVE  GateInv'
  BY <1>13 DEF GiveUp, GoTo, Return, gateVars, limiterVars, GateInv, PastGate,
     TypeOK
<1>14. ASSUME NEW c \in Calls, EndBackoff(c)
      PROVE  GateInv'
  BY <1>14 DEF EndBackoff, GoTo, gateVars, limiterVars, GateInv, PastGate,
     TypeOK
<1>15. ASSUME NEW c \in Calls, Abort(c)
      PROVE  GateInv'
  BY <1>15 DEF Abort, GoTo, Return, gateVars, limiterVars, GateInv, PastGate,
     TypeOK
<1>16. ASSUME NEW c \in Calls, Cancel(c)
      PROVE  GateInv'
  BY <1>16 DEF Cancel, gateVars, limiterVars, GateInv, PastGate, TypeOK
<1>17. CASE Tick
  BY <1>17 DEF Tick, Left, GateInv, PastGate, TypeOK
<1>18. CASE UNCHANGED vars
  BY <1>18 DEF vars, callVars, gateVars, limiterVars, GateInv, PastGate,
     TypeOK
<1>19. QED
  BY <1>1, <1>2, <1>3, <1>4, <1>5, <1>6, <1>7, <1>8, <1>9, <1>10, <1>11,
     <1>12, <1>13, <1>14, <1>15, <1>16, <1>17, <1>18
     DEF Next, Step, ServerAnswers

\* A request slips through a closed gate only if another caller extended the
\* gate after this one had looked at it.
THEOREM GateIsExact == Spec => []NoSlipUnlessExtended
<1>1. Init => GateInv
  BY DEF Init, GateInv, PastGate
<1>2. GateInv => NoSlipUnlessExtended
  BY DEF GateInv, NoSlipUnlessExtended
<1>3. QED
  BY <1>1, <1>2, GateStep, TypeCorrect, PTL DEF Spec

\* Only time lowers the gate, and it lowers every window with it.
LEMMA WindowCoverStep ==
    TypeOK /\ TypeOK' /\ GateCoversEveryWindow /\ [Next]_vars => GateCoversEveryWindow'
<1> SUFFICES ASSUME TypeOK, TypeOK', GateCoversEveryWindow, [Next]_vars
             PROVE  GateCoversEveryWindow'
  OBVIOUS
<1>1. ASSUME NEW c \in Calls, Start(c)
      PROVE  GateCoversEveryWindow'
  BY <1>1 DEF Start, GoTo, gateVars, limiterVars, GateCoversEveryWindow,
     TypeOK
<1>2. ASSUME NEW c \in Calls, Loop(c)
      PROVE  GateCoversEveryWindow'
  BY <1>2 DEF Loop, GoTo, Return, gateVars, limiterVars,
     GateCoversEveryWindow, TypeOK
<1>3. ASSUME NEW c \in Calls, ReadGate(c)
      PROVE  GateCoversEveryWindow'
  BY <1>3 DEF ReadGate, GoTo, SleepFor, limiterVars, GateCoversEveryWindow,
     TypeOK
<1>4. ASSUME NEW c \in Calls, LeaveGate(c)
      PROVE  GateCoversEveryWindow'
  BY <1>4 DEF LeaveGate, GoTo, gateVars, limiterVars, GateCoversEveryWindow,
     TypeOK
<1>5. ASSUME NEW c \in Calls, TakeToken(c)
      PROVE  GateCoversEveryWindow'
  BY <1>5 DEF TakeToken, GoTo, gateVars, Refilled, MinOf, Capacity,
     GateCoversEveryWindow, TypeOK
<1>6. ASSUME NEW c \in Calls, AwaitToken(c)
      PROVE  GateCoversEveryWindow'
  BY <1>6 DEF AwaitToken, GoTo, SleepFor, gateVars, Refilled, MinOf, Capacity,
     GateCoversEveryWindow, TypeOK
<1>7. ASSUME NEW c \in Calls, RetryToken(c)
      PROVE  GateCoversEveryWindow'
  BY <1>7 DEF RetryToken, GoTo, gateVars, limiterVars, GateCoversEveryWindow,
     TypeOK
<1>8. ASSUME NEW c \in Calls, Send(c)
      PROVE  GateCoversEveryWindow'
  BY <1>8 DEF Send, GoTo, Return, gateVars, limiterVars,
     GateCoversEveryWindow, TypeOK
<1>9. ASSUME NEW c \in Calls, NEW a \in Answers, Answer(c, a)
      PROVE  GateCoversEveryWindow'
  BY <1>9 DEF Answer, Answers, GoTo, Note, NotedGate, MaxOf, gateVars,
     limiterVars, GateCoversEveryWindow, TypeOK
<1>10. ASSUME NEW c \in Calls, ReturnAnswer(c)
      PROVE  GateCoversEveryWindow'
  BY <1>10 DEF ReturnAnswer, GoTo, Return, Transient, gateVars, limiterVars,
     GateCoversEveryWindow, TypeOK
<1>11. ASSUME NEW c \in Calls, RetryHelper(c)
      PROVE  GateCoversEveryWindow'
  BY <1>11 DEF RetryHelper, GoTo, SleepFor, Pause, WaitAfter, Note, NotedGate,
     MaxOf, gateVars, limiterVars, GateCoversEveryWindow, TypeOK
<1>12. ASSUME NEW c \in Calls, RetryOperation(c)
      PROVE  GateCoversEveryWindow'
  BY <1>12 DEF RetryOperation, GoTo, SleepFor, Pause, WaitAfter, Note,
     NotedGate, MaxOf, gateVars, limiterVars, GateCoversEveryWindow, TypeOK
<1>13. ASSUME NEW c \in Calls, GiveUp(c)
      PROVE  GateCoversEveryWindow'
  BY <1>13 DEF GiveUp, GoTo, Return, gateVars, limiterVars,
     GateCoversEveryWindow, TypeOK
<1>14. ASSUME NEW c \in Calls, EndBackoff(c)
      PROVE  GateCoversEveryWindow'
  BY <1>14 DEF EndBackoff, GoTo, gateVars, limiterVars, GateCoversEveryWindow,
     TypeOK
<1>15. ASSUME NEW c \in Calls, Abort(c)
      PROVE  GateCoversEveryWindow'
  BY <1>15 DEF Abort, GoTo, Return, gateVars, limiterVars,
     GateCoversEveryWindow, TypeOK
<1>16. ASSUME NEW c \in Calls, Cancel(c)
      PROVE  GateCoversEveryWindow'
  BY <1>16 DEF Cancel, gateVars, limiterVars, GateCoversEveryWindow, TypeOK
<1>17. CASE Tick
  BY <1>17 DEF Tick, Left, GateCoversEveryWindow, TypeOK
<1>18. CASE UNCHANGED vars
  BY <1>18 DEF vars, callVars, gateVars, limiterVars, GateCoversEveryWindow,
     TypeOK
<1>19. QED
  BY <1>1, <1>2, <1>3, <1>4, <1>5, <1>6, <1>7, <1>8, <1>9, <1>10, <1>11,
     <1>12, <1>13, <1>14, <1>15, <1>16, <1>17, <1>18
     DEF Next, Step, ServerAnswers

\* The gate of the process covers every caller's running 429 window.
THEOREM GateCoversWindows == Spec => []GateCoversEveryWindow
<1>1. Init => GateCoversEveryWindow
  BY DEF Init, GateCoversEveryWindow
<1>2. QED
  BY <1>1, WindowCoverStep, TypeCorrect, PTL DEF Spec

-----------------------------------------------------------------------------
(* Retry-After                                                             *)

\* A window is never longer than the Retry-After it came from, a backoff covers
\* what is left of it, and it is over wherever a request may be prepared.
WindowInv ==
    \A c \in Calls :
        /\ owe[c] <= ans[c].ra
        /\ pc[c] = "backoff" => owe[c] <= timer[c]
        /\ pc[c] \notin {"answered", "backoff", "done"} => owe[c] = 0

\* Every step preserves WindowInv: the wait is at least the Retry-After.
LEMMA WindowStep ==
    TypeOK /\ TypeOK' /\ WindowInv /\ [Next]_vars => WindowInv'
<1> SUFFICES ASSUME TypeOK, TypeOK', WindowInv, [Next]_vars
             PROVE  WindowInv'
  OBVIOUS
<1>1. ASSUME NEW c \in Calls, Start(c)
      PROVE  WindowInv'
  BY <1>1 DEF Start, GoTo, gateVars, limiterVars, WindowInv, TypeOK
<1>2. ASSUME NEW c \in Calls, Loop(c)
      PROVE  WindowInv'
  BY <1>2 DEF Loop, GoTo, Return, gateVars, limiterVars, WindowInv, TypeOK
<1>3. ASSUME NEW c \in Calls, ReadGate(c)
      PROVE  WindowInv'
  BY <1>3 DEF ReadGate, GoTo, SleepFor, limiterVars, WindowInv, TypeOK
<1>4. ASSUME NEW c \in Calls, LeaveGate(c)
      PROVE  WindowInv'
  BY <1>4 DEF LeaveGate, GoTo, gateVars, limiterVars, WindowInv, TypeOK
<1>5. ASSUME NEW c \in Calls, TakeToken(c)
      PROVE  WindowInv'
  BY <1>5 DEF TakeToken, GoTo, gateVars, Refilled, MinOf, Capacity, WindowInv,
     TypeOK
<1>6. ASSUME NEW c \in Calls, AwaitToken(c)
      PROVE  WindowInv'
  BY <1>6 DEF AwaitToken, GoTo, SleepFor, gateVars, Refilled, MinOf, Capacity,
     WindowInv, TypeOK
<1>7. ASSUME NEW c \in Calls, RetryToken(c)
      PROVE  WindowInv'
  BY <1>7 DEF RetryToken, GoTo, gateVars, limiterVars, WindowInv, TypeOK
<1>8. ASSUME NEW c \in Calls, Send(c)
      PROVE  WindowInv'
  BY <1>8 DEF Send, GoTo, Return, gateVars, limiterVars, WindowInv, TypeOK
<1>9. ASSUME NEW c \in Calls, NEW a \in Answers, Answer(c, a)
      PROVE  WindowInv'
  BY <1>9 DEF Answer, Answers, GoTo, Note, NotedGate, MaxOf, gateVars,
     limiterVars, WindowInv, TypeOK
<1>10. ASSUME NEW c \in Calls, ReturnAnswer(c)
      PROVE  WindowInv'
  BY <1>10 DEF ReturnAnswer, GoTo, Return, Transient, gateVars, limiterVars,
     WindowInv, TypeOK
<1>11. ASSUME NEW c \in Calls, RetryHelper(c)
      PROVE  WindowInv'
  BY <1>11 DEF RetryHelper, GoTo, SleepFor, Pause, WaitAfter, Note, NotedGate,
     MaxOf, gateVars, limiterVars, WindowInv, TypeOK
<1>12. ASSUME NEW c \in Calls, RetryOperation(c)
      PROVE  WindowInv'
  BY <1>12 DEF RetryOperation, GoTo, SleepFor, Pause, WaitAfter, Note,
     NotedGate, MaxOf, gateVars, limiterVars, WindowInv, TypeOK
<1>13. ASSUME NEW c \in Calls, GiveUp(c)
      PROVE  WindowInv'
  BY <1>13 DEF GiveUp, GoTo, Return, gateVars, limiterVars, WindowInv, TypeOK
<1>14. ASSUME NEW c \in Calls, EndBackoff(c)
      PROVE  WindowInv'
  BY <1>14 DEF EndBackoff, GoTo, gateVars, limiterVars, WindowInv, TypeOK
<1>15. ASSUME NEW c \in Calls, Abort(c)
      PROVE  WindowInv'
  BY <1>15 DEF Abort, GoTo, Return, gateVars, limiterVars, WindowInv, TypeOK
<1>16. ASSUME NEW c \in Calls, Cancel(c)
      PROVE  WindowInv'
  BY <1>16 DEF Cancel, gateVars, limiterVars, WindowInv, TypeOK
<1>17. CASE Tick
  BY <1>17 DEF Tick, Left, WindowInv, TypeOK
<1>18. CASE UNCHANGED vars
  BY <1>18 DEF vars, callVars, gateVars, limiterVars, WindowInv, TypeOK
<1>19. QED
  BY <1>1, <1>2, <1>3, <1>4, <1>5, <1>6, <1>7, <1>8, <1>9, <1>10, <1>11,
     <1>12, <1>13, <1>14, <1>15, <1>16, <1>17, <1>18
     DEF Next, Step, ServerAnswers

\* No operation goes back to the server inside its own Retry-After window.
THEOREM RetryAfterIsHonoured == Spec => []RetryAfterHonoured
<1>1. Init => WindowInv
  <2> SUFFICES ASSUME Init, NEW c \in Calls
               PROVE  owe[c] <= ans[c].ra /\ pc[c] = "idle" /\ owe[c] = 0
    BY DEF Init, WindowInv
  <2>1. ans[c] = [kind |-> "none", ra |-> 0]
    BY DEF Init
  <2>2. QED
    BY <2>1 DEF Init
<1>2. WindowInv => RetryAfterHonoured
  BY DEF WindowInv, RetryAfterHonoured
<1>3. QED
  BY <1>1, <1>2, WindowStep, TypeCorrect, PTL DEF Spec

-----------------------------------------------------------------------------
(* Pacing                                                                  *)

\* A tick fills a token bucket that is not full by one, however much of it is
\* in units and how much is in the time since the last look.
LEMMA TickFills ==
    ASSUME TypeOK, Tick
    PROVE  Refilled' = IF Refilled < Capacity THEN Refilled + 1 ELSE Refilled
<1>1. /\ units \in 0..Capacity /\ age \in 0..Capacity
      /\ units' = units /\ age' = MinOf(Capacity, age + 1)
  BY DEF TypeOK, Tick
<1>2. Refilled = MinOf(Capacity, units + age) /\ Refilled' = MinOf(Capacity, units' + age')
  BY DEF Refilled, Capacity
<1>3. QED
  BY <1>1, <1>2, CapacityNat DEF MinOf

\* A caller that is told to wait leaves the tokens that there are.
LEMMA WaitKeepsTokens ==
    ASSUME TypeOK, NEW c \in Calls, AwaitToken(c)
    PROVE  Refilled' = Refilled
  BY CapacityNat DEF TypeOK, AwaitToken, Refilled, MinOf, Capacity

\* A grant takes exactly one token.
LEMMA GrantTakesAToken ==
    ASSUME TypeOK, NEW c \in Calls, TakeToken(c)
    PROVE  Refilled \in Interval..Capacity /\ Refilled' = Refilled - Interval
  BY CapacityNat, LimiterAssumption DEF TypeOK, TakeToken, Refilled, MinOf, Capacity

\* The other steps leave the limiter alone, and only Send ends a grant.
LEMMA OthersLeaveTheLimiter ==
    ASSUME TypeOK, [Next]_vars, ~Tick,
           \A c \in Calls : ~TakeToken(c) /\ ~AwaitToken(c) /\ ~Send(c)
    PROVE  /\ Refilled' = Refilled
           /\ {c \in Calls : pc'[c] = "send"} = {c \in Calls : pc[c] = "send"}
<1>1. CASE UNCHANGED vars
  BY <1>1 DEF vars, callVars, limiterVars, Refilled, Capacity
<1>2. ASSUME NEW c \in Calls,
             \/ Start(c) \/ Loop(c) \/ ReadGate(c) \/ LeaveGate(c) \/ RetryToken(c)
             \/ ServerAnswers(c) \/ ReturnAnswer(c) \/ GiveUp(c) \/ EndBackoff(c)
             \/ Abort(c) \/ Cancel(c)
      PROVE  /\ Refilled' = Refilled
             /\ {d \in Calls : pc'[d] = "send"} = {d \in Calls : pc[d] = "send"}
  BY <1>2 DEF TypeOK, Start, Loop, ReadGate, LeaveGate, RetryToken, ServerAnswers, Answer,
     ReturnAnswer, GiveUp, EndBackoff, Abort, Cancel, GoTo, SleepFor, Return, limiterVars,
     Refilled, Capacity
<1>3. ASSUME NEW c \in Calls, RetryHelper(c) \/ RetryOperation(c)
      PROVE  /\ Refilled' = Refilled
             /\ {d \in Calls : pc'[d] = "send"} = {d \in Calls : pc[d] = "send"}
  BY <1>3 DEF TypeOK, RetryHelper, RetryOperation, Pause, GoTo, SleepFor, limiterVars,
     Refilled, Capacity
<1>4. QED
  BY <1>1, <1>2, <1>3 DEF Next, Step

\* Every step of the request path is a step of the leaky bucket or none.
LEMMA PacingStep ==
    ASSUME TypeOK, [Next]_vars
    PROVE  [Bucket!Next]_<<Capacity - Refilled, {c \in Calls : pc[c] = "send"}>>
<1> USE DEF Bucket!Next
<1>0. Refilled \in 0..Capacity
  BY CapacityNat DEF TypeOK, Refilled, MinOf
<1>1. ASSUME NEW c \in Calls, TakeToken(c)
      PROVE  Bucket!Grant(c)
  <2>1. /\ c \notin {d \in Calls : pc[d] = "send"}
        /\ {d \in Calls : pc'[d] = "send"} = {d \in Calls : pc[d] = "send"} \cup {c}
    BY <1>1 DEF TakeToken, GoTo, TypeOK
  <2>2. /\ (Capacity - Refilled) + Interval <= Capacity
        /\ Capacity - Refilled' = (Capacity - Refilled) + Interval
    BY <1>0, <1>1, GrantTakesAToken, CapacityNat, LimiterAssumption
  <2>3. QED
    BY <2>1, <2>2 DEF Bucket!Grant, Capacity
<1>2. ASSUME NEW c \in Calls, AwaitToken(c)
      PROVE  UNCHANGED <<Capacity - Refilled, {d \in Calls : pc[d] = "send"}>>
  <2>1. {d \in Calls : pc'[d] = "send"} = {d \in Calls : pc[d] = "send"}
    BY <1>2 DEF AwaitToken, SleepFor, GoTo, TypeOK
  <2>2. QED
    BY <1>2, <2>1, WaitKeepsTokens DEF Capacity
<1>3. ASSUME NEW c \in Calls, Send(c)
      PROVE  Bucket!Spend(c)
  <2>1. /\ c \in {d \in Calls : pc[d] = "send"}
        /\ {d \in Calls : pc'[d] = "send"} = {d \in Calls : pc[d] = "send"} \ {c}
    BY <1>3 DEF Send, Return, GoTo, TypeOK
  <2>2. Refilled' = Refilled
    BY <1>3 DEF Send, limiterVars, Refilled, Capacity
  <2>3. QED
    BY <2>1, <2>2 DEF Bucket!Spend, Capacity
<1>4. CASE Tick
  <2>1. {c \in Calls : pc'[c] = "send"} = {c \in Calls : pc[c] = "send"}
    BY <1>4 DEF Tick
  <2>2. CASE Refilled < Capacity
    <3>1. /\ Capacity - Refilled > 0
          /\ Capacity - Refilled' = (Capacity - Refilled) - 1
      BY <1>0, <1>4, <2>2, TickFills, CapacityNat
    <3>2. QED
      BY <2>1, <3>1 DEF Bucket!Drain, Capacity
  <2>3. CASE ~(Refilled < Capacity)
    BY <1>4, <2>1, <2>3, TickFills DEF Capacity
  <2>4. QED
    BY <2>2, <2>3
<1>5. CASE ~Tick /\ \A c \in Calls : ~TakeToken(c) /\ ~AwaitToken(c) /\ ~Send(c)
  BY <1>5, OthersLeaveTheLimiter DEF Capacity
<1>6. QED
  BY <1>1, <1>2, <1>3, <1>4, <1>5

\* The limiter implements the leaky bucket: in any W ticks it grants at most
\* Burst + W / Interval requests, and a token is never lost.
THEOREM PacingIsALeakyBucket == Spec => PacedAsALeakyBucket
<1>1. Init => Bucket!Init
  BY CapacityNat DEF Init, Bucket!Init, Refilled, MinOf
<1>2. TypeOK /\ [Next]_vars =>
        [Bucket!Next]_<<Capacity - Refilled, {c \in Calls : pc[c] = "send"}>>
  BY PacingStep
<1>3. QED
  BY <1>1, <1>2, TypeCorrect, PTL DEF Spec, PacedAsALeakyBucket, Bucket!Spec

-----------------------------------------------------------------------------
(* The retry budget                                                        *)

\* Requests sent once attempt a of round o of the store operation is over.
Used(o, a) == (o - 1) * Attempts + a

\* Used counts the attempts in the order in which the nested loops make them.
LEMMA UsedFacts ==
    ASSUME NEW o \in 1..OuterAttempts, NEW a \in 1..Attempts
    PROVE  /\ Used(o, a) \in Nat
           /\ Used(o, a) <= OuterAttempts * Attempts
           /\ Used(o, a - 1) + 1 = Used(o, a)
           /\ Used(o, (a + 1) - 1) = Used(o, a)
           /\ Used(o + 1, 1 - 1) = Used(o, Attempts)
           /\ Used(OuterAttempts, Attempts) = OuterAttempts * Attempts
<1> DEFINE before == (o - 1) * Attempts
<1>1. before \in Nat /\ before + Attempts = o * Attempts
  BY PolicyAssumption
<1>2. o * Attempts <= OuterAttempts * Attempts
  BY PolicyAssumption
<1>3. (o + 1 - 1) * Attempts = o * Attempts
  BY PolicyAssumption
<1>4. (OuterAttempts - 1) * Attempts + Attempts = OuterAttempts * Attempts
  BY PolicyAssumption
<1>5. o * Attempts \in Nat /\ OuterAttempts * Attempts \in Nat
  BY PolicyAssumption
<1>6. Used(o, a) = before + a /\ Used(o, a - 1) = before + a - 1
      /\ Used(o, Attempts) = before + Attempts
      /\ Used(o, (a + 1) - 1) = before + a
  BY <1>1, PolicyAssumption DEF Used
<1>7. Used(o + 1, 1 - 1) = o * Attempts
  BY <1>3, <1>5 DEF Used
<1>8. Used(OuterAttempts, Attempts) = OuterAttempts * Attempts
  BY <1>4 DEF Used
<1> HIDE DEF before
<1>9. QED
  BY <1>1, <1>2, <1>5, <1>6, <1>7, <1>8, PolicyAssumption

\* The number of requests is a function of where the nested loops stand.
BudgetInv ==
    \A c \in Calls :
        /\ pc[c] \notin {"wire", "answered", "done"} =>
              sent[c] = Used(outer[c], att[c] - 1)
        /\ pc[c] \in {"wire", "answered"} => sent[c] = Used(outer[c], att[c])
        /\ pc[c] = "done" =>
              sent[c] \in {Used(outer[c], att[c] - 1), Used(outer[c], att[c])}
        /\ pc[c] # "done" => result[c] = "none"
        /\ result[c] = "exhausted" =>
              /\ att[c] = Attempts
              /\ outer[c] = OuterAttempts
              /\ sent[c] = Used(outer[c], att[c])

\* Every step preserves BudgetInv.
LEMMA BudgetStep ==
    TypeOK /\ TypeOK' /\ BudgetInv /\ [Next]_vars => BudgetInv'
<1> SUFFICES ASSUME TypeOK, TypeOK', BudgetInv, [Next]_vars
             PROVE  BudgetInv'
  OBVIOUS
<1>1. ASSUME NEW c \in Calls, Start(c)
      PROVE  BudgetInv'
  BY <1>1 DEF Start, GoTo, gateVars, limiterVars, BudgetInv, TypeOK
<1>2. ASSUME NEW c \in Calls, Loop(c)
      PROVE  BudgetInv'
  BY <1>2 DEF Loop, GoTo, Return, gateVars, limiterVars, BudgetInv, TypeOK
<1>3. ASSUME NEW c \in Calls, ReadGate(c)
      PROVE  BudgetInv'
  BY <1>3 DEF ReadGate, GoTo, SleepFor, limiterVars, BudgetInv, TypeOK
<1>4. ASSUME NEW c \in Calls, LeaveGate(c)
      PROVE  BudgetInv'
  BY <1>4 DEF LeaveGate, GoTo, gateVars, limiterVars, BudgetInv, TypeOK
<1>5. ASSUME NEW c \in Calls, TakeToken(c)
      PROVE  BudgetInv'
  BY <1>5 DEF TakeToken, GoTo, gateVars, Refilled, MinOf, Capacity, BudgetInv,
     TypeOK
<1>6. ASSUME NEW c \in Calls, AwaitToken(c)
      PROVE  BudgetInv'
  BY <1>6 DEF AwaitToken, GoTo, SleepFor, gateVars, Refilled, MinOf, Capacity,
     BudgetInv, TypeOK
<1>7. ASSUME NEW c \in Calls, RetryToken(c)
      PROVE  BudgetInv'
  BY <1>7 DEF RetryToken, GoTo, gateVars, limiterVars, BudgetInv, TypeOK
<1>8. ASSUME NEW c \in Calls, Send(c)
      PROVE  BudgetInv'
  <2>1. outer[c] \in 1..OuterAttempts /\ att[c] \in 1..Attempts
    BY DEF TypeOK
  <2>2. Used(outer[c], att[c] - 1) + 1 = Used(outer[c], att[c])
    BY <2>1, UsedFacts
  <2>3. sent[c] = Used(outer[c], att[c] - 1) /\ pc[c] = "send"
    BY <1>8 DEF Send, BudgetInv
  <2>4. CASE ctxDone[c]
    BY <1>8, <2>3, <2>4 DEF Send, GoTo, Return, gateVars, limiterVars,
       BudgetInv, TypeOK
  <2>5. CASE ~ctxDone[c]
    <3>1. /\ pc' = [pc EXCEPT ![c] = "wire"]
          /\ sent' = [sent EXCEPT ![c] = sent[c] + 1]
          /\ UNCHANGED <<result, att, outer>>
      BY <1>8, <2>5 DEF Send, GoTo
    <3>2. QED
      BY <2>2, <2>3, <3>1 DEF BudgetInv, TypeOK
  <2>6. QED
    BY <2>4, <2>5
<1>9. ASSUME NEW c \in Calls, NEW a \in Answers, Answer(c, a)
      PROVE  BudgetInv'
  BY <1>9 DEF Answer, Answers, GoTo, Note, NotedGate, MaxOf, gateVars,
     limiterVars, BudgetInv, TypeOK
<1>10. ASSUME NEW c \in Calls, ReturnAnswer(c)
      PROVE  BudgetInv'
  BY <1>10 DEF ReturnAnswer, GoTo, Return, Transient, gateVars, limiterVars,
     BudgetInv, TypeOK, Kinds
<1>11. ASSUME NEW c \in Calls, RetryHelper(c)
      PROVE  BudgetInv'
  BY <1>11, UsedFacts DEF RetryHelper, GoTo, SleepFor, Pause, WaitAfter, Note, NotedGate,
     MaxOf, gateVars, limiterVars, BudgetInv, TypeOK
<1>12. ASSUME NEW c \in Calls, RetryOperation(c)
      PROVE  BudgetInv'
  BY <1>12, UsedFacts DEF RetryOperation, GoTo, SleepFor, Pause, WaitAfter, Note,
     NotedGate, MaxOf, gateVars, limiterVars, BudgetInv, TypeOK
<1>13. ASSUME NEW c \in Calls, GiveUp(c)
      PROVE  BudgetInv'
  BY <1>13 DEF GiveUp, GoTo, Return, gateVars, limiterVars, BudgetInv, TypeOK
<1>14. ASSUME NEW c \in Calls, EndBackoff(c)
      PROVE  BudgetInv'
  BY <1>14 DEF EndBackoff, GoTo, gateVars, limiterVars, BudgetInv, TypeOK
<1>15. ASSUME NEW c \in Calls, Abort(c)
      PROVE  BudgetInv'
  BY <1>15 DEF Abort, GoTo, Return, gateVars, limiterVars, BudgetInv, TypeOK
<1>16. ASSUME NEW c \in Calls, Cancel(c)
      PROVE  BudgetInv'
  BY <1>16 DEF Cancel, gateVars, limiterVars, BudgetInv, TypeOK
<1>17. CASE Tick
  BY <1>17 DEF Tick, Left, BudgetInv, TypeOK
<1>18. CASE UNCHANGED vars
  BY <1>18 DEF vars, callVars, gateVars, limiterVars, BudgetInv, TypeOK
<1>19. QED
  BY <1>1, <1>2, <1>3, <1>4, <1>5, <1>6, <1>7, <1>8, <1>9, <1>10, <1>11,
     <1>12, <1>13, <1>14, <1>15, <1>16, <1>17, <1>18
     DEF Next, Step, ServerAnswers

\* The nested loops send at most the product of their budgets, and give a
\* transient error back only when they have used all of it.
THEOREM BudgetIsExact == Spec => []RequestBudget
<1>1. Init => BudgetInv
  <2>1. Used(1, 1 - 1) = 0
    BY PolicyAssumption DEF Used
  <2>2. QED
    BY <2>1 DEF Init, BudgetInv
<1>2. TypeOK /\ BudgetInv => RequestBudget
  <2> SUFFICES ASSUME TypeOK, BudgetInv, NEW c \in Calls
               PROVE  /\ sent[c] <= OuterAttempts * Attempts
                      /\ result[c] = "exhausted" =>
                            sent[c] = OuterAttempts * Attempts
    BY DEF RequestBudget
  <2>1. outer[c] \in 1..OuterAttempts /\ att[c] \in 1..Attempts
    BY DEF TypeOK
  <2>2. sent[c] \in {Used(outer[c], att[c] - 1), Used(outer[c], att[c])}
    BY DEF BudgetInv, TypeOK, Labels
  <2>3. sent[c] \in Nat /\ Used(outer[c], att[c] - 1) + 1 = Used(outer[c], att[c])
    BY <2>1, UsedFacts DEF TypeOK
  <2>4. sent[c] <= Used(outer[c], att[c])
    BY <2>1, <2>2, <2>3, UsedFacts
  <2>5. Used(outer[c], att[c]) <= OuterAttempts * Attempts
    BY <2>1, UsedFacts
  <2>6. OuterAttempts * Attempts \in Nat /\ Used(outer[c], att[c]) \in Nat
    BY <2>1, UsedFacts, PolicyAssumption
  <2>7. QED
    BY <2>1, <2>3, <2>4, <2>5, <2>6, UsedFacts DEF BudgetInv
<1>3. QED
  BY <1>1, <1>2, BudgetStep, TypeCorrect, PTL DEF Spec

=============================================================================
