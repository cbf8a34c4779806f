------------------------------- MODULE Sessions -------------------------------
(***************************************************************************)
(* Command sessions: some users each run one command of the client against *)
(* one portal.  A command is a script of requests; the answer to a request *)
(* may bring more of them (the loop over a listing), an error ends the     *)
(* command, is counted, or is dropped, as the code of the command has it.  *)
(*                                                                         *)
(* A request may fail before the portal applies it, or after (the answer   *)
(* is lost), and a creating request may be applied twice, because the      *)
(* retry loop of the transport repeats it.  Faults are bounded.            *)
(*                                                                         *)
(* What a portal is, what requests do to it and which requests follow an   *)
(* answer are parameters: CRMPortal and the command modules supply them.   *)
(***************************************************************************)
EXTENDS Scripts

CONSTANTS
    Actors,            \* who runs a command
    Jobs,              \* the jobs of a run: functions from Actors to scripts
    Portals,           \* the portals a run may start from
    MaxFaults,         \* how many requests may go wrong
    Effect(_, _),      \* Effect(p, r): the portal after request r
    Accepts(_, _),     \* Accepts(p, r): the portal can do what r asks
    Creates(_),        \* r makes a new record each time it is applied
    Then(_, _),        \* Then(p, r): the scripts that may follow r's answer
    Otherwise(_)       \* Otherwise(r): the scripts that may be tried when r fails

VARIABLES portal, session, faults, jobs, start
vars == <<portal, session, faults, jobs, start>>

\* Requests are records; onErr says what becomes of the command when one fails.  done are the
\* records of the requests that count and succeeded.
OnErr == {"stop", "drop", "count"}

Fresh(script) == [todo |-> script, failed |-> FALSE, done |-> {}, errors |-> 0, dropped |-> 0]

Init == /\ portal \in Portals
        /\ jobs \in Jobs
        /\ session = [a \in Actors |-> Fresh(jobs[a])]
        /\ faults = 0
        /\ start = portal

Ended(a) == session[a].todo = <<>>
AllEnded == \A a \in Actors : Ended(a)

\* The answer is a success: what follows from it, then the rest of the script.
Answered(a, r) ==
    \E more \in Then(portal', r) :
        session' = [session EXCEPT ![a].todo = more \o Tail(@),
                                   ![a].done = IF r.counts THEN @ \cup {r.at} ELSE @]

\* The answer is an error: the client tries the next endpoint, or other requests, or the
\* command deals with the error.
Alternatives(r) == IF r.ways > 1 THEN {<<[r EXCEPT !.ways = @ - 1]>>} ELSE Otherwise(r)

Instead(a, script) == session' = [session EXCEPT ![a].todo = script \o Tail(@)]

Broken(s) == [s EXCEPT !.todo = <<>>, !.failed = TRUE]

Skipped(s, r) == [s EXCEPT !.todo = Tail(@),
                           !.errors  = IF r.onErr = "count" THEN @ + 1 ELSE @,
                           !.dropped = IF r.onErr = "drop" THEN @ + 1 ELSE @]

DealsWith(a, r) ==
    session' = [session EXCEPT ![a] = IF r.onErr = "stop" THEN Broken(@) ELSE Skipped(@, r)]

Refused(a, r) == \/ \E script \in Alternatives(r) : Instead(a, script)
                 \/ Alternatives(r) = {} /\ DealsWith(a, r)

Succeed(a) ==
    /\ ~Ended(a)
    /\ LET r == Head(session[a].todo)
       IN  /\ Accepts(portal, r)
           /\ portal' = Effect(portal, r)
           /\ Answered(a, r)
    /\ UNCHANGED <<faults, jobs, start>>

\* The portal cannot do it: the record is gone.
Reject(a) ==
    /\ ~Ended(a)
    /\ LET r == Head(session[a].todo) IN ~Accepts(portal, r) /\ Refused(a, r)
    /\ UNCHANGED <<portal, faults, jobs, start>>

Fault == faults < MaxFaults /\ faults' = faults + 1 /\ UNCHANGED <<jobs, start>>

\* The request never arrives, or its answer is lost.
Fail(a) ==
    /\ ~Ended(a)
    /\ Fault
    /\ LET r == Head(session[a].todo)
       IN  /\ Sent(r)
           /\ Refused(a, r)
           /\ \/ UNCHANGED portal
              \/ Accepts(portal, r) /\ portal' = Effect(portal, r)

\* The answer is lost and the retry loop sends the request again.
ApplyTwice(a) ==
    /\ ~Ended(a)
    /\ Fault
    /\ LET r == Head(session[a].todo)
       IN  /\ Creates(r) /\ Accepts(portal, r)
           /\ portal' = Effect(Effect(portal, r), r)
           /\ Answered(a, r)

Step(a) == Succeed(a) \/ Reject(a) \/ Fail(a) \/ ApplyTwice(a)

Finished == AllEnded /\ UNCHANGED vars

Next == (\E a \in Actors : Step(a)) \/ Finished

Spec == Init /\ [][Next]_vars /\ \A a \in Actors : WF_vars(Step(a))

\* No request failed in any way.
Quiet == faults = 0

\* Every command ends: each request brings finitely many more.
EveryCommandEnds == <>AllEnded
=============================================================================
