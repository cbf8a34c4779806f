---------------------------- MODULE TextIndexer ----------------------------
(***************************************************************************)
(* TextIndexer.IndexEntries (filestore_text_index.go): a feeder hands the  *)
(* selected files to a pool of workers over an unbuffered channel, the     *)
(* workers download and extract them and send an outcome each over a       *)
(* buffered channel, the caller drains it until a third goroutine closes   *)
(* it, and writes everything with one bulk request.  The context may be    *)
(* cancelled at any time.                                                  *)
(*                                                                         *)
(* A file is its position in the list of entries. The buffered channel is a *)
(* set: the order of the outcomes reaches the order of the documents in the*)
(* bulk request and of the first error texts only.                         *)
(***************************************************************************)
EXTENDS Integers, Sequences, FiniteSets

CONSTANTS
    Inputs,    \* lists of entries IndexEntries may be called with
    Limits,    \* values of IndexOptions.Limit, 0 = no limit
    Workers    \* IndexOptions.Workers

Entry == [kind : {"file", "folder"}, wanted : BOOLEAN]

ASSUME IndexerAssumption ==
    /\ Inputs \subseteq Seq(Entry)
    /\ Limits \subseteq Nat
    /\ Workers \in Nat \ {0}

VARIABLES
    entries, limit,   \* the arguments of the call
    work,             \* the files selectEntries chose
    waiting,          \* those the feeder has not handed out yet
    jobsClosed,       \* has the feeder closed the jobs channel?
    pc,               \* where each worker is
    holds,            \* the file a worker works on, 0 = none
    verdict,          \* what became of a file: "none", "doc" or "error"
    results,          \* outcomes in the results channel
    resultsClosed,    \* has it been closed?
    main,             \* where the caller is
    docs, failed,     \* outcomes the caller has received
    index,            \* what the text index holds of this run
    cancelled,        \* ctx.Err() # nil
    res               \* what the call returned

feederVars == <<waiting, jobsClosed>>
workerVars == <<pc, holds, verdict>>
callerVars == <<main, docs, failed, index, res>>
args == <<entries, limit, work>>
vars == <<args, feederVars, workerVars, results, resultsClosed, callerVars,
          cancelled>>

WorkerIds == 1 .. Workers

Wanted(e) == e.kind = "file" /\ e.wanted

\* Files with an allowed extension, in order, at most `max` of them.
SelectEntries(all, max) ==
    {i \in DOMAIN all :
        /\ Wanted(all[i])
        /\ \/ max = 0
           \/ Cardinality({j \in 1 .. i - 1 : Wanted(all[j])}) < max}

\* Number of goroutines started: one per file, at most Workers.
Started == IF Cardinality(work) < Workers THEN Cardinality(work) ELSE Workers

NoResult == [scanned |-> 0, skipped |-> 0, indexed |-> 0, failed |-> 0,
             err |-> "running"]

Result(indexed, err) ==
    [scanned |-> Len(entries), skipped |-> Len(entries) - Cardinality(work),
     indexed |-> indexed, failed |-> Cardinality(failed), err |-> err]

Init ==
    /\ entries \in Inputs
    /\ limit \in Limits
    /\ work = SelectEntries(entries, limit)
    /\ waiting = work
    /\ jobsClosed = FALSE
    /\ pc = [w \in WorkerIds |-> IF w <= Started THEN "recv" ELSE "done"]
    /\ holds = [w \in WorkerIds |-> 0]
    /\ verdict = [f \in work |-> "none"]
    /\ results = {}
    /\ resultsClosed = FALSE
    /\ main = "start"
    /\ docs = {}
    /\ failed = {}
    /\ index = {}
    /\ cancelled = FALSE
    /\ res = NoResult

\* The goroutines exist.
Running == work # {} /\ main # "start"

-----------------------------------------------------------------------------
(* The feeder                                                              *)

\* jobs <- e, received by w.  The channel has no buffer: one step for both.
Feed(w) ==
    /\ Running
    /\ ~jobsClosed
    /\ pc[w] = "recv"
    /\ \E f \in waiting :
          /\ \A g \in waiting : f <= g
          /\ holds' = [holds EXCEPT ![w] = f]
          /\ waiting' = waiting \ {f}
    /\ pc' = [pc EXCEPT ![w] = "check"]
    /\ UNCHANGED <<args, jobsClosed, verdict, results, resultsClosed,
                   callerVars, cancelled>>

\* The loop is over, or the select took <-ctx.Done().
CloseJobs ==
    /\ Running
    /\ ~jobsClosed
    /\ waiting = {} \/ cancelled
    /\ jobsClosed' = TRUE
    /\ UNCHANGED <<args, waiting, workerVars, results, resultsClosed, callerVars,
                   cancelled>>

-----------------------------------------------------------------------------
(* The workers                                                             *)

\* Mutant of Check: a cancelled worker takes the next job, with no outcome.
CheckDropsFile(w) ==
    /\ pc[w] = "check"
    /\ IF cancelled
         THEN /\ holds' = [holds EXCEPT ![w] = 0]
              /\ pc' = [pc EXCEPT ![w] = "recv"]
         ELSE /\ pc' = [pc EXCEPT ![w] = "index"]
              /\ UNCHANGED holds
    /\ UNCHANGED <<args, feederVars, verdict, results, resultsClosed,
                   callerVars, cancelled>>

\* After the receive: ctx.Err() is read once, before the download.
Check(w) ==
    /\ pc[w] = "check"
    /\ IF cancelled
         THEN /\ verdict' = [verdict EXCEPT ![holds[w]] = "error"]
              /\ pc' = [pc EXCEPT ![w] = "send"]
         ELSE /\ pc' = [pc EXCEPT ![w] = "index"]
              /\ UNCHANGED verdict
    /\ UNCHANGED <<args, feederVars, holds, results, resultsClosed,
                   callerVars, cancelled>>

\* Mutant of IndexOne: a file that fails is tried again, for ever.
IndexOneAgain(w) ==
    /\ pc[w] = "index"
    /\ \/ /\ verdict' = [verdict EXCEPT ![holds[w]] = "doc"]
          /\ pc' = [pc EXCEPT ![w] = "send"]
       \/ /\ pc' = [pc EXCEPT ![w] = "check"]
          /\ UNCHANGED verdict
    /\ UNCHANGED <<args, feederVars, holds, results, resultsClosed,
                   callerVars, cancelled>>

\* indexOne: download and extraction succeed, or one of them fails.
IndexOne(w) ==
    /\ pc[w] = "index"
    /\ \E v \in {"doc", "error"} : verdict' = [verdict EXCEPT ![holds[w]] = v]
    /\ pc' = [pc EXCEPT ![w] = "send"]
    /\ UNCHANGED <<args, feederVars, holds, results, resultsClosed,
                   callerVars, cancelled>>

HasRoom == Cardinality(results) < Started

\* results <- outcome, and back to the range over jobs.
Send(w) ==
    /\ pc[w] = "send"
    /\ HasRoom
    /\ results' = results \cup {holds[w]}
    /\ holds' = [holds EXCEPT ![w] = 0]
    /\ pc' = [pc EXCEPT ![w] = "recv"]
    /\ UNCHANGED <<args, feederVars, verdict, resultsClosed, callerVars,
                   cancelled>>

\* The range over jobs ends: wg.Done().
Exit(w) ==
    /\ pc[w] = "recv"
    /\ jobsClosed
    /\ pc' = [pc EXCEPT ![w] = "done"]
    /\ UNCHANGED <<args, feederVars, holds, verdict, results, resultsClosed,
                   callerVars, cancelled>>

\* wg.Wait(); close(results)
CloseResults ==
    /\ Running
    /\ ~resultsClosed
    /\ \A w \in WorkerIds : pc[w] = "done"
    /\ resultsClosed' = TRUE
    /\ UNCHANGED <<args, feederVars, workerVars, results, callerVars,
                   cancelled>>

-----------------------------------------------------------------------------
(* The caller                                                              *)

Return(indexed, err) ==
    /\ main' = "returned"
    /\ res' = Result(indexed, err)

\* Nothing selected: no goroutine is started.  Otherwise drain.
Begin ==
    /\ main = "start"
    /\ IF work = {} THEN Return(0, "none")
                      ELSE main' = "drain" /\ UNCHANGED res
    /\ UNCHANGED <<args, feederVars, workerVars, results, resultsClosed,
                   docs, failed, index, cancelled>>

Receive ==
    /\ main = "drain"
    /\ \E f \in results :
          /\ results' = results \ {f}
          /\ IF verdict[f] = "error"
               THEN failed' = failed \cup {f} /\ UNCHANGED docs
               ELSE docs' = docs \cup {f} /\ UNCHANGED failed
    /\ UNCHANGED <<args, feederVars, workerVars, resultsClosed, main, index,
                   res, cancelled>>

\* Mutant of Drained: a cancelled run writes what it has.
DrainedIgnoresCancel ==
    /\ main = "drain"
    /\ resultsClosed
    /\ results = {}
    /\ IF docs = {} THEN Return(0, "none")
       ELSE main' = "put" /\ UNCHANGED res
    /\ UNCHANGED <<args, feederVars, workerVars, results, resultsClosed,
                   docs, failed, index, cancelled>>

\* Mutant of Drained: the caller leaves as soon as it is cancelled.
DrainedLeavesEarly ==
    /\ main = "drain"
    /\ cancelled \/ (resultsClosed /\ results = {})
    /\ IF cancelled THEN Return(0, "cancelled")
       ELSE IF docs = {} THEN Return(0, "none")
       ELSE main' = "put" /\ UNCHANGED res
    /\ UNCHANGED <<args, feederVars, workerVars, results, resultsClosed,
                   docs, failed, index, cancelled>>

\* The range over results ends; ctx.Err() is read.
Drained ==
    /\ main = "drain"
    /\ resultsClosed
    /\ results = {}
    /\ IF cancelled THEN Return(0, "cancelled")
       ELSE IF docs = {} THEN Return(0, "none")
       ELSE main' = "put" /\ UNCHANGED res
    /\ UNCHANGED <<args, feederVars, workerVars, results, resultsClosed,
                   docs, failed, index, cancelled>>

\* One bulk request: all documents are stored, or an error comes back and any
\* of them may have been (item errors, a lost answer, a cancelled request).
Put ==
    /\ main = "put"
    /\ \/ /\ index' = docs
          /\ Return(Cardinality(docs), "none")
       \/ /\ \E stored \in SUBSET docs : index' = stored
          /\ Return(0, "put")
    /\ UNCHANGED <<args, feederVars, workerVars, results, resultsClosed,
                   docs, failed, cancelled>>

Cancel ==
    /\ ~cancelled
    /\ main # "returned"
    /\ cancelled' = TRUE
    /\ UNCHANGED <<args, feederVars, workerVars, results, resultsClosed,
                   callerVars>>

Worker(w) == Feed(w) \/ Check(w) \/ IndexOne(w) \/ Send(w) \/ Exit(w)
Caller == Begin \/ Receive \/ Drained \/ Put

Finished == main = "returned" /\ UNCHANGED vars

Next ==
    \/ \E w \in WorkerIds : Worker(w)
    \/ CloseJobs
    \/ CloseResults
    \/ Caller
    \/ Cancel
    \/ Finished

Spec == Init /\ [][Next]_vars

\* Goroutines that can run do run, and downloads and extractions return: the
\* scheduler's promise, and an assumption on the store and the tools.
FairSpec ==
    /\ Spec
    /\ \A w \in WorkerIds : WF_vars(Worker(w))
    /\ WF_vars(CloseJobs)
    /\ WF_vars(CloseResults)
    /\ WF_vars(Caller)

-----------------------------------------------------------------------------
(* Properties                                                              *)

\* Every variable has its type, and the channel is never over its capacity.
TypeOK ==
    /\ entries \in Seq(Entry) /\ limit \in Nat
    /\ work = SelectEntries(entries, limit)
    /\ waiting \subseteq work
    /\ jobsClosed \in BOOLEAN /\ resultsClosed \in BOOLEAN
    /\ cancelled \in BOOLEAN
    /\ pc \in [WorkerIds -> {"recv", "check", "index", "send", "done"}]
    /\ holds \in [WorkerIds -> work \cup {0}]
    /\ verdict \in [work -> {"none", "doc", "error"}]
    /\ results \subseteq work /\ Cardinality(results) <= Started
    /\ main \in {"start", "drain", "put", "returned"}
    /\ docs \subseteq work /\ failed \subseteq work /\ index \subseteq work

\* Where a file that was handed out can be.
HeldBy(f) == {w \in WorkerIds : holds[w] = f}

\* Every file the feeder has handed out is in exactly one place: with one
\* worker, in the results channel, among the documents or among the failures;
\* and no other file is anywhere.  No interleaving loses or doubles one.
EveryFileIsInOnePlace ==
    /\ docs \cap failed = {}
    /\ results \cap (docs \cup failed) = {}
    /\ \A w \in WorkerIds : holds[w] \notin results \cup docs \cup failed
    /\ \A v, w \in WorkerIds : holds[v] = holds[w] /\ holds[v] # 0 => v = w
    /\ \A f \in work :
          f \notin waiting <=> HeldBy(f) # {} \/ f \in results \cup docs \cup failed

\* The bulk request is sent, and the index changed, for a whole run only: a
\* cancelled run, of which the feeder handed out a part, writes nothing.
WritesOnlyAWholeRun ==
    main = "put" \/ index # {} => docs \cup failed = work /\ index \subseteq docs

\* A call that returns no error has counted every entry exactly once.
CountsEveryEntry ==
    res.err = "none" =>
        res.scanned = res.skipped + res.indexed + res.failed

\* When the call returns, none of its goroutines is left.
NoGoroutineIsLeft ==
    main = "returned" /\ work # {} =>
        jobsClosed /\ resultsClosed /\ \A w \in WorkerIds : pc[w] = "done"

\* Every call returns, cancelled or not.
EveryRunReturns == <>(main = "returned")
=============================================================================
