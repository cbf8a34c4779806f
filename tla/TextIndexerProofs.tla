------------------------- MODULE TextIndexerProofs -------------------------
(***************************************************************************)
(* For every list of entries, every number of workers and every moment of  *)
(* cancellation: no file is lost or indexed twice, a cancelled run writes  *)
(* nothing, the counts of a run without error add up, and no goroutine     *)
(* outlives the call.                                                      *)
(***************************************************************************)
EXTENDS TextIndexer, TLAPS, FiniteSetTheorems

\* What the phases of the run say of each other.
WorkersHold ==
    \A w \in WorkerIds : holds[w] # 0 <=> pc[w] \in {"check", "index", "send"}

ChannelsClose ==
    /\ jobsClosed => waiting = {} \/ cancelled
    /\ \A w \in WorkerIds : pc[w] = "done" => jobsClosed \/ w > Started
    /\ resultsClosed => jobsClosed /\ \A w \in WorkerIds : pc[w] = "done"

CallerWaits ==
    /\ main \in {"put", "returned"} /\ work # {} =>
          resultsClosed /\ results = {}
    /\ main = "put" => docs \cup failed = work
    /\ main # "returned" => index = {} /\ res = NoResult
    /\ index # {} => docs \cup failed = work /\ index \subseteq docs

Inv == TypeOK /\ EveryFileIsInOnePlace /\ WorkersHold /\ ChannelsClose
              /\ CallerWaits

-----------------------------------------------------------------------------
(* The work is a finite set of positions                                   *)

LEMMA WorkFinite ==
  ASSUME TypeOK
  PROVE  /\ Len(entries) \in Nat
         /\ work \subseteq 1 .. Len(entries)
         /\ IsFiniteSet(work) /\ Cardinality(work) \in Nat
         /\ 0 \notin work
  <1>1. Len(entries) \in Nat /\ DOMAIN entries = 1 .. Len(entries)
    BY DEF TypeOK
  <1>2. work \subseteq 1 .. Len(entries)
    BY <1>1 DEF TypeOK, SelectEntries
  <1>3. IsFiniteSet(1 .. Len(entries))
    BY <1>1, FS_Interval
  <1>4. IsFiniteSet(work)
    BY <1>2, <1>3, FS_Subset
  <1>5. Cardinality(work) \in Nat
    BY <1>4, FS_CardinalityType
  <1> QED BY <1>1, <1>2, <1>4, <1>5

\* At least one worker is started when there is work.
LEMMA OneStarted ==
  ASSUME TypeOK, work # {}
  PROVE  1 \in WorkerIds /\ 1 <= Started
  <1>1. IsFiniteSet(work) /\ Cardinality(work) \in Nat
    BY WorkFinite
  <1>2. Cardinality(work) # 0
    BY <1>1, FS_EmptySet
  <1> QED BY <1>1, <1>2, IndexerAssumption DEF Started, WorkerIds

LEMMA StartedNat ==
  ASSUME TypeOK PROVE Started \in Nat
  BY WorkFinite, IndexerAssumption DEF Started

\* The arguments never change, nor what is computed from them.
LEMMA ArgsConstant ==
  ASSUME [Next]_vars PROVE UNCHANGED args /\ Started' = Started
  <1>1. UNCHANGED args
    BY DEF Next, Worker, Caller, vars, Feed, Check, IndexOne, Send, Exit,
       CloseJobs, CloseResults, Begin, Receive, Drained, Put, Cancel, Finished
  <1> QED BY <1>1 DEF args, Started

-----------------------------------------------------------------------------
(* Initially                                                               *)

LEMMA InitInv == Init => Inv
  <1> SUFFICES ASSUME Init PROVE Inv
    OBVIOUS
  <1>1. /\ entries \in Seq(Entry) /\ limit \in Nat
        /\ work = SelectEntries(entries, limit)
    BY IndexerAssumption DEF Init
  <1>2. IsFiniteSet(work) /\ Cardinality(work) \in Nat /\ 0 \notin work
    <2>1. Len(entries) \in Nat /\ DOMAIN entries = 1 .. Len(entries)
      BY <1>1
    <2>2. work \subseteq 1 .. Len(entries)
      BY <1>1, <2>1 DEF SelectEntries
    <2>3. IsFiniteSet(1 .. Len(entries))
      BY <2>1, FS_Interval
    <2>4. IsFiniteSet(work)
      BY <2>2, <2>3, FS_Subset
    <2> QED BY <2>2, <2>4, FS_CardinalityType
  <1>3. Started \in Nat /\ Cardinality({}) = 0
    BY <1>2, IndexerAssumption, FS_EmptySet DEF Started
  <1>4. TypeOK
    <2>1. Cardinality(results) <= Started
      BY <1>3 DEF Init
    <2>2. pc \in [WorkerIds -> {"recv", "check", "index", "send", "done"}]
      BY DEF Init
    <2> QED BY <1>1, <2>1, <2>2 DEF Init, TypeOK
  <1>5. EveryFileIsInOnePlace
    BY <1>2 DEF Init, EveryFileIsInOnePlace, HeldBy, WorkerIds
  <1>6. WorkersHold /\ ChannelsClose /\ CallerWaits
    BY <1>3 DEF Init, WorkersHold, ChannelsClose, CallerWaits, WorkerIds
  <1> QED BY <1>4, <1>5, <1>6 DEF Inv

-----------------------------------------------------------------------------
(* Types                                                                   *)

\* Every step keeps the types, and the channel within its capacity.
LEMMA TypeStep ==
  ASSUME Inv, [Next]_vars
  PROVE  TypeOK'
  <1>0. UNCHANGED args /\ Started' = Started
    BY ArgsConstant
  <1>1. ASSUME NEW w \in WorkerIds, Feed(w) PROVE TypeOK'
    BY <1>0, <1>1 DEF Feed, Running, TypeOK, args, feederVars, workerVars,
       callerVars, Inv
  <1>2. ASSUME NEW w \in WorkerIds, Check(w) PROVE TypeOK'
    <2>1. holds[w] \in work
      BY <1>2 DEF Check, Inv, TypeOK, WorkersHold
    <2> QED BY <1>0, <1>2, <2>1 DEF Check, Inv, TypeOK, args, feederVars,
       callerVars
  <1>3. ASSUME NEW w \in WorkerIds, IndexOne(w) PROVE TypeOK'
    <2>1. holds[w] \in work
      BY <1>3 DEF IndexOne, Inv, TypeOK, WorkersHold
    <2> QED BY <1>0, <1>3, <2>1 DEF IndexOne, Inv, TypeOK, args, feederVars,
       callerVars
  <1>4. ASSUME NEW w \in WorkerIds, Send(w) PROVE TypeOK'
    <2>1. /\ results \subseteq work /\ IsFiniteSet(work)
          /\ Started \in Nat /\ Cardinality(results) < Started
      BY <1>4, WorkFinite, StartedNat DEF Inv, TypeOK, Send, HasRoom
    <2>2. IsFiniteSet(results) /\ Cardinality(results) \in Nat
      BY <2>1, FS_Subset, FS_CardinalityType
    <2>3. Cardinality(results \cup {holds[w]}) <= Started
      BY <2>1, <2>2, FS_AddElement
    <2>4. holds[w] \in work
      BY <1>4 DEF Send, Inv, TypeOK, WorkersHold
    <2> QED BY <1>0, <1>4, <2>3, <2>4 DEF Send, Inv, TypeOK, args, feederVars,
       callerVars
  <1>5. ASSUME NEW w \in WorkerIds, Exit(w) PROVE TypeOK'
    BY <1>0, <1>5 DEF Exit, TypeOK, args, feederVars, workerVars, callerVars,
       Inv
  <1>6. CASE CloseJobs
    BY <1>0, <1>6 DEF CloseJobs, Running, TypeOK, args, feederVars, workerVars,
       callerVars, Inv
  <1>7. CASE CloseResults
    BY <1>0, <1>7 DEF CloseResults, Running, TypeOK, args, feederVars,
       workerVars, callerVars, Inv
  <1>8. CASE Begin
    BY <1>0, <1>8 DEF Begin, Return, Result, TypeOK, args, feederVars,
       workerVars, callerVars, Inv
  <1>9. CASE Receive
    <2>1. PICK f \in results : results' = results \ {f}
      BY <1>9 DEF Receive
    <2>2. /\ results \subseteq work /\ IsFiniteSet(work)
          /\ Started \in Nat /\ Cardinality(results) <= Started
      BY WorkFinite, StartedNat DEF Inv, TypeOK
    <2>3. IsFiniteSet(results) /\ Cardinality(results) \in Nat
      BY <2>2, FS_Subset, FS_CardinalityType
    <2>4. Cardinality(results') = Cardinality(results) - 1
      BY <2>1, <2>3, FS_RemoveElement
    <2>5. docs' \subseteq work /\ failed' \subseteq work /\ results' \subseteq work
      BY <1>9 DEF Receive, Inv, TypeOK
    <2>6. Cardinality(results') <= Started
      BY <2>2, <2>3, <2>4
    <2> QED BY <1>0, <1>9, <2>5, <2>6 DEF Receive, Inv, TypeOK, args,
       feederVars, workerVars
  <1>10. CASE Drained
    BY <1>0, <1>10 DEF Drained, Return, Result, TypeOK, args, feederVars,
       workerVars, callerVars, Inv
  <1>11. CASE Put
    BY <1>0, <1>11 DEF Put, Return, Result, TypeOK, args, feederVars,
       workerVars, callerVars, Inv
  <1>12. CASE Cancel
    BY <1>0, <1>12 DEF Cancel, TypeOK, args, feederVars, workerVars,
       callerVars, Inv
  <1>13. CASE UNCHANGED vars
    BY <1>0, <1>13 DEF TypeOK, args, feederVars, workerVars, callerVars, Inv,
       vars, feederVars, workerVars, callerVars
  <1> QED
    BY <1>1, <1>2, <1>3, <1>4, <1>5, <1>6, <1>7,
       <1>8, <1>9, <1>10, <1>11, <1>12, <1>13
    DEF Next, Worker, Caller, Finished

-----------------------------------------------------------------------------
(* Every file handed out is in one place                                   *)

\* Every step moves at most one file, from one place to the next.
LEMMA PlaceStep ==
  ASSUME Inv, TypeOK', [Next]_vars
  PROVE  EveryFileIsInOnePlace'
  <1>0. UNCHANGED args /\ Started' = Started
    BY ArgsConstant
  <1>1. ASSUME NEW w \in WorkerIds, Feed(w) PROVE EveryFileIsInOnePlace'
    <2>1. PICK f \in waiting : /\ holds' = [holds EXCEPT ![w] = f]
                               /\ waiting' = waiting \ {f}
      BY <1>1 DEF Feed
    <2>2. /\ holds[w] = 0 /\ f \in work /\ f # 0
          /\ \A v \in WorkerIds : holds[v] # f
          /\ f \notin results \cup docs \cup failed
      BY <1>1, <2>1, WorkFinite
         DEF Feed, Inv, TypeOK, WorkersHold, EveryFileIsInOnePlace, HeldBy
    <2>3. UNCHANGED <<work, results, docs, failed>>
      BY <1>0, <1>1 DEF Feed, args, callerVars
    <2>4. \A v \in WorkerIds : holds'[v] = IF v = w THEN f ELSE holds[v]
      BY <2>1 DEF Inv, TypeOK
    <2>5. \A g \in work :
             g \notin waiting' <=>
                (\E v \in WorkerIds : holds'[v] = g) \/ g \in results \cup docs \cup failed
      <3>1. \A g \in work :
               (\E v \in WorkerIds : holds'[v] = g) <=>
                  g = f \/ (\E v \in WorkerIds : holds[v] = g)
        BY <2>2, <2>4, WorkFinite DEF Inv
      <3>2. \A g \in work : g \notin waiting' <=> g = f \/ g \notin waiting
        BY <2>1
      <3> QED BY <3>1, <3>2, <2>2 DEF Inv, EveryFileIsInOnePlace, HeldBy
    <2>6. /\ \A v \in WorkerIds : holds'[v] \notin results \cup docs \cup failed
          /\ \A u, v \in WorkerIds : holds'[u] = holds'[v] /\ holds'[u] # 0 => u = v
      BY <2>2, <2>4 DEF Inv, EveryFileIsInOnePlace
    <2> QED BY <2>3, <2>5, <2>6 DEF Inv, EveryFileIsInOnePlace, HeldBy
  <1>2. ASSUME NEW w \in WorkerIds, Check(w) PROVE EveryFileIsInOnePlace'
    BY <1>0, <1>2 DEF Check, Inv, EveryFileIsInOnePlace, HeldBy, args,
       feederVars, workerVars, callerVars
  <1>3. ASSUME NEW w \in WorkerIds, IndexOne(w) PROVE EveryFileIsInOnePlace'
    BY <1>0, <1>3 DEF IndexOne, Inv, EveryFileIsInOnePlace, HeldBy, args,
       feederVars, workerVars, callerVars
  <1>4. ASSUME NEW w \in WorkerIds, Send(w) PROVE EveryFileIsInOnePlace'
    <2> DEFINE f == holds[w]
    <2>1. f \in work /\ f # 0 /\ f \notin waiting
      BY <1>4, WorkFinite DEF Send, Inv, TypeOK, WorkersHold,
         EveryFileIsInOnePlace, HeldBy
    <2>2. UNCHANGED <<work, waiting, docs, failed>> /\ results' = results \cup {f}
      BY <1>0, <1>4 DEF Send, args, callerVars, feederVars
    <2>3. \A v \in WorkerIds : holds'[v] = IF v = w THEN 0 ELSE holds[v]
      BY <1>4 DEF Send, Inv, TypeOK
    <2>4. 0 \notin work /\ \A v \in WorkerIds : v # w => holds[v] # f
      BY <2>1, WorkFinite DEF Inv, EveryFileIsInOnePlace
    <2>5. \A g \in work :
             (\E v \in WorkerIds : holds'[v] = g) \/ g \in results' \cup docs \cup failed
             <=> HeldBy(g) # {} \/ g \in results \cup docs \cup failed
      BY <2>1, <2>2, <2>3, <2>4 DEF HeldBy
    <2>6. \A g \in work :
             g \notin waiting' <=> HeldBy(g)' # {} \/ g \in (results \cup docs \cup failed)'
      BY <2>2, <2>5 DEF Inv, EveryFileIsInOnePlace, HeldBy
    <2>7. /\ \A v \in WorkerIds : holds'[v] \notin results' \cup docs \cup failed
          /\ \A u, v \in WorkerIds : holds'[u] = holds'[v] /\ holds'[u] # 0 => u = v
      BY <2>1, <2>2, <2>3, <2>4 DEF Inv, TypeOK, EveryFileIsInOnePlace
    <2>8. f \notin docs \cup failed
      BY DEF Inv, EveryFileIsInOnePlace
    <2> QED BY <2>2, <2>6, <2>7, <2>8 DEF Inv, EveryFileIsInOnePlace
  <1>5. ASSUME NEW w \in WorkerIds, Exit(w) PROVE EveryFileIsInOnePlace'
    BY <1>0, <1>5 DEF Exit, Inv, EveryFileIsInOnePlace, HeldBy, args,
       feederVars, workerVars, callerVars
  <1>6. CASE CloseJobs
    BY <1>0, <1>6 DEF CloseJobs, Inv, EveryFileIsInOnePlace, HeldBy, args,
       feederVars, workerVars, callerVars
  <1>7. CASE CloseResults
    BY <1>0, <1>7 DEF CloseResults, Inv, EveryFileIsInOnePlace, HeldBy, args,
       feederVars, workerVars, callerVars
  <1>8. CASE Begin
    BY <1>0, <1>8 DEF Begin, Return, Inv, EveryFileIsInOnePlace, HeldBy, args,
       feederVars, workerVars, callerVars
  <1>9. CASE Receive
    BY <1>0, <1>9 DEF Receive, Inv, EveryFileIsInOnePlace, HeldBy, args,
       feederVars, workerVars, callerVars
  <1>10. CASE Drained
    BY <1>0, <1>10 DEF Drained, Return, Inv, EveryFileIsInOnePlace, HeldBy,
       args, feederVars, workerVars, callerVars
  <1>11. CASE Put
    BY <1>0, <1>11 DEF Put, Return, Inv, EveryFileIsInOnePlace, HeldBy, args,
       feederVars, workerVars, callerVars
  <1>12. CASE Cancel
    BY <1>0, <1>12 DEF Cancel, Inv, EveryFileIsInOnePlace, HeldBy, args,
       feederVars, workerVars, callerVars
  <1>13. CASE UNCHANGED vars
    BY <1>0, <1>13 DEF Inv, EveryFileIsInOnePlace, HeldBy, args, feederVars,
       workerVars, callerVars, vars, feederVars, workerVars, callerVars
  <1> QED
    BY <1>1, <1>2, <1>3, <1>4, <1>5, <1>6, <1>7,
       <1>8, <1>9, <1>10, <1>11, <1>12, <1>13
    DEF Next, Worker, Caller, Finished

-----------------------------------------------------------------------------
(* The phases                                                              *)

\* All goroutines are done, nothing was cancelled: every outcome has arrived.
LEMMA WholeRun ==
  ASSUME Inv, resultsClosed, results = {}, ~cancelled
  PROVE  docs \cup failed = work
  <1>1. waiting = {} /\ \A w \in WorkerIds : holds[w] = 0
    BY DEF Inv, ChannelsClose, WorkersHold
  <1>2. \A f \in work : HeldBy(f) = {}
    BY <1>1, WorkFinite DEF HeldBy, Inv
  <1>3. \A f \in work : f \in docs \cup failed
    BY <1>1, <1>2 DEF Inv, EveryFileIsInOnePlace
  <1> QED BY <1>3 DEF Inv, TypeOK

\* Every step respects the phases of the run.
LEMMA PhaseStep ==
  ASSUME Inv, TypeOK', [Next]_vars
  PROVE  (WorkersHold /\ ChannelsClose /\ CallerWaits)'
  <1>0. UNCHANGED args /\ Started' = Started
    BY ArgsConstant
  <1>1. ASSUME NEW w \in WorkerIds, Feed(w) PROVE (WorkersHold /\ ChannelsClose /\ CallerWaits)'
    <2>1. PICK f \in waiting : /\ holds' = [holds EXCEPT ![w] = f]
                               /\ waiting' = waiting \ {f}
      BY <1>1 DEF Feed
    <2>2. f # 0
      BY <2>1, WorkFinite DEF Inv, TypeOK
    <2>3. WorkersHold'
      BY <1>1, <2>1, <2>2 DEF Feed, Inv, TypeOK, WorkersHold
    <2>4. ChannelsClose'
      BY <1>0, <1>1 DEF Feed, Inv, TypeOK, ChannelsClose
    <2>5. CallerWaits'
      BY <1>0, <1>1 DEF Feed, Inv, CallerWaits, args, callerVars
    <2> QED BY <2>3, <2>4, <2>5
  <1>2. ASSUME NEW w \in WorkerIds, Check(w) PROVE (WorkersHold /\ ChannelsClose /\ CallerWaits)'
    BY <1>0, <1>2 DEF Check, Inv, TypeOK, WorkersHold, ChannelsClose,
       CallerWaits, args, feederVars, workerVars, callerVars
  <1>3. ASSUME NEW w \in WorkerIds, IndexOne(w) PROVE (WorkersHold /\ ChannelsClose /\ CallerWaits)'
    BY <1>0, <1>3 DEF IndexOne, Inv, TypeOK, WorkersHold, ChannelsClose,
       CallerWaits, args, feederVars, workerVars, callerVars
  <1>4. ASSUME NEW w \in WorkerIds, Send(w) PROVE (WorkersHold /\ ChannelsClose /\ CallerWaits)'
    BY <1>0, <1>4 DEF Send, Inv, TypeOK, WorkersHold, ChannelsClose,
       CallerWaits, args, feederVars, workerVars, callerVars
  <1>5. ASSUME NEW w \in WorkerIds, Exit(w) PROVE (WorkersHold /\ ChannelsClose /\ CallerWaits)'
    BY <1>0, <1>5 DEF Exit, Inv, TypeOK, WorkersHold, ChannelsClose,
       CallerWaits, args, feederVars, workerVars, callerVars
  <1>6. CASE CloseJobs
    BY <1>0, <1>6 DEF CloseJobs, Running, Inv, TypeOK, WorkersHold,
       ChannelsClose, CallerWaits, args, feederVars, workerVars, callerVars
  <1>7. CASE CloseResults
    <2>1. jobsClosed
      <3>1. work # {}
        BY <1>7 DEF CloseResults, Running
      <3>2. 1 \in WorkerIds /\ ~(1 > Started)
        BY <3>1, OneStarted, StartedNat DEF Inv
      <3> QED BY <1>7, <3>2 DEF CloseResults, Inv, ChannelsClose
    <2>2. WorkersHold'
      BY <1>7 DEF CloseResults, Inv, WorkersHold, workerVars
    <2>3. ChannelsClose'
      BY <1>0, <1>7, <2>1 DEF CloseResults, Inv, ChannelsClose, feederVars,
         workerVars
    <2>4. CallerWaits'
      BY <1>0, <1>7 DEF CloseResults, Inv, CallerWaits, args, callerVars
    <2> QED BY <2>2, <2>3, <2>4
  <1>8. CASE Begin
    BY <1>0, <1>8 DEF Begin, Return, Result, Inv, TypeOK, WorkersHold,
       ChannelsClose, CallerWaits, args, feederVars, workerVars, callerVars
  <1>9. CASE Receive
    BY <1>0, <1>9 DEF Receive, Inv, TypeOK, WorkersHold, ChannelsClose,
       CallerWaits, args, feederVars, workerVars, callerVars
  <1>10. CASE Drained
    <2>1. UNCHANGED <<work, index, docs, failed, results, resultsClosed>>
      BY <1>0, <1>10 DEF Drained, args
    <2>2. WorkersHold' /\ ChannelsClose'
      BY <1>0, <1>10 DEF Drained, Inv, WorkersHold, ChannelsClose, feederVars,
         workerVars
    <2>3. index = {} /\ resultsClosed /\ results = {} /\ main' \in {"put", "returned"}
      BY <1>10 DEF Drained, Return, Inv, CallerWaits
    <2>4. main' = "put" => ~cancelled /\ res' = res
      BY <1>10 DEF Drained, Return
    <2>5. main' = "put" => docs \cup failed = work
      BY <2>3, <2>4, WholeRun
    <2>6. res = NoResult
      BY <1>10 DEF Drained, Inv, CallerWaits
    <2>7. CallerWaits'
      BY <2>1, <2>3, <2>4, <2>5, <2>6 DEF CallerWaits, NoResult
    <2> QED BY <2>2, <2>7
  <1>11. CASE Put
    BY <1>0, <1>11 DEF Put, Return, Result, Inv, TypeOK, WorkersHold,
       ChannelsClose, CallerWaits, args, feederVars, workerVars, callerVars
  <1>12. CASE Cancel
    BY <1>0, <1>12 DEF Cancel, Inv, TypeOK, WorkersHold, ChannelsClose,
       CallerWaits, args, feederVars, workerVars, callerVars
  <1>13. CASE UNCHANGED vars
    BY <1>0, <1>13 DEF Inv, TypeOK, WorkersHold, ChannelsClose, CallerWaits,
       args, feederVars, workerVars, callerVars, vars, feederVars, workerVars,
       callerVars
  <1> QED
    BY <1>1, <1>2, <1>3, <1>4, <1>5, <1>6, <1>7,
       <1>8, <1>9, <1>10, <1>11, <1>12, <1>13
    DEF Next, Worker, Caller, Finished

LEMMA InvStep == Inv /\ [Next]_vars => Inv'
  <1> SUFFICES ASSUME Inv, [Next]_vars PROVE Inv'
    OBVIOUS
  <1>1. TypeOK'
    BY TypeStep
  <1>2. EveryFileIsInOnePlace' /\ (WorkersHold /\ ChannelsClose /\ CallerWaits)'
    BY <1>1, PlaceStep, PhaseStep
  <1> QED BY <1>1, <1>2 DEF Inv

LEMMA InvHolds == Spec => []Inv
  BY InitInv, InvStep, PTL DEF Spec

-----------------------------------------------------------------------------
(* The results                                                             *)

\* The pool is well typed, and the results channel is never over its capacity.
THEOREM TypeCorrect == Spec => []TypeOK
  <1>1. Inv => TypeOK
    BY DEF Inv
  <1> QED BY <1>1, InvHolds, PTL

\* No interleaving of feeder, workers and caller loses a file or doubles one.
THEOREM NothingIsLostOrDoubled == Spec => []EveryFileIsInOnePlace
  <1>1. Inv => EveryFileIsInOnePlace
    BY DEF Inv
  <1> QED BY <1>1, InvHolds, PTL

\* The index is written for whole runs only: a cancelled run writes nothing.
THEOREM CancelledRunsWriteNothing == Spec => []WritesOnlyAWholeRun
  <1>1. Inv => WritesOnlyAWholeRun
    BY DEF Inv, CallerWaits, WritesOnlyAWholeRun
  <1> QED BY <1>1, InvHolds, PTL

\* No goroutine outlives the call.
THEOREM GoroutinesEnd == Spec => []NoGoroutineIsLeft
  <1>1. Inv => NoGoroutineIsLeft
    BY DEF Inv, CallerWaits, ChannelsClose, NoGoroutineIsLeft
  <1> QED BY <1>1, InvHolds, PTL

LEMMA DisjointCount ==
  ASSUME NEW S, NEW T, IsFiniteSet(S), IsFiniteSet(T), S \cap T = {}
  PROVE  Cardinality(S) + Cardinality(T) = Cardinality(S \cup T)
  <1>1. Cardinality(S) \in Nat /\ Cardinality(T) \in Nat
    BY FS_CardinalityType
  <1>2. Cardinality(S \cap T) = 0
    BY FS_EmptySet
  <1>3. Cardinality(S \cup T) = Cardinality(S) + Cardinality(T) - Cardinality(S \cap T)
    BY FS_Union
  <1> QED BY <1>1, <1>2, <1>3

\* A whole run counts every file as a document or as a failure.
LEMMA WholeRunCount ==
  ASSUME Inv, docs \cup failed = work
  PROVE  Cardinality(docs) + Cardinality(failed) = Cardinality(work)
  <1>1. docs \cap failed = {}
    BY DEF Inv, EveryFileIsInOnePlace
  <1>2. IsFiniteSet(docs) /\ IsFiniteSet(failed)
    BY WorkFinite, FS_Subset DEF Inv, TypeOK
  <1>3. Cardinality(docs) + Cardinality(failed) = Cardinality(docs \cup failed)
    BY <1>1, <1>2, DisjointCount
  <1> QED BY <1>3, Zenon

\* Returning with no error adds up when the documents and failures counted are
\* those of a whole run.
LEMMA ReturnAddsUp ==
  ASSUME Inv, NEW n \in Nat, n + Cardinality(failed) = Cardinality(work),
         res' = Result(n, "none")
  PROVE  CountsEveryEntry'
  <1>1. /\ Len(entries) \in Nat /\ Cardinality(work) \in Nat
        /\ Cardinality(failed) \in Nat
    BY WorkFinite, FS_Subset, FS_CardinalityType DEF Inv, TypeOK
  <1>2. /\ res'.scanned = Len(entries)
        /\ res'.skipped = Len(entries) - Cardinality(work)
        /\ res'.indexed = n
        /\ res'.failed = Cardinality(failed)
    BY DEF Result
  <1>3. Len(entries) = (Len(entries) - Cardinality(work)) + n + Cardinality(failed)
    BY <1>1
  <1> QED BY <1>2, <1>3 DEF CountsEveryEntry

LEMMA DocsCount ==
  ASSUME Inv PROVE Cardinality(docs) \in Nat
  BY WorkFinite, FS_Subset, FS_CardinalityType DEF Inv, TypeOK

LEMMA CountStep ==
  ASSUME Inv, CountsEveryEntry, [Next]_vars
  PROVE  CountsEveryEntry'
  <1>1. CASE UNCHANGED res
    BY <1>1 DEF CountsEveryEntry
  <1>2. ASSUME NEW n, NEW e, Return(n, e), e # "none" PROVE CountsEveryEntry'
    BY <1>2 DEF Return, Result, CountsEveryEntry
  <1>3. Cardinality({}) = 0
    BY FS_EmptySet
  <1>4. CASE Begin
    <2>1. CASE work = {}
      <3>1. docs = {} /\ docs \cup failed = work
        BY <2>1 DEF Inv, TypeOK
      <3>2. res' = Result(0, "none")
        BY <1>4, <2>1 DEF Begin, Return
      <3>3. 0 = Cardinality(docs)
        BY <1>3, <3>1
      <3>4. 0 + Cardinality(failed) = Cardinality(work)
        BY <3>1, <3>3, WholeRunCount, Zenon
      <3> QED BY <3>2, <3>4, ReturnAddsUp
    <2>2. CASE work # {}
      BY <1>1, <1>4, <2>2 DEF Begin
    <2> QED BY <2>1, <2>2
  <1>5. CASE Drained
    <2>1. CASE cancelled
      BY <1>2, <1>5, <2>1 DEF Drained
    <2>2. CASE ~cancelled /\ docs = {}
      <3>1. docs \cup failed = work
        BY <1>5, <2>2, WholeRun DEF Drained
      <3>2. res' = Result(0, "none")
        BY <1>5, <2>2 DEF Drained, Return
      <3>3. 0 = Cardinality(docs)
        BY <1>3, <2>2
      <3>4. 0 + Cardinality(failed) = Cardinality(work)
        BY <3>1, <3>3, WholeRunCount, Zenon
      <3> QED BY <3>2, <3>4, ReturnAddsUp
    <2>3. CASE ~cancelled /\ docs # {}
      BY <1>1, <1>5, <2>3 DEF Drained
    <2> QED BY <2>1, <2>2, <2>3
  <1>6. CASE Put
    <2>1. CASE Return(Cardinality(docs), "none")
      <3>1. docs \cup failed = work
        BY <1>6 DEF Put, Inv, CallerWaits
      <3>2. Cardinality(docs) + Cardinality(failed) = Cardinality(work)
        BY <3>1, WholeRunCount, Zenon
      <3> QED BY <2>1, <3>2, DocsCount, ReturnAddsUp DEF Return
    <2>2. CASE Return(0, "put")
      BY <1>2, <2>2
    <2> QED BY <1>6, <2>1, <2>2 DEF Put
  <1>7. ASSUME NEW w \in WorkerIds, Worker(w) PROVE UNCHANGED res
    BY <1>7 DEF Worker, Feed, Check, IndexOne, Send, Exit, callerVars
  <1>8. CASE CloseJobs \/ CloseResults \/ Cancel
    BY <1>1, <1>8 DEF CloseJobs, CloseResults, Cancel, callerVars
  <1>9. CASE Receive \/ Finished \/ UNCHANGED vars
    BY <1>1, <1>9 DEF Receive, Finished, vars, callerVars
  <1> QED BY <1>1, <1>4, <1>5, <1>6, <1>7, <1>8, <1>9 DEF Next, Caller

\* The counts of a call without error add up to the entries it was given.
THEOREM CountsAddUp == Spec => []CountsEveryEntry
  <1>1. Init => CountsEveryEntry
    BY DEF Init, NoResult, CountsEveryEntry
  <1>2. Inv /\ CountsEveryEntry /\ [Next]_vars => CountsEveryEntry'
    BY CountStep
  <1> QED BY <1>1, <1>2, InvHolds, PTL DEF Spec
=============================================================================
