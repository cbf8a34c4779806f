---------------------------- MODULE FilesProofs ----------------------------
(***************************************************************************)
(* For any number of readers, attempts, pieces and folders: a writer gets  *)
(* one copy of a file, a read gives up only where it may, and a folder has *)
(* one name for the life of the client.                                    *)
(***************************************************************************)
EXTENDS Files, TLAPS

Moves == {"check", "auth", "header", "answer"}

\* Nothing is written before the body, and nothing is tried again once it has begun.
Copies ==
  \A r \in Readers :
    /\ written[r] = [i \in 1..Len(written[r]) |-> i]
    /\ at[r] \in Moves => written[r] = <<>> /\ copied[r] = 0
    /\ at[r] = "body" => /\ copied[r] = Len(written[r]) /\ copied[r] < Pieces
                         /\ err[r] = "none"
    /\ at[r] = "failed" => /\ err[r] # "none"
                           /\ err[r] = "permanent" \/ (written[r] = <<>> /\ copied[r] = 0)
    /\ at[r] = "done" /\ job[r] = "download" /\ err[r] = "none" => Len(written[r]) = Pieces

\* The stores before the one a reader is at have had their attempts, this one has
\* had as many as the reader has made there, those after it none.
Attempted(r) ==
  /\ store[r] \in MayAsk(r)
  /\ tries[r][store[r]] = try[r]
  /\ IsSQL(stores[store[r]]) => try[r] = 1
  /\ \A i \in MayAsk(r) : /\ i < store[r] => Exhausted(r, i)
                          /\ i > store[r] => tries[r][i] = 0

TriedBy(r) ==
  at[r] # "idle" =>
    /\ Attempted(r)
    /\ at[r] = "done" /\ err[r] = "transient" => \A i \in MayAsk(r) : Exhausted(r, i)

Tried == \A r \in Readers : TriedBy(r)

\* Only the search learns titles, each once, and it names a folder by what it has learned.
Named ==
  /\ \A r \in Readers : at[r] # "idle" /\ job[r] \in Folders => r = Searcher /\ job[r] \notin DOMAIN titles
  /\ \A x \in shown : x[2] \in DOMAIN titles /\ x[3] = FolderName(x[2])

IInv == TypeOK /\ Copies /\ Tried /\ Named

-----------------------------------------------------------------------------
(* The stores                                                              *)

LEMMA StoresAre ==
  ASSUME stores \in readOrders
  PROVE  /\ Len(stores) \in 2..3 /\ DOMAIN stores = 1..Len(stores)
         /\ stores[1] = "rest" \/ stores[2] = "rest"
  BY DEF readOrders

LEMMA FirstStoreIs ==
  ASSUME stores \in readOrders, NEW j
  PROVE  FirstStore(j) \in DOMAIN stores /\ (j \notin Folders => FirstStore(j) = 1)
  <1>1. \E i \in DOMAIN stores : stores[i] = "rest"
    BY StoresAre
  <1>2. 1 \in DOMAIN stores
    BY StoresAre
  <1> QED BY <1>1, <1>2 DEF FirstStore

-----------------------------------------------------------------------------
(* Types                                                                   *)

LEMMA TypeInit == Init => TypeOK
  <1> SUFFICES ASSUME Init PROVE TypeOK
    OBVIOUS
  <1>1. 1 \in DOMAIN stores /\ 1 \in 1..Attempts
    BY StoresAre, FilesAssumption DEF Init
  <1> QED BY <1>1, FilesAssumption DEF Init, TypeOK, Jobs

LEMMA StartTypes ==
  ASSUME TypeOK, NEW r \in Readers, NEW j \in Jobs \cup Folders, Start(r, j),
         UNCHANGED <<stores, token, titles>>
  PROVE  TypeOK'
  <1>1. FirstStore(j) \in DOMAIN stores
    BY FirstStoreIs DEF TypeOK
  <1>2. 1 \in 1..Attempts
    BY FilesAssumption
  <1>3. FirstStage(j, stores[FirstStore(j)]) \in {"query", "file", "folder"}
    BY DEF FirstStage
  <1>4. /\ at' \in [Readers -> {"idle", "check", "auth", "header", "answer", "body", "failed", "done", "panic"}]
        /\ stage' \in [Readers -> {"query", "object", "folder", "file", "bytes"}]
    BY <1>3 DEF TypeOK, Start, Enter
  <1>5. /\ tries' \in [Readers -> [DOMAIN stores -> Nat]]
        /\ DOMAIN stores' = DOMAIN stores
    BY DEF TypeOK, Start
  <1>6. /\ store' \in [Readers -> DOMAIN stores] /\ try' \in [Readers -> 1..Attempts]
        /\ job' \in [Readers -> Jobs \cup Folders]
    BY <1>1, <1>2 DEF TypeOK, Start
  <1>7. /\ sent' \in [Readers -> {"none", "good", "expired"}]
        /\ err' \in [Readers -> {"none", "transient", "permanent"}]
        /\ copied' \in [Readers -> Nat] /\ written' \in [Readers -> Seq(Nat)]
    BY DEF TypeOK, Start
  <1> QED BY <1>4, <1>5, <1>6, <1>7 DEF TypeOK

LEMMA AttemptTypes ==
  ASSUME TypeOK, NEW r \in Readers, NEW i \in DOMAIN stores, NEW n \in 1..Attempts, Attempt(r, i, n),
         UNCHANGED <<stores, token, job, sent, err, written, titles>>
  PROVE  TypeOK'
  <1>1. FirstStage(job'[r], stores[i]) \in {"query", "file", "folder"}
    BY DEF FirstStage
  <1>2. /\ at' \in [Readers -> {"idle", "check", "auth", "header", "answer", "body", "failed", "done", "panic"}]
        /\ stage' \in [Readers -> {"query", "object", "folder", "file", "bytes"}]
    BY <1>1 DEF TypeOK, Attempt, Enter
  <1>3. tries' \in [Readers -> [DOMAIN stores -> Nat]]
    BY DEF TypeOK, Attempt
  <1>4. /\ store' \in [Readers -> DOMAIN stores] /\ try' \in [Readers -> 1..Attempts]
        /\ copied' \in [Readers -> Nat]
    BY DEF TypeOK, Attempt
  <1> QED BY <1>2, <1>3, <1>4 DEF TypeOK

\* An answer fails the attempt, asks for more, ends the read, or begins the body.
LEMMA AnswerIs ==
  ASSUME NEW r \in Readers, Answer(r)
  PROVE  /\ at[r] = "answer" /\ UNCHANGED <<stores, token, titles, shown, job, store, try, tries, sent, copied, written>>
         /\ \/ \E e \in {"transient", "permanent"} : Fail(r, e)
            \/ \E st \in {"object", "file", "bytes"} : Enter(r, st) /\ err' = [err EXCEPT ![r] = "none"]
            \/ \E st \in {"done", "body"} :
                 /\ at' = [at EXCEPT ![r] = st] /\ UNCHANGED stage
                 /\ err' = [err EXCEPT ![r] = "none"]
                 /\ st = "done" <=> job[r] # "download"
  <1>1. PICK a \in Answers(r) :
           \/ Follows(r, a) = {} /\ Fail(r, a)
           \/ \E st \in Follows(r, a) :
                /\ IF st \in {"done", "body"}
                     THEN at' = [at EXCEPT ![r] = st] /\ UNCHANGED stage
                     ELSE Enter(r, st)
                /\ err' = [err EXCEPT ![r] = "none"]
                /\ UNCHANGED <<job, store, try, tries, sent, copied, written>>
    BY DEF Answer
  <1>2. a \in {"ok", "stale", "transient", "permanent"}
    BY DEF Answers
  <1>3. CASE Follows(r, a) = {} /\ Fail(r, a)
    <2>1. a # "stale" /\ a # "ok"
      BY <1>3 DEF Follows
    <2> QED BY <1>2, <1>3, <2>1 DEF Answer, Fail
  <1>4. ASSUME NEW st \in Follows(r, a)
        PROVE  /\ st \in {"object", "file", "bytes", "done", "body"}
               /\ st \in {"done", "body"} => (st = "done" <=> job[r] # "download")
    BY <1>4 DEF Follows, AsksOn
  <1> QED BY <1>1, <1>3, <1>4 DEF Answer

LEMMA TypeStep ==
  ASSUME TypeOK, [Next]_vars
  PROVE  TypeOK'
  <1>1. CASE Expire
    BY <1>1 DEF Expire, TypeOK, reading
  <1>2. ASSUME NEW r \in Readers, Read(r) PROVE TypeOK'
    BY <1>2, StartTypes DEF Read
  <1>3. ASSUME NEW r \in Readers, FolderTitle(r) PROVE TypeOK'
    <2>1. PICK f \in Folders : \/ UNCHANGED reading
                               \/ Start(r, f)
      BY <1>3 DEF FolderTitle
    <2>2. CASE UNCHANGED reading
      BY <1>3, <2>2 DEF FolderTitle, reading, TypeOK
    <2>3. CASE Start(r, f)
      BY <1>3, <2>3, StartTypes DEF FolderTitle
    <2> QED BY <2>1, <2>2, <2>3
  <1>4. ASSUME NEW r \in Readers, CheckToken(r) PROVE TypeOK'
    BY <1>4 DEF CheckToken, TypeOK
  <1>5. ASSUME NEW r \in Readers, Authenticate(r) PROVE TypeOK'
    <2>1. token' \in {"none", "good", "expired"}
      BY <1>5 DEF Authenticate, CachedToken, TypeOK
    <2>2. CASE /\ at' = [at EXCEPT ![r] = "header"]
               /\ UNCHANGED <<job, store, try, tries, stage, sent, err, copied, written>>
      BY <1>5, <2>1, <2>2 DEF Authenticate, TypeOK
    <2>3. CASE \E e \in {"transient", "permanent"} : Fail(r, e)
      BY <1>5, <2>1, <2>3 DEF Authenticate, Fail, TypeOK
    <2> QED BY <1>5, <2>2, <2>3 DEF Authenticate
  <1>6. ASSUME NEW r \in Readers, Header(r) PROVE TypeOK'
    BY <1>6 DEF Header, TypeOK
  <1>7. ASSUME NEW r \in Readers, Answer(r) PROVE TypeOK'
    <2>1. UNCHANGED <<stores, token, titles, job, store, try, tries, sent, copied, written>>
      BY <1>7, AnswerIs
    <2>2. CASE \E e \in {"transient", "permanent"} : Fail(r, e)
      BY <2>1, <2>2 DEF Fail, TypeOK
    <2>3. CASE \E st \in {"object", "file", "bytes"} : Enter(r, st) /\ err' = [err EXCEPT ![r] = "none"]
      BY <2>1, <2>3 DEF Enter, TypeOK
    <2>4. CASE \E st \in {"done", "body"} :
                 /\ at' = [at EXCEPT ![r] = st] /\ UNCHANGED stage
                 /\ err' = [err EXCEPT ![r] = "none"]
      BY <2>1, <2>4 DEF TypeOK
    <2> QED BY <1>7, <2>2, <2>3, <2>4, AnswerIs
  <1>8. ASSUME NEW r \in Readers, Body(r) PROVE TypeOK'
    <2>1. CASE Fail(r, BrokenOff)
      BY <1>8, <2>1 DEF Body, Fail, BrokenOff, TypeOK
    <2>2. CASE /\ copied' = [copied EXCEPT ![r] = @ + 1]
               /\ written' = [written EXCEPT ![r] = Append(@, copied[r] + 1)]
               /\ at' = [at EXCEPT ![r] = IF copied[r] + 1 = Pieces THEN "done" ELSE @]
               /\ UNCHANGED <<job, store, try, tries, stage, sent, err>>
      <3>1. copied' \in [Readers -> Nat] /\ written' \in [Readers -> Seq(Nat)]
        BY <2>2 DEF TypeOK
      <3> QED BY <1>8, <2>2, <3>1 DEF Body, TypeOK
    <2> QED BY <1>8, <2>1, <2>2 DEF Body
  <1>9. ASSUME NEW r \in Readers, Recover(r) PROVE TypeOK'
    <2>1. CASE Retried(r) /\ UNCHANGED job /\ Attempt(r, store[r], try[r] + 1)
      <3>1. try[r] + 1 \in 1..Attempts /\ store[r] \in DOMAIN stores
        BY <2>1, FilesAssumption DEF Retried, TypeOK
      <3> QED BY <1>9, <2>1, <3>1, AttemptTypes DEF Recover
    <2>2. CASE FallsBack(r) /\ UNCHANGED job /\ Attempt(r, store[r] + 1, 1)
      <3>1. 1 \in 1..Attempts /\ store[r] + 1 \in DOMAIN stores
        BY <2>2, StoresAre, FilesAssumption DEF FallsBack, TypeOK
      <3> QED BY <1>9, <2>2, <3>1, AttemptTypes DEF Recover
    <2>3. CASE /\ at' = [at EXCEPT ![r] = "done"]
               /\ UNCHANGED <<job, store, try, tries, stage, copied>>
      BY <1>9, <2>3 DEF Recover, TypeOK
    <2> QED BY <1>9, <2>1, <2>2, <2>3 DEF Recover
  <1>10. ASSUME NEW r \in Readers, Return(r) PROVE TypeOK'
    BY <1>10 DEF Return, Learned, TypeOK
  <1>11. CASE UNCHANGED vars
    BY <1>11 DEF vars, reading, TypeOK
  <1> QED BY <1>1, <1>2, <1>3, <1>4, <1>5, <1>6, <1>7, <1>8, <1>9, <1>10, <1>11 DEF Next, Step

-----------------------------------------------------------------------------
(* The writer                                                              *)

LEMMA CopiesStep ==
  ASSUME TypeOK, Copies, [Next]_vars
  PROVE  Copies'
  <1>0. DOMAIN written = Readers
    BY DEF TypeOK
  <1>1. CASE Expire \/ UNCHANGED vars
    BY <1>1 DEF Expire, vars, reading, Copies
  <1>2. ASSUME NEW r \in Readers, NEW j, Start(r, j) PROVE Copies'
    <2>1. /\ written'[r] = <<>> /\ copied'[r] = 0 /\ at'[r] \in {"answer", "check"}
          /\ \A q \in Readers \ {r} : /\ written'[q] = written[q] /\ copied'[q] = copied[q]
                                      /\ at'[q] = at[q] /\ err'[q] = err[q] /\ job'[q] = job[q]
      BY <1>2 DEF Start, Enter, TypeOK
    <2> QED BY <2>1 DEF Copies, Moves
  <1>3. ASSUME NEW r \in Readers, CheckToken(r) \/ Authenticate(r) \/ Header(r) PROVE Copies'
    <2>1. /\ UNCHANGED <<written, copied, job>> /\ at[r] \in Moves
          /\ \/ at'[r] \in Moves \cup {"panic"}
             \/ at'[r] = "failed" /\ err'[r] # "none"
          /\ \A q \in Readers \ {r} : at'[q] = at[q] /\ err'[q] = err[q]
      BY <1>3 DEF CheckToken, Authenticate, Header, Fail, Moves, TypeOK
    <2> QED BY <2>1 DEF Copies, Moves
  <1>4. ASSUME NEW r \in Readers, Answer(r) PROVE Copies'
    <2>1. UNCHANGED <<written, copied, job>> /\ at[r] = "answer"
      BY <1>4, AnswerIs
    <2>2. /\ \/ at'[r] = "failed" /\ err'[r] # "none"
             \/ at'[r] \in {"answer", "check"}
             \/ at'[r] = "done" /\ job[r] # "download"
             \/ at'[r] = "body" /\ err'[r] = "none"
          /\ \A q \in Readers \ {r} : at'[q] = at[q] /\ err'[q] = err[q]
      BY <1>4, AnswerIs DEF Fail, Enter, TypeOK
    <2> QED BY <2>1, <2>2, FilesAssumption DEF Copies, Moves
  <1>5. ASSUME NEW r \in Readers, Body(r) PROVE Copies'
    <2>1. /\ UNCHANGED job /\ at[r] = "body" /\ err[r] = "none"
          /\ copied[r] = Len(written[r]) /\ copied[r] < Pieces
          /\ \A q \in Readers \ {r} : /\ at'[q] = at[q] /\ err'[q] = err[q]
                                      /\ copied'[q] = copied[q] /\ written'[q] = written[q]
      BY <1>5 DEF Body, Fail, Copies, TypeOK
    <2>2. CASE Fail(r, BrokenOff)
      <3>1. at'[r] = "failed" /\ err'[r] = "permanent" /\ written'[r] = written[r]
        BY <1>5, <2>2 DEF Body, Fail, BrokenOff, TypeOK
      <3> QED BY <2>1, <3>1 DEF Copies, Moves
    <2>3. CASE /\ copied' = [copied EXCEPT ![r] = @ + 1]
               /\ written' = [written EXCEPT ![r] = Append(@, copied[r] + 1)]
               /\ at' = [at EXCEPT ![r] = IF copied[r] + 1 = Pieces THEN "done" ELSE @]
               /\ UNCHANGED err
      <3> DEFINE n == copied[r]
      <3>0. written[r] = [i \in 1..Len(written[r]) |-> i]
        BY DEF Copies
      <3>1. /\ n \in Nat /\ n + 1 \in Nat /\ written[r] \in Seq(Nat) /\ Len(written[r]) = n
            /\ written[r] = [i \in 1..n |-> i]
        BY <2>1, <3>0 DEF TypeOK
      <3>2. /\ written'[r] = Append(written[r], n + 1) /\ copied'[r] = n + 1
            /\ at'[r] = IF n + 1 = Pieces THEN "done" ELSE "body"
            /\ err'[r] = "none"
        BY <2>1, <2>3 DEF TypeOK
      <3>3. Len(written'[r]) = n + 1 /\ written'[r] = [i \in 1..n + 1 |-> i]
        BY <3>1, <3>2
      <3>4. n + 1 # Pieces => n + 1 < Pieces
        BY <2>1, <3>1, FilesAssumption
      <3> QED BY <2>1, <3>1, <3>2, <3>3, <3>4 DEF Copies, Moves
    <2> QED BY <1>5, <2>2, <2>3 DEF Body
  <1>6. ASSUME NEW r \in Readers, Recover(r) PROVE Copies'
    <2>1. /\ UNCHANGED <<written, job, err>> /\ at[r] = "failed"
          /\ \/ err[r] = "transient" /\ at'[r] \in {"answer", "check"} /\ copied'[r] = 0
             \/ at'[r] = "done"
          /\ \A q \in Readers \ {r} : at'[q] = at[q] /\ copied'[q] = copied[q]
      BY <1>6 DEF Recover, Attempt, Enter, Retried, FallsBack, TypeOK
    <2> QED BY <2>1 DEF Copies, Moves
  <1>7. ASSUME NEW r \in Readers, Return(r) PROVE Copies'
    BY <1>7 DEF Return, Copies, Moves, TypeOK
  <1>8. ASSUME NEW r \in Readers, Read(r) \/ FolderTitle(r) PROVE Copies'
    <2>1. UNCHANGED reading => Copies'
      BY DEF reading, Copies
    <2> QED BY <1>2, <1>8, <2>1 DEF Read, FolderTitle
  <1> QED BY <1>1, <1>3, <1>4, <1>5, <1>6, <1>7, <1>8 DEF Next, Step

-----------------------------------------------------------------------------
(* The stores that are asked                                               *)

\* What a reader may ask, and what it has asked, are its own.
LEMMA AskSame ==
  ASSUME NEW q \in Readers, UNCHANGED stores, job'[q] = job[q]
  PROVE  MayAsk(q)' = MayAsk(q)
  BY DEF MayAsk, FirstStore

LEMMA AttemptedSame ==
  ASSUME NEW q \in Readers, UNCHANGED stores, job'[q] = job[q],
         store'[q] = store[q], try'[q] = try[q], tries'[q] = tries[q]
  PROVE  /\ Attempted(q) => Attempted(q)'
         /\ (\A i \in MayAsk(q) : Exhausted(q, i)) => (\A i \in MayAsk(q) : Exhausted(q, i))'
  <1>1. MayAsk(q)' = MayAsk(q)
    BY AskSame
  <1>2. \A i : Exhausted(q, i)' <=> Exhausted(q, i)
    BY DEF Exhausted
  <1> QED BY <1>1, <1>2 DEF Attempted

LEMMA TriedSame ==
  ASSUME NEW q \in Readers, UNCHANGED stores, job'[q] = job[q],
         store'[q] = store[q], try'[q] = try[q], tries'[q] = tries[q],
         at'[q] = at[q], err'[q] = err[q], TriedBy(q)
  PROVE  TriedBy(q)'
  BY AttemptedSame DEF TriedBy

\* Whoever waits for a store has asked it as often as he has tried.
LEMMA StartTries ==
  ASSUME TypeOK, NEW r \in Readers, NEW j \in Jobs \cup Folders, Start(r, j), UNCHANGED stores
  PROVE  Attempted(r)'
  <1>1. /\ FirstStore(j) \in DOMAIN stores
        /\ j \in {"list", "stat"} => FirstStore(j) = 1
    BY FirstStoreIs, FilesAssumption DEF TypeOK, Jobs
  <1>2. /\ job'[r] = j /\ store'[r] = FirstStore(j) /\ try'[r] = 1
        /\ \A i \in DOMAIN stores : tries'[r][i] = IF i = FirstStore(j) THEN 1 ELSE 0
    BY DEF Start, TypeOK
  <1>3. MayAsk(r)' \subseteq DOMAIN stores /\ store'[r] \in MayAsk(r)'
    BY <1>1, <1>2 DEF MayAsk, FirstStore
  <1>4. \A i \in MayAsk(r)' : i >= FirstStore(j)
    <2>1. CASE j \in {"list", "stat"}
      BY <1>1, <1>3, <2>1, StoresAre DEF TypeOK
    <2>2. CASE j \notin {"list", "stat"}
      <3>1. MayAsk(r)' = {FirstStore(j)'}
        BY <1>2, <2>2 DEF MayAsk
      <3>2. FirstStore(j)' = FirstStore(j)
        BY DEF FirstStore
      <3> QED BY <1>1, <3>1, <3>2, StoresAre DEF TypeOK
    <2> QED BY <2>1, <2>2
  <1>5. DOMAIN stores \subseteq Nat
    BY StoresAre DEF TypeOK
  <1> QED BY <1>1, <1>2, <1>3, <1>4, <1>5 DEF Attempted

LEMMA AttemptTries ==
  ASSUME TypeOK, NEW r \in Readers, Attempted(r), NEW i \in DOMAIN stores, NEW n, Attempt(r, i, n),
         UNCHANGED <<stores, job>>,
         \/ i = store[r] /\ n = try[r] + 1 /\ ~IsSQL(stores[i])
         \/ i = store[r] + 1 /\ n = 1 /\ i \in MayAsk(r) /\ Exhausted(r, store[r])
  PROVE  Attempted(r)'
  <1>1. /\ store'[r] = i /\ try'[r] = n /\ tries'[r][i] = tries[r][i] + 1
        /\ \A k \in DOMAIN stores \ {i} : tries'[r][k] = tries[r][k]
    BY DEF Attempt, TypeOK
  <1>2. MayAsk(r)' = MayAsk(r)
    BY AskSame
  <1>3. MayAsk(r) \subseteq DOMAIN stores /\ DOMAIN stores \subseteq Int /\ store[r] \in DOMAIN stores
    BY FirstStoreIs, StoresAre DEF MayAsk, TypeOK
  <1>4. \A k \in DOMAIN stores \ {i} : Exhausted(r, k) => Exhausted(r, k)'
    BY <1>1 DEF Exhausted
  <1>5. CASE i = store[r] /\ n = try[r] + 1 /\ ~IsSQL(stores[i])
    BY <1>1, <1>2, <1>3, <1>4, <1>5 DEF Attempted
  <1>6. CASE i = store[r] + 1 /\ n = 1 /\ i \in MayAsk(r) /\ Exhausted(r, store[r])
    <2>1. tries[r][i] = 0
      BY <1>3, <1>6 DEF Attempted
    <2>2. \A k \in MayAsk(r) : k < i => k < store[r] \/ k = store[r]
      BY <1>3, <1>6
    <2>3. \A k \in MayAsk(r) : k < i => Exhausted(r, k)'
      BY <1>3, <1>4, <1>6, <2>2 DEF Attempted
    <2>4. \A k \in MayAsk(r) : k > i => tries'[r][k] = 0
      BY <1>1, <1>3, <1>6 DEF Attempted
    <2> QED BY <1>1, <1>2, <1>6, <2>1, <2>3, <2>4 DEF Attempted
  <1> QED BY <1>5, <1>6

\* Who may not try a store again has had all of its attempts.
LEMMA OutOfTries ==
  ASSUME TypeOK, NEW r \in Readers, Attempted(r), err[r] = "transient", ~Retried(r)
  PROVE  Exhausted(r, store[r])
  <1>1. try[r] \in 1..Attempts /\ Attempts \in Nat
    BY FilesAssumption DEF TypeOK
  <1>2. CASE IsSQL(stores[store[r]])
    BY <1>2 DEF Attempted, Exhausted
  <1>3. CASE ~IsSQL(stores[store[r]])
    <2>1. try[r] = Attempts
      BY <1>1, <1>3 DEF Retried
    <2> QED BY <1>3, <2>1 DEF Attempted, Exhausted
  <1> QED BY <1>2, <1>3

\* Who may neither try again nor fall back has asked everywhere.
LEMMA OutOfStores ==
  ASSUME TypeOK, NEW r \in Readers, Attempted(r), err[r] = "transient", ~Retried(r), ~FallsBack(r)
  PROVE  \A i \in MayAsk(r) : Exhausted(r, i)
  <1>1. Exhausted(r, store[r])
    BY OutOfTries
  <1>2. store[r] \in DOMAIN stores /\ DOMAIN stores = 1..Len(stores) /\ Len(stores) \in Nat
    BY StoresAre DEF TypeOK
  <1>3. CASE job[r] \in {"list", "stat"}
    <2>1. store[r] = Len(stores)
      BY <1>2, <1>3 DEF FallsBack
    <2>2. \A i \in MayAsk(r) : i < store[r] \/ i = store[r]
      BY <1>2, <1>3, <2>1 DEF MayAsk
    <2> QED BY <1>1, <2>2 DEF Attempted
  <1>4. CASE job[r] \notin {"list", "stat"}
    BY <1>1, <1>4 DEF Attempted, MayAsk
  <1> QED BY <1>3, <1>4

LEMMA TriedStep ==
  ASSUME TypeOK, Copies, Tried, [Next]_vars
  PROVE  Tried'
  <1>1. CASE Expire \/ UNCHANGED vars
    BY <1>1, TriedSame DEF Expire, vars, reading, Tried
  <1>2. ASSUME NEW r \in Readers, UNCHANGED <<stores, job, store, try, tries>>,
               \A q \in Readers \ {r} : at'[q] = at[q] /\ err'[q] = err[q],
               at[r] # "idle",
               at'[r] = "done" => err'[r] # "transient"
        PROVE  Tried'
    <2>1. TriedBy(r)'
      BY <1>2, AttemptedSame DEF Tried, TriedBy
    <2> QED BY <1>2, <2>1, TriedSame DEF Tried
  <1>3. ASSUME NEW r \in Readers, NEW j \in Jobs \cup Folders, Start(r, j), UNCHANGED stores PROVE Tried'
    <2>1. at'[r] \in {"answer", "check"} /\ Attempted(r)'
      BY <1>3, StartTries DEF Start, Enter, TypeOK
    <2>2. ASSUME NEW q \in Readers \ {r}
          PROVE  /\ at'[q] = at[q] /\ err'[q] = err[q] /\ job'[q] = job[q] /\ store'[q] = store[q]
                 /\ try'[q] = try[q] /\ tries'[q] = tries[q]
      BY <1>3 DEF Start, Enter, TypeOK
    <2> QED BY <1>3, <2>1, <2>2, TriedSame DEF Tried, TriedBy
  <1>4. ASSUME NEW r \in Readers, CheckToken(r) \/ Authenticate(r) \/ Header(r) PROVE Tried'
    <2>1. /\ UNCHANGED <<stores, job, store, try, tries>> /\ at[r] # "idle"
          /\ at'[r] # "done"
          /\ \A q \in Readers \ {r} : at'[q] = at[q] /\ err'[q] = err[q]
      BY <1>4 DEF CheckToken, Authenticate, Header, Fail, TypeOK
    <2> QED BY <1>2, <2>1
  <1>5. ASSUME NEW r \in Readers, Answer(r) PROVE Tried'
    <2>1. UNCHANGED <<stores, job, store, try, tries>> /\ at[r] # "idle"
      BY <1>5, AnswerIs
    <2>2. /\ \/ at'[r] \in {"failed", "answer", "check"}
             \/ at'[r] \in {"done", "body"} /\ err'[r] = "none"
          /\ \A q \in Readers \ {r} : at'[q] = at[q] /\ err'[q] = err[q]
      BY <1>5, AnswerIs DEF Fail, Enter, TypeOK
    <2> QED BY <1>2, <2>1, <2>2
  <1>6. ASSUME NEW r \in Readers, Body(r) PROVE Tried'
    <2>1. /\ UNCHANGED <<stores, job, store, try, tries>> /\ at[r] = "body" /\ err[r] = "none"
          /\ \A q \in Readers \ {r} : at'[q] = at[q] /\ err'[q] = err[q]
      BY <1>6 DEF Body, Fail, Copies, TypeOK
    <2>2. at'[r] = "failed" \/ err'[r] = "none"
      BY <1>6, <2>1 DEF Body, Fail, TypeOK
    <2> QED BY <1>2, <2>1, <2>2
  <1>7. ASSUME NEW r \in Readers, Recover(r) PROVE Tried'
    <2>1. /\ at[r] = "failed" /\ Attempted(r) /\ UNCHANGED <<stores, job, err>>
      BY <1>7 DEF Recover, Tried, TriedBy, Attempt
    <2>2. \A q \in Readers \ {r} : /\ at'[q] = at[q] /\ store'[q] = store[q]
                                   /\ try'[q] = try[q] /\ tries'[q] = tries[q]
      BY <1>7 DEF Recover, Attempt, Enter, TypeOK
    <2>3. TriedBy(r)'
      <3>1. CASE Retried(r) /\ Attempt(r, store[r], try[r] + 1)
        <4>1. store[r] \in DOMAIN stores /\ ~IsSQL(stores[store[r]])
          BY <3>1 DEF Retried, TypeOK
        <4>2. Attempted(r)'
          BY <2>1, <3>1, <4>1, AttemptTries
        <4>3. at'[r] # "done"
          BY <3>1 DEF Attempt, Enter, TypeOK
        <4> QED BY <4>2, <4>3 DEF TriedBy
      <3>2. CASE ~Retried(r) /\ FallsBack(r) /\ Attempt(r, store[r] + 1, 1)
        <4>1. Exhausted(r, store[r])
          BY <2>1, <3>2, OutOfTries DEF FallsBack
        <4>2. store[r] + 1 \in MayAsk(r) /\ store[r] + 1 \in DOMAIN stores
          BY <3>2, StoresAre DEF FallsBack, MayAsk, TypeOK
        <4>3. Attempted(r)'
          BY <2>1, <3>2, <4>1, <4>2, AttemptTries
        <4>4. at'[r] # "done"
          BY <3>2 DEF Attempt, Enter, TypeOK
        <4> QED BY <4>3, <4>4 DEF TriedBy
      <3>3. CASE ~Retried(r) /\ ~FallsBack(r) /\ UNCHANGED <<store, try, tries>>
        <4>1. Attempted(r)'
          BY <2>1, <3>3, AttemptedSame
        <4>2. ASSUME err[r] = "transient" PROVE \A i \in MayAsk(r) : Exhausted(r, i)
          BY <2>1, <3>3, <4>2, OutOfStores
        <4> QED BY <2>1, <3>3, <4>1, <4>2, AttemptedSame DEF TriedBy
      <3> QED BY <1>7, <3>1, <3>2, <3>3 DEF Recover
    <2> QED BY <2>1, <2>2, <2>3, TriedSame DEF Tried
  <1>8. ASSUME NEW r \in Readers, Return(r) PROVE Tried'
    <2>1. UNCHANGED <<stores, job, store, try, tries, err>> /\ at' = [at EXCEPT ![r] = "idle"]
      BY <1>8 DEF Return
    <2>2. at'[r] = "idle" /\ \A q \in Readers \ {r} : at'[q] = at[q]
      BY <2>1 DEF TypeOK
    <2> QED BY <2>1, <2>2, TriedSame DEF Tried, TriedBy
  <1>9. ASSUME NEW r \in Readers, Read(r) \/ FolderTitle(r) PROVE Tried'
    <2>1. UNCHANGED <<stores, reading>> => Tried'
      BY TriedSame DEF reading, Tried
    <2> QED BY <1>3, <1>9, <2>1 DEF Read, FolderTitle
  <1> QED BY <1>1, <1>4, <1>5, <1>6, <1>7, <1>8, <1>9 DEF Next, Step
-----------------------------------------------------------------------------
(* The names of folders                                                    *)

\* While nothing is learned and nothing named, only a reader that starts counts.
LEMMA NamedSame ==
  ASSUME Named, UNCHANGED <<titles, shown, job>>,
         \A q \in Readers : at'[q] # "idle" => at[q] # "idle"
  PROVE  Named'
  BY DEF Named, FolderName

LEMMA NamedStep ==
  ASSUME TypeOK, Named, [Next]_vars
  PROVE  Named'
  <1>1. CASE Expire \/ UNCHANGED vars
    BY <1>1, NamedSame DEF Expire, vars, reading
  <1>2. ASSUME NEW r \in Readers, NEW j, Start(r, j), UNCHANGED <<titles, shown>>,
               j \in Folders => r = Searcher /\ j \notin DOMAIN titles
        PROVE  Named'
    <2>1. job'[r] = j /\ \A q \in Readers \ {r} : at'[q] = at[q] /\ job'[q] = job[q]
      BY <1>2 DEF Start, Enter, TypeOK
    <2> QED BY <1>2, <2>1 DEF Named, FolderName
  <1>3. ASSUME NEW r \in Readers, Read(r) PROVE Named'
    <2>1. PICK j \in Jobs : Start(r, j)
      BY <1>3 DEF Read
    <2>2. j \notin Folders
      BY FilesAssumption DEF Jobs
    <2> QED BY <1>2, <1>3, <2>1, <2>2 DEF Read
  <1>4. ASSUME NEW r \in Readers, FolderTitle(r) PROVE Named'
    <2>1. r = Searcher /\ UNCHANGED titles
      BY <1>4 DEF FolderTitle
    <2>2. PICK f \in Folders :
             \/ /\ f \in DOMAIN titles
                /\ shown' = shown \cup {<<Cardinality(shown), f, FolderName(f)>>}
                /\ UNCHANGED reading
             \/ f \notin DOMAIN titles /\ Start(r, f) /\ UNCHANGED shown
      BY <1>4 DEF FolderTitle
    <2>3. CASE f \notin DOMAIN titles /\ Start(r, f) /\ UNCHANGED shown
      BY <1>2, <2>1, <2>3
    <2>4. CASE /\ f \in DOMAIN titles
               /\ shown' = shown \cup {<<Cardinality(shown), f, FolderName(f)>>}
               /\ UNCHANGED reading
      <3> DEFINE y == <<Cardinality(shown), f, FolderName(f)>>
      <3>1. y[2] = f /\ y[3] = FolderName(f)
        OBVIOUS
      <3> HIDE DEF y
      <3>2. \A x \in shown' : x \in shown \/ x = y
        BY <2>4 DEF y
      <3>3. \A x \in shown' : x[2] \in DOMAIN titles' /\ x[3] = FolderName(x[2])'
        BY <2>1, <2>4, <3>1, <3>2 DEF Named, FolderName
      <3> QED BY <2>1, <2>4, <3>3 DEF reading, Named
    <2> QED BY <2>2, <2>3, <2>4
  <1>5. ASSUME NEW r \in Readers,
               CheckToken(r) \/ Authenticate(r) \/ Header(r) \/ Answer(r) \/ Body(r) \/ Recover(r)
        PROVE  Named'
    <2>1. UNCHANGED <<titles, shown, job>>
      BY <1>5 DEF CheckToken, Authenticate, Header, Answer, Body, Recover, Fail
    <2>2. at[r] # "idle"
      BY <1>5 DEF CheckToken, Authenticate, Header, Answer, Body, Recover
    <2>3. \A q \in Readers \ {r} : at'[q] = at[q]
      BY <1>5 DEF CheckToken, Authenticate, Header, Answer, Body, Recover, Fail, Enter, Attempt, TypeOK
    <2> QED BY <2>1, <2>2, <2>3, NamedSame
  <1>6. ASSUME NEW r \in Readers, Return(r) PROVE Named'
    <2>1. /\ at[r] = "done" /\ at'[r] = "idle" /\ UNCHANGED job
          /\ \A q \in Readers \ {r} : at'[q] = at[q]
      BY <1>6 DEF Return, TypeOK
    <2>2. CASE UNCHANGED <<titles, shown>>
      BY <2>1, <2>2, NamedSame
    <2>3. ASSUME NEW f \in Folders, NEW t, job[r] = f, titles' = Learned(f, t),
                 shown' = shown \cup {<<Cardinality(shown), f, IF t = "" THEN "its id" ELSE t>>}
          PROVE  Named'
      <3>1. r = Searcher /\ f \notin DOMAIN titles
        BY <2>1, <2>3 DEF Named
      <3>2. /\ DOMAIN titles' = DOMAIN titles \cup {f} /\ titles'[f] = t
            /\ \A g \in DOMAIN titles : titles'[g] = titles[g]
        BY <2>3, <3>1 DEF Learned
      <3> DEFINE y == <<Cardinality(shown), f, IF t = "" THEN "its id" ELSE t>>
      <3>3. y[2] = f /\ y[3] = IF t = "" THEN "its id" ELSE t
        OBVIOUS
      <3> HIDE DEF y
      <3>4. \A x \in shown' : x \in shown \/ x = y
        BY <2>3 DEF y
      <3>5. \A x \in shown' : x[2] \in DOMAIN titles' /\ x[3] = FolderName(x[2])'
        BY <3>2, <3>3, <3>4 DEF Named, FolderName
      <3>6. \A q \in Readers : at'[q] # "idle" => job'[q] \notin Folders
        BY <2>1, <3>1 DEF Named
      <3> QED BY <3>5, <3>6 DEF Named
    <2> QED BY <1>6, <2>2, <2>3 DEF Return
  <1> QED BY <1>1, <1>3, <1>4, <1>5, <1>6 DEF Next, Step

-----------------------------------------------------------------------------
(* The theorems                                                            *)

LEMMA InvInit == Init => IInv
  <1> SUFFICES ASSUME Init PROVE IInv
    OBVIOUS
  <1>1. TypeOK
    BY TypeInit
  <1>2. Copies
    BY DEF Init, Copies, Moves
  <1>3. Tried /\ Named
    BY DEF Init, Tried, TriedBy, Named
  <1> QED BY <1>1, <1>2, <1>3 DEF IInv

LEMMA InvStep == IInv /\ [Next]_vars => IInv'
  BY TypeStep, CopiesStep, TriedStep, NamedStep DEF IInv

LEMMA InvHolds == Spec => []IInv
  BY InvInit, InvStep, PTL DEF Spec

\* Every variable keeps its type (filestore_facade.go, auth.go, files_path.go).
THEOREM TypeCorrect == Spec => []TypeOK
  <1>1. IInv => TypeOK
    BY DEF IInv
  <1> QED BY <1>1, InvHolds, PTL

\* Whatever is retried, redirected or broken off, the caller's writer holds the beginning
\* of one copy of the file, and all of it when Download succeeds (filestore_facade.go:163).
THEOREM OneCopy == Spec => []OneCopyInTheWriter
  <1>1. IInv => OneCopyInTheWriter
    BY DEF IInv, Copies, OneCopyInTheWriter
  <1> QED BY <1>1, InvHolds, PTL

\* A read gives up on a transient error only after all attempts at every store it may ask,
\* and asks no store after the one that gave a final answer (filestore_facade.go:230).
THEOREM GivesUpLast == Spec => []GivesUpOnlyEverywhere
  <1>1. IInv => GivesUpOnlyEverywhere
    <2> SUFFICES ASSUME IInv, NEW r \in Readers, at[r] = "done"
                 PROVE  /\ err[r] = "transient" => \A i \in MayAsk(r) : Exhausted(r, i)
                        /\ \A i \in MayAsk(r) : IF i < store[r] THEN Exhausted(r, i)
                                                ELSE i > store[r] => tries[r][i] = 0
      BY DEF GivesUpOnlyEverywhere
    <2> QED BY DEF IInv, Tried, TriedBy, Attempted
  <1> QED BY <1>1, InvHolds, PTL

\* One listing names a folder the same way in every path, also after a failed lookup
\* (files_path.go:45).
THEOREM OneName == Spec => []PathsAgree
  <1>1. IInv => PathsAgree
    BY DEF IInv, Named, PathsAgree
  <1> QED BY <1>1, InvHolds, PTL
=============================================================================
