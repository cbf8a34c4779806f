------------------------------- MODULE Files -------------------------------
(***************************************************************************)
(* The unified file client (filestore_facade.go) over the stores that      *)
(* answer it: an SQL store when one is registered, then REST, then WebDAV. *)
(* Several goroutines read through one Client and so share its token       *)
(* (auth.go).  A read checks the token, authenticates when it must, sends, *)
(* is answered, is retried within its store (retryStoreOp) and then, lists *)
(* and stats only, handed on to the next store (fallbackRead).  A download *)
(* streams into the caller's writer, from the object store when the portal *)
(* redirects it to its stale S3 consumer (storage_fallback.go).  A search  *)
(* names the folders of its hits through the cache of files_path.go.       *)
(*                                                                         *)
(* One request here stands for a request with the retries of its own below *)
(* it (getJSON, AuthenticateContext): PacedTransport has that loop.        *)
(***************************************************************************)
EXTENDS Integers, Sequences, FiniteSets

CONSTANTS Readers,    \* goroutines that read
          Searcher,   \* the one that runs `oo search`
          Folders,    \* the folders its hits are in
          Attempts,   \* OO_RETRY_ATTEMPTS
          Pieces,     \* reads it takes to copy a file
          MaxShown    \* bound: folders one search names

ASSUME FilesAssumption ==
  /\ Attempts \in Nat \ {0} /\ Pieces \in Nat \ {0} /\ MaxShown \in Nat
  /\ Searcher \in Readers
  /\ Folders \cap {"list", "stat", "download"} = {}

VARIABLES stores,   \* the registered stores in readOrder
          token,    \* the Client's cached token
          at,       \* where each reader is
          job,      \* what it reads
          store,    \* which of the stores it is at
          try,      \* the attempt it makes there
          tries,    \* the attempts it made at each store
          stage,    \* the request of the operation it is at
          sent,     \* the token the request carries
          err,      \* how its last attempt failed
          copied,   \* the pieces io.Copy has read from the answer
          written,  \* the pieces in the caller's writer
          titles,   \* Client.folderTitles
          shown     \* the names the search has given to folders

reading == <<at, job, store, try, tries, stage, sent, err, copied, written>>
vars == <<stores, token, reading, titles, shown>>

(* newFileClient has REST and WebDAV; RegisterStore may add the SQL store. *)
readOrders == {<<"rest", "dav">>, <<"mysql", "rest", "dav">>}

Jobs == {"list", "stat", "download"}
(* A folder stands for the job of finding its title. *)

Init == /\ stores \in readOrders
        /\ token \in {"none", "good"}
        /\ at = [r \in Readers |-> "idle"]
        /\ job = [r \in Readers |-> "list"]
        /\ store = [r \in Readers |-> 1]
        /\ try = [r \in Readers |-> 1]
        /\ tries = [r \in Readers |-> [i \in DOMAIN stores |-> 0]]
        /\ stage = [r \in Readers |-> "folder"]
        /\ sent = [r \in Readers |-> "none"]
        /\ err = [r \in Readers |-> "none"]
        /\ copied = [r \in Readers |-> 0]
        /\ written = [r \in Readers |-> <<>>]
        /\ titles = [f \in {} |-> "titled"]
        /\ shown = {}

----------------------------------------------------------------------------
(* The path of one read. *)

(* The SQL store asks its database: no token, no DoRetry. *)
IsSQL(s) == s = "mysql"

(* Folder names are asked of the portal's REST API, not of the facade. *)
FirstStore(j) == IF j \in Folders THEN CHOOSE i \in DOMAIN stores : stores[i] = "rest" ELSE 1

FirstStage(j, s) == IF IsSQL(s) THEN "query" ELSE IF j = "download" THEN "file" ELSE "folder"

(* Every request to the portal first asks authHeader for the token. *)
Enter(r, st) == /\ stage' = [stage EXCEPT ![r] = st]
                /\ at' = [at EXCEPT ![r] = IF st \in {"query", "object"} THEN "answer" ELSE "check"]

Attempt(r, i, n) == /\ store' = [store EXCEPT ![r] = i]
                    /\ try' = [try EXCEPT ![r] = n]
                    /\ tries' = [tries EXCEPT ![r][i] = @ + 1]
                    /\ copied' = [copied EXCEPT ![r] = 0]
                    /\ Enter(r, FirstStage(job'[r], stores[i]))

Start(r, j) == /\ at[r] = "idle"
               /\ job' = [job EXCEPT ![r] = j]
               /\ store' = [store EXCEPT ![r] = FirstStore(j)]
               /\ try' = [try EXCEPT ![r] = 1]
               /\ tries' = [tries EXCEPT ![r] = [i \in DOMAIN stores |-> IF i = FirstStore(j) THEN 1 ELSE 0]]
               /\ Enter(r, FirstStage(j, stores[FirstStore(j)]))
               /\ copied' = [copied EXCEPT ![r] = 0]
               /\ written' = [written EXCEPT ![r] = <<>>]
               /\ err' = [err EXCEPT ![r] = "none"]
               /\ UNCHANGED sent

Read(r) == /\ r # Searcher
           /\ \E j \in Jobs : Start(r, j)
           /\ UNCHANGED <<stores, token, titles, shown>>

FolderName(f) == IF titles[f] = "" THEN "its id" ELSE titles[f]

(* FolderPath names the next folder of a hit: from the cache, or by asking. *)
FolderTitle(r) ==
  /\ r = Searcher /\ at[r] = "idle" /\ Cardinality(shown) < MaxShown
  /\ \E f \in Folders :
       \/ /\ f \in DOMAIN titles
          /\ shown' = shown \cup {<<Cardinality(shown), f, FolderName(f)>>}
          /\ UNCHANGED reading
       \/ /\ f \notin DOMAIN titles
          /\ Start(r, f)
          /\ UNCHANGED shown
  /\ UNCHANGED <<stores, token, titles>>

CheckToken(r) == /\ at[r] = "check"
                 /\ at' = [at EXCEPT ![r] = IF token = "good" THEN "header" ELSE "auth"]
                 /\ UNCHANGED <<stores, token, job, store, try, tries, stage, sent, err, copied, written, titles, shown>>

Fail(r, e) == /\ at' = [at EXCEPT ![r] = "failed"]
              /\ err' = [err EXCEPT ![r] = e]
              /\ UNCHANGED <<job, store, try, tries, stage, sent, copied, written>>

(* Mutant: a login that fails clears the token of everybody. *)
ClearedToken(issued) == IF issued THEN "good" ELSE "none"
(* authenticateOnce stores the token only when the portal has issued one. *)
CachedToken(issued) == IF issued THEN "good" ELSE token

Authenticate(r) ==
  /\ at[r] = "auth"
  /\ \/ /\ token' = CachedToken(TRUE)
        /\ at' = [at EXCEPT ![r] = "header"]
        /\ UNCHANGED <<job, store, try, tries, stage, sent, err, copied, written>>
     \/ /\ token' = CachedToken(FALSE)
        /\ \E e \in {"transient", "permanent"} : Fail(r, e)
  /\ UNCHANGED <<stores, titles, shown>>

(* authHeader reads c.token.Value after the check: without a token it panics. *)
Header(r) == /\ at[r] = "header"
             /\ sent' = [sent EXCEPT ![r] = token]
             /\ at' = [at EXCEPT ![r] = IF token = "none" THEN "panic" ELSE "answer"]
             /\ UNCHANGED <<stores, token, job, store, try, tries, stage, err, copied, written, titles, shown>>

Expire == /\ token = "good" /\ token' = "expired"
          /\ UNCHANGED <<stores, reading, titles, shown>>

----------------------------------------------------------------------------
(* Answers. *)

(* What a request may be told; a 401 for an expired token is permanent,    *)
(* and so is every error of the database.                                  *)
Answers(r) ==
  CASE stage[r] = "query" -> {"ok", "permanent"}
    [] stage[r] = "object" -> {"ok", "transient", "permanent"}
    [] sent[r] = "expired" -> {"permanent"}
    [] stage[r] = "bytes" -> {"ok", "stale", "transient", "permanent"}
    [] OTHER -> {"ok", "transient", "permanent"}

(* stat asks for the folder first and takes any final error of that, or   *)
(* the listing of another folder, for "it is a file".                      *)
AsksOn(r, a) == job[r] = "stat" /\ stage[r] = "folder" /\ a \in {"ok", "permanent"}

Follows(r, a) ==
  IF a = "stale" THEN {"object"}
  ELSE IF AsksOn(r, a) THEN IF a = "ok" THEN {"done", "file"} ELSE {"file"}
  ELSE IF a # "ok" THEN {}
  ELSE IF job[r] # "download" THEN {"done"}
  ELSE CASE stage[r] = "query" -> {"object"}
         [] stage[r] = "file" -> {"bytes"}
         [] OTHER -> {"body"}

Answer(r) ==
  /\ at[r] = "answer"
  /\ \E a \in Answers(r) :
       \/ /\ Follows(r, a) = {} /\ Fail(r, a)
       \/ \E st \in Follows(r, a) :
            /\ IF st \in {"done", "body"}
                 THEN at' = [at EXCEPT ![r] = st] /\ UNCHANGED stage
                 ELSE Enter(r, st)
            /\ err' = [err EXCEPT ![r] = "none"]
            /\ UNCHANGED <<job, store, try, tries, sent, copied, written>>
  /\ UNCHANGED <<stores, token, titles, shown>>

(* Mutant: a broken connection is tried again, into the same writer. *)
BrokenIsTransient == "transient"
(* io.Copy: a connection that breaks is no HTTP status, so not Transient. *)
BrokenOff == "permanent"

Body(r) ==
  /\ at[r] = "body"
  /\ \/ /\ copied' = [copied EXCEPT ![r] = @ + 1]
        /\ written' = [written EXCEPT ![r] = Append(@, copied[r] + 1)]
        /\ at' = [at EXCEPT ![r] = IF copied[r] + 1 = Pieces THEN "done" ELSE @]
        /\ UNCHANGED <<job, store, try, tries, stage, sent, err>>
     \/ Fail(r, BrokenOff)
  /\ UNCHANGED <<stores, token, titles, shown>>

----------------------------------------------------------------------------
(* After a failure. *)

Retried(r) == /\ err[r] = "transient" /\ ~IsSQL(stores[store[r]]) /\ try[r] < Attempts

(* Mutant: every error moves on to the next store. *)
FallsBackAlways(r) == /\ job[r] \in {"list", "stat"} /\ store[r] < Len(stores)
(* fallbackRead moves on after a transient error; Download never does. *)
FallsBack(r) == /\ err[r] = "transient" /\ job[r] \in {"list", "stat"} /\ store[r] < Len(stores)

Recover(r) ==
  /\ at[r] = "failed"
  /\ \/ Retried(r) /\ UNCHANGED job /\ Attempt(r, store[r], try[r] + 1)
     \/ ~Retried(r) /\ FallsBack(r) /\ UNCHANGED job /\ Attempt(r, store[r] + 1, 1)
     \/ /\ ~Retried(r) /\ ~FallsBack(r)
        /\ at' = [at EXCEPT ![r] = "done"]
        /\ UNCHANGED <<job, store, try, tries, stage, copied>>
  /\ UNCHANGED <<stores, token, sent, err, written, titles, shown>>

(* Mutant: a lookup that failed is not remembered. *)
LearnedTitle(f, title) == [g \in DOMAIN titles \cup (IF title = "" THEN {} ELSE {f}) |-> IF g = f THEN title ELSE titles[g]]
(* FolderTitle keeps whatever it has learned, a failure as the empty title. *)
Learned(f, title) == [g \in DOMAIN titles \cup {f} |-> IF g = f THEN title ELSE titles[g]]

Return(r) ==
  /\ at[r] = "done"
  /\ at' = [at EXCEPT ![r] = "idle"]
  /\ \/ job[r] \in Jobs /\ UNCHANGED <<titles, shown>>
     \/ \E f \in Folders :
          /\ job[r] = f
          /\ titles' = Learned(f, IF err[r] = "none" THEN "titled" ELSE "")
          /\ shown' = shown \cup {<<Cardinality(shown), f, IF err[r] = "none" THEN "titled" ELSE "its id">>}
  /\ UNCHANGED <<stores, token, job, store, try, tries, stage, sent, err, copied, written>>

Step(r) == CheckToken(r) \/ Authenticate(r) \/ Header(r) \/ Answer(r) \/ Body(r) \/ Recover(r) \/ Return(r)

Next == Expire \/ \E r \in Readers : Read(r) \/ FolderTitle(r) \/ Step(r)

(* Once begun a read goes on: the portal, the database and the object      *)
(* store answer or the connection breaks, and the goroutine is scheduled.  *)
Spec == Init /\ [][Next]_vars /\ \A r \in Readers : WF_vars(Step(r))

----------------------------------------------------------------------------
TypeOK ==
  /\ stores \in readOrders /\ token \in {"none", "good", "expired"}
  /\ at \in [Readers -> {"idle", "check", "auth", "header", "answer", "body", "failed", "done", "panic"}]
  /\ job \in [Readers -> Jobs \cup Folders]
  /\ store \in [Readers -> DOMAIN stores] /\ try \in [Readers -> 1..Attempts]
  /\ tries \in [Readers -> [DOMAIN stores -> Nat]]
  /\ stage \in [Readers -> {"query", "object", "folder", "file", "bytes"}]
  /\ sent \in [Readers -> {"none", "good", "expired"}]
  /\ err \in [Readers -> {"none", "transient", "permanent"}]
  /\ copied \in [Readers -> Nat] /\ written \in [Readers -> Seq(Nat)]
  /\ DOMAIN titles \subseteq Folders

(* Whatever was retried, redirected or broken off, the caller's writer     *)
(* holds the beginning of one copy of the file, and all of it when         *)
(* Download says it succeeded (filestore_facade.go:163).                   *)
OneCopyInTheWriter ==
  \A r \in Readers :
    /\ written[r] = [i \in 1..Len(written[r]) |-> i]
    /\ at[r] = "done" /\ job[r] = "download" /\ err[r] = "none" => Len(written[r]) = Pieces

(* A read gives up on a transient error only when every store it may ask   *)
(* has had all of its attempts, and on a final one without asking anybody  *)
(* after (filestore_facade.go:230).                                        *)
Exhausted(r, i) == tries[r][i] = (IF IsSQL(stores[i]) THEN 1 ELSE Attempts)
MayAsk(r) == IF job[r] \in {"list", "stat"} THEN DOMAIN stores ELSE {FirstStore(job[r])}
GivesUpOnlyEverywhere ==
  \A r \in Readers : at[r] = "done" =>
    /\ err[r] = "transient" => \A i \in MayAsk(r) : Exhausted(r, i)
    /\ \A i \in MayAsk(r) : IF i < store[r] THEN Exhausted(r, i) ELSE i > store[r] => tries[r][i] = 0

(* One listing names a folder the same way in every path, also when one of *)
(* the lookups failed (files_path.go:45).                                  *)
PathsAgree == \A x, y \in shown : x[2] = y[2] => x[3] = y[3]

(* Every read returns: nobody panics for want of a token that another      *)
(* goroutine took away, and the retries of the stores come to an end       *)
(* (auth.go:169, retry.go:155).                                            *)
EveryReadReturns == \A r \in Readers : (at[r] # "idle") ~> (at[r] = "idle")
=============================================================================
