---------------------------- MODULE FolderUpsert ----------------------------
(***************************************************************************)
(* One logical document (one stem) in a Documents folder, and the library  *)
(* operations that write it: the replacing upload, the no-clobber upload   *)
(* and the duplicate clean-up (files_stem.go, files_dedupe.go, files.go).  *)
(*                                                                         *)
(* The folder is the server's.  A client reads it once, plans on what it   *)
(* read, and then sends one request at a time; the folder may change       *)
(* between any two of them, and a request that was applied may still be    *)
(* answered with a transient error, which the client's retry loops then    *)
(* send again.                                                             *)
(***************************************************************************)
EXTENDS Integers, FiniteSets, Sequences, SequencesExt

CONSTANTS
    Clients,      \* processes that work on the folder
    Mode,         \* Mode[c] \in {"replace", "noClobber", "dedupe"}
    LocalExt,     \* LocalExt[c]: extension of the file c uploads
    Initial,      \* folders to start from
    Attempts,     \* RetryPolicy.Attempts of one request
    Converts,     \* does the server convert legacy formats on upload?
    MaxFaults,    \* bound on answers other than a plain success
    MaxEdits      \* bound on edits by somebody in the web interface

ASSUME UpsertAssumption ==
    /\ Clients \cap {"before", "user"} = {}
    /\ Mode \in [Clients -> {"replace", "noClobber", "dedupe"}]
    /\ LocalExt \in [Clients -> {"legacy", "ooxml"}]
    /\ Attempts \in Nat \ {0}
    /\ Converts \in BOOLEAN
    /\ MaxFaults \in Nat
    /\ MaxEdits \in Nat

VARIABLES
    folder,    \* the files of the stem, as the server has them
    clock,     \* last modification time the server has given
    nextId,    \* next file id the server will give
    pc,        \* what each client does next
    keep,      \* id to update in place, 0 = none
    todo,      \* ids that the client still has to delete, in order
    try,       \* attempt of the current request, from 1
    path,      \* endpoint variant of the current request, from 1
    readable,  \* can the client open its local file?
    result,    \* what the operation returned
    faults,    \* faults so far
    edits,     \* edits so far
    lostPosts  \* history: uploads of c applied but not answered with success

planVars   == <<keep, todo>>
serverVars == <<folder, clock, nextId>>
vars == <<serverVars, pc, planVars, try, path, readable, result,
          faults, edits, lostPosts>>

-----------------------------------------------------------------------------
(* Files and how they match                                                *)

Exts    == {"legacy", "ooxml", "pdf"}
Writers == Clients \cup {"before", "user"}
File    == [id : Nat, ext : Exts, fmt : Exts, by : Writers, mtime : Nat]

\* Mutant of EquivalentExt: extensions are compared as they are.
SameExt(a, b) == a = b

\* .xls and .xlsx (.doc and .docx, ...) are one document: EquivalentUploadExt.
EquivalentExt(a, b) == a = b \/ {a, b} = {"legacy", "ooxml"}

\* Folders to start from hold old files, under ids and times already used.
FirstFree == 10

ASSUME InitialAssumption ==
    \A files \in Initial :
        /\ files \subseteq File
        /\ \A f \in files : /\ f.id \in 1 .. FirstFree - 1
                            /\ f.mtime < FirstFree
                            /\ f.fmt = f.ext
                            /\ f.by = "before"
        /\ \A f, g \in files : f.id = g.id \/ f.mtime = g.mtime => f = g

\* Mutant of Matches: the stem alone decides.
MatchesAnyExt(files, ext) == files

Matches(files, ext) == {f \in files : EquivalentExt(f.ext, ext)}

Newest(f, files) == \A g \in files : g.mtime <= f.mtime

\* The ids of a set of files, newest first: each at its rank by modification time.
NotOlder(f, files) == {g \in files : g.mtime >= f.mtime}
NewestFirst(files) ==
    [i \in 1 .. Cardinality(files) |->
        (CHOOSE f \in files : Cardinality(NotOlder(f, files)) = i).id]

\* Mutant of PlanReplace: the newest match is always updated in place.
PlanReplaceAnyExt(files, ext) ==
    LET found   == Matches(files, ext)
        keepers == {f \in found : Newest(f, found)}
    IN  IF keepers # {}
          THEN [keep |-> (CHOOSE f \in keepers : TRUE).id,
                todo |-> Tail(NewestFirst(found))]
          ELSE [keep |-> 0, todo |-> <<>>]

\* Mutant of PlanReplace: the keeper is among the files to delete.
PlanReplaceDeletesKeeper(files, ext) ==
    LET found   == Matches(files, ext)
        keepers == {f \in found : Newest(f, found) /\ f.ext = ext}
    IN  [keep |-> IF keepers # {} THEN (CHOOSE f \in keepers : TRUE).id ELSE 0,
         todo |-> NewestFirst(found)]

\* planUploadReplacement: the newest match is updated in place when it has the
\* very extension of the local file, otherwise every match is deleted.
PlanReplace(files, ext) ==
    LET found   == Matches(files, ext)
        keepers == {f \in found : Newest(f, found) /\ f.ext = ext}
    IN  IF keepers # {}
          THEN [keep |-> (CHOOSE f \in keepers : TRUE).id,
                todo |-> Tail(NewestFirst(found))]
          ELSE [keep |-> 0, todo |-> NewestFirst(found)]

\* Mutant of Duplicates: the keeper of a group is removed with the rest.
DuplicatesAll(files, ext) ==
    LET group == {f \in files : f.ext = ext}
    IN  IF Cardinality(group) < 2 THEN <<>> ELSE NewestFirst(group)

\* findWithinFolderDuplicates: per stem and exact extension, all but the
\* newest; the groups come in the order of their names.
Duplicates(files, ext) ==
    LET group == {f \in files : f.ext = ext}
    IN  IF group = {} THEN <<>> ELSE Tail(NewestFirst(group))

AllDuplicates(files) ==
    Duplicates(files, "legacy") \o Duplicates(files, "ooxml")
                                \o Duplicates(files, "pdf")

-----------------------------------------------------------------------------
(* The server                                                              *)

UploadPaths == 2    \* .../upload.json, .../upload
UpdatePaths == 4    \* PUT and POST, each with and without .json

\* The format in which the server stores an upload.
Stored(ext) == IF Converts /\ ext = "legacy" THEN "ooxml" ELSE ext

AddFile(c) ==
    /\ folder' = folder \cup
         {[id |-> nextId, ext |-> Stored(LocalExt[c]),
           fmt |-> Stored(LocalExt[c]), by |-> c, mtime |-> clock + 1]}
    /\ clock' = clock + 1
    /\ nextId' = nextId + 1

\* A new version keeps the stored name and does not convert the body.
NewVersion(c, f) ==
    /\ folder' = (folder \ {f}) \cup
         {[f EXCEPT !.fmt = LocalExt[c], !.by = c, !.mtime = clock + 1]}
    /\ clock' = clock + 1
    /\ UNCHANGED nextId

Unlink(id) ==
    /\ folder' = {f \in folder : f.id # id}
    /\ UNCHANGED <<clock, nextId>>

-----------------------------------------------------------------------------
(* Requests                                                                *)

\* "ok": applied and answered.  "lost": applied, answered 502/503/504.
\* "busy": not applied, transient.  "refused": not applied, permanent.
\* "broken": applied, but a permanent error comes back (500, connection cut).
\* "garbled": applied, and the body of the answer cannot be used.
Applied(reply)   == reply \in {"ok", "lost", "broken", "garbled"}
Retriable(reply) == reply \in {"lost", "busy"}

Reply(reply) ==
    \/ /\ reply = "ok"
       /\ UNCHANGED faults
    \/ /\ reply # "ok"
       /\ faults < MaxFaults
       /\ faults' = faults + 1

Enter(c, label) ==
    /\ pc' = [pc EXCEPT ![c] = label]
    /\ try' = [try EXCEPT ![c] = 1]
    /\ path' = [path EXCEPT ![c] = 1]

Finish(c, r) ==
    /\ Enter(c, "done")
    /\ result' = [result EXCEPT ![c] = r]

\* A request failed: retry it when the answer was transient and attempts are
\* left, else try the next of `paths` endpoints, else the operation failed.
CanRetry(c, reply) == Retriable(reply) /\ try[c] < Attempts
CanVary(c, reply, paths) == reply # "garbled" /\ path[c] < paths

RetryOrVary(c, reply) ==
    /\ IF CanRetry(c, reply)
         THEN try' = [try EXCEPT ![c] = @ + 1] /\ UNCHANGED path
         ELSE /\ try' = [try EXCEPT ![c] = 1]
              /\ path' = [path EXCEPT ![c] = @ + 1]
    /\ UNCHANGED pc

-----------------------------------------------------------------------------
(* The clients                                                             *)

Init ==
    /\ folder \in Initial
    /\ clock = FirstFree
    /\ nextId = FirstFree
    /\ pc = [c \in Clients |-> "list"]
    /\ keep = [c \in Clients |-> 0]
    /\ todo = [c \in Clients |-> <<>>]
    /\ try = [c \in Clients |-> 1]
    /\ path = [c \in Clients |-> 1]
    /\ readable \in [Clients -> BOOLEAN]
    /\ result = [c \in Clients |-> "none"]
    /\ faults = 0
    /\ edits = 0
    /\ lostPosts = [c \in Clients |-> 0]

\* FolderFiles fails after its own retries: the operation ends.
ListFails(c) ==
    /\ pc[c] \in {"list", "relist"}
    /\ Reply("refused")
    /\ Finish(c, "error")
    /\ UNCHANGED <<serverVars, planVars, readable, edits, lostPosts>>

\* UploadToFolderReplacing up to its first write.
ListToReplace(c) ==
    /\ pc[c] = "list"
    /\ Mode[c] = "replace"
    /\ LET plan == PlanReplace(folder, LocalExt[c])
       IN  /\ keep' = [keep EXCEPT ![c] = plan.keep]
           /\ todo' = [todo EXCEPT ![c] = plan.todo]
           /\ Enter(c, IF plan.keep # 0 THEN "update" ELSE "clear")
    /\ UNCHANGED <<serverVars, readable, result, faults, edits, lostPosts>>

\* AssertNoFileConflict.
ListToAssert(c) ==
    /\ pc[c] = "list"
    /\ Mode[c] = "noClobber"
    /\ IF Matches(folder, LocalExt[c]) = {}
         THEN Enter(c, "upload") /\ UNCHANGED result
         ELSE Finish(c, "exists")
    /\ UNCHANGED <<serverVars, planVars, readable, faults, edits, lostPosts>>

\* DedupeProject: scan, then ApplyDedupGroups.
ListToDedupe(c) ==
    /\ pc[c] = "list"
    /\ Mode[c] = "dedupe"
    /\ todo' = [todo EXCEPT ![c] = AllDuplicates(folder)]
    /\ Enter(c, "collapse")
    /\ UNCHANGED <<serverVars, keep, readable, result, faults, edits,
                   lostPosts>>

\* One attempt of UpdateFile.  A file that is gone is refused.
Update(c, reply) ==
    LET target == {f \in folder : f.id = keep[c]}
    IN  /\ pc[c] = "update"
        /\ readable[c]
        /\ target # {} \/ ~Applied(reply)
        /\ IF target = {} /\ reply = "refused"
             THEN UNCHANGED faults ELSE Reply(reply)
        /\ IF Applied(reply)
             THEN \E f \in target : NewVersion(c, f)
             ELSE UNCHANGED serverVars
        /\ IF reply = "ok" THEN Enter(c, "collapse")
           ELSE IF CanRetry(c, reply) \/ CanVary(c, reply, UpdatePaths)
                  THEN RetryOrVary(c, reply)
                  ELSE Enter(c, "relist")
        /\ UNCHANGED <<planVars, readable, result, edits, lostPosts>>

\* os.Open fails on every attempt: no request, but the update has failed.
UpdateUnreadable(c) ==
    /\ pc[c] = "update"
    /\ ~readable[c]
    /\ Enter(c, "relist")
    /\ UNCHANGED <<serverVars, planVars, readable, result, faults, edits,
                   lostPosts>>

\* DeleteFilesByStemExt after a failed update lists the folder again; the ids
\* come in the order of the listing, whatever that is.
Relist(c) ==
    /\ pc[c] = "relist"
    /\ \E order \in SetToSeqs({f.id : f \in Matches(folder, LocalExt[c])}) :
          todo' = [todo EXCEPT ![c] = order]
    /\ Enter(c, "clear")
    /\ UNCHANGED <<serverVars, keep, readable, result, faults, edits,
                   lostPosts>>

\* DeleteDavItems: one item at a time, and the first failure ends it.  A file
\* that is gone may be answered either way.
Delete(c, reply) ==
    /\ pc[c] \in {"clear", "collapse"}
    /\ todo[c] # <<>>
    /\ reply # "garbled"
    /\ LET id == Head(todo[c])
           gone == \A f \in folder : f.id # id
       IN  /\ IF gone /\ reply = "refused" THEN UNCHANGED faults ELSE Reply(reply)
           /\ IF Applied(reply) THEN Unlink(id) ELSE UNCHANGED serverVars
    /\ IF reply = "ok"
         THEN /\ todo' = [todo EXCEPT ![c] = Tail(@)]
              /\ Enter(c, pc[c])
              /\ UNCHANGED result
         ELSE /\ IF CanRetry(c, reply)
                   THEN RetryOrVary(c, reply) /\ UNCHANGED result
                   ELSE Finish(c, "error")
              /\ UNCHANGED todo
    /\ UNCHANGED <<keep, readable, edits, lostPosts>>

\* Mutant of Cleared: the folder is listed again after every clearing.
ClearedRelists(c) ==
    /\ pc[c] \in {"clear", "collapse"}
    /\ todo[c] = <<>>
    /\ IF pc[c] = "clear"
         THEN Enter(c, "relist") /\ UNCHANGED result
         ELSE Finish(c, "ok")
    /\ UNCHANGED <<serverVars, planVars, readable, faults, edits, lostPosts>>

\* Nothing is left to delete.
Cleared(c) ==
    /\ pc[c] \in {"clear", "collapse"}
    /\ todo[c] = <<>>
    /\ IF pc[c] = "clear"
         THEN Enter(c, "upload") /\ UNCHANGED result
         ELSE Finish(c, "ok")
    /\ UNCHANGED <<serverVars, planVars, readable, faults, edits, lostPosts>>

\* One attempt of UploadToFolder.
Upload(c, reply) ==
    /\ pc[c] = "upload"
    /\ readable[c]
    /\ Reply(reply)
    /\ IF Applied(reply) THEN AddFile(c) ELSE UNCHANGED serverVars
    /\ lostPosts' = IF Applied(reply) /\ reply # "ok"
                      THEN [lostPosts EXCEPT ![c] = @ + 1] ELSE lostPosts
    /\ IF reply = "ok" THEN Finish(c, "ok")
       ELSE IF CanRetry(c, reply) \/ CanVary(c, reply, UploadPaths)
              THEN RetryOrVary(c, reply) /\ UNCHANGED result
              ELSE Finish(c, "error")
    /\ UNCHANGED <<planVars, readable, edits>>

UploadUnreadable(c) ==
    /\ pc[c] = "upload"
    /\ ~readable[c]
    /\ Finish(c, "error")
    /\ UNCHANGED <<serverVars, planVars, readable, faults, edits, lostPosts>>

-----------------------------------------------------------------------------
(* Somebody saves one of the files in the web interface                    *)

Edit ==
    /\ edits < MaxEdits
    /\ edits' = edits + 1
    /\ \E f \in folder :
          folder' = (folder \ {f}) \cup
                      {[f EXCEPT !.by = "user", !.mtime = clock + 1]}
    /\ clock' = clock + 1
    /\ UNCHANGED <<nextId, pc, planVars, try, path, readable, result, faults,
                   lostPosts>>

Replies == {"ok", "lost", "busy", "refused", "broken", "garbled"}

Step(c) ==
    \/ ListFails(c)
    \/ ListToReplace(c)
    \/ ListToAssert(c)
    \/ ListToDedupe(c)
    \/ \E reply \in Replies : Update(c, reply)
    \/ \E reply \in Replies : Delete(c, reply)
    \/ \E reply \in Replies : Upload(c, reply)
    \/ UpdateUnreadable(c)
    \/ Relist(c)
    \/ Cleared(c)
    \/ UploadUnreadable(c)

AllDone == \A c \in Clients : pc[c] = "done"

Next ==
    \/ \E c \in Clients : Step(c)
    \/ Edit
    \/ AllDone /\ UNCHANGED vars

Spec == Init /\ [][Next]_vars

\* Each operation runs in one goroutine that nothing stops.
FairSpec == Spec /\ \A c \in Clients : WF_vars(Step(c))

-----------------------------------------------------------------------------
(* Properties                                                              *)

\* Every variable has its type; ids and times are those the server has given.
TypeOK ==
    /\ folder \subseteq File
    /\ \A f \in folder : f.id < nextId /\ f.mtime <= clock
    /\ \A f, g \in folder : f # g => f.id # g.id /\ f.mtime # g.mtime
    /\ pc \in [Clients -> {"list", "update", "relist", "clear", "upload",
                           "collapse", "done"}]
    /\ result \in [Clients -> {"none", "ok", "exists", "error"}]
    /\ \A c \in Clients :
          /\ todo[c] \in Seq(1 .. nextId - 1)
          /\ keep[c] \in 0 .. nextId - 1
          /\ try[c] \in 1 .. Attempts
          /\ path[c] \in 1 .. UpdatePaths
          /\ (pc[c] = "done") <=> (result[c] # "none")

\* The body of a stored file is in the format its name says: a file is updated
\* in place only with a body of its own extension (planUploadReplacement, #84).
BodiesMatchNames == \A f \in folder : f.fmt = f.ext

\* A document of another kind with the same stem (report.pdf beside
\* report.docx) survives every operation on the stem.
OtherKindsSurvive ==
    [][\A f \in folder : f.ext = "pdf" => \E g \in folder' : g.id = f.id]_vars

\* A replacing upload that reports success leaves its own body under the name,
\* with one more copy per upload whose answer was lost, and none of the bodies
\* that were there before.  (No other replacing upload; until somebody edits.)
OkLeavesMyBody ==
    \A c \in Clients :
        Mode[c] = "replace" /\ result[c] = "ok" /\ edits = 0 =>
            LET found == Matches(folder, LocalExt[c])
            IN  /\ \A f \in found : f.by # "before"
                /\ Cardinality({f \in found : f.by = c}) = 1 + lostPosts[c]

\* While a replacing upload works in place, and until it has collapsed the
\* duplicates, the folder is never without the document, whatever other
\* no-clobber uploads and web edits do.
InPlaceHasNoWindow ==
    \A c \in Clients :
        pc[c] \in {"update", "collapse"} /\ Mode[c] = "replace" =>
            Matches(folder, LocalExt[c]) # {}

\* Operations of several clients that all succeed leave the document in the
\* folder.  (No web edits: two in-place updates that listed the folder before
\* and after one would each delete the other's keeper.  A third writer can do
\* what an edit does, so the instance has two replacing uploads, and what is
\* proved for any number of clients is that of one.)
SuccessLeavesTheDocument ==
    AllDone /\ (\A c \in Clients : result[c] \in {"ok", "exists"}) =>
        \A c \in Clients :
            Mode[c] # "dedupe" => Matches(folder, LocalExt[c]) # {}

\* Every operation ends, whatever the server answers.
EveryOperationEnds == \A c \in Clients : <>(pc[c] = "done")

(* What a comment of the code says, and the run refutes                    *)

\* files_stem.go: "delete + fresh upload still leaves one file".
FallbackLeavesAFile ==
    \A c \in Clients :
        pc[c] = "done" /\ keep[c] # 0 => Matches(folder, LocalExt[c]) # {}
=============================================================================
