------------------------- MODULE FolderUpsertProofs -------------------------
(***************************************************************************)
(* For any number of clients, of any mix of operations, any retry policy   *)
(* and any answers of the server: the name of a stored file tells the      *)
(* format of its body, all variables keep their types, and uploads delete  *)
(* nothing of another kind.  The second half is about a replacing upload   *)
(* that is the only one.                                                   *)
(*                                                                         *)
(* The plan of a replacing upload is made on a listing and used later, when*)
(* the folder is another: the proofs therefore say of the ids in a plan    *)
(* that whatever file bears them, now or later, has the extension of the   *)
(* local file, or is no file of another kind.                              *)
(***************************************************************************)
EXTENDS FolderUpsert, FiniteSetTheorems, FunctionTheorems, SequenceTheorems,
        TLAPS

\* The ids in the folder were all given, each to one file.
IdsGiven ==
    /\ nextId \in Nat \ {0}
    /\ \A f \in folder : f.id \in Nat /\ f.id # 0 /\ f.id < nextId
    /\ \A f, g \in folder : f.id = g.id => f = g

\* The id to update in place is 0 or was given, and names a file of the
\* local file's own extension if it names one at all.
KeepIsOfMyKind ==
    /\ keep \in [Clients -> Nat]
    /\ \A c \in Clients : keep[c] < nextId
    /\ \A c \in Clients : \A f \in folder : f.id = keep[c] => f.ext = LocalExt[c]

\* A record keeps all its fields but the updated ones.
FolderIsFiles == folder \subseteq File

\* The server's clock is a number.
ClockRuns == clock \in Nat

KindInv == FolderIsFiles /\ IdsGiven /\ KeepIsOfMyKind /\ BodiesMatchNames

LEMMA FirstFreeNat == FirstFree \in Nat /\ FirstFree > 0
  BY DEF FirstFree

LEMMA InitKind == Init => KindInv
  BY InitialAssumption DEF Init, KindInv, IdsGiven, KeepIsOfMyKind,
     BodiesMatchNames, FolderIsFiles, FirstFree

\* Steps that leave the folder and the plans' ids alone, or only remove files.
LEMMA FewerFiles ==
  ASSUME KindInv, folder' \subseteq folder, UNCHANGED <<nextId, keep>>
  PROVE  KindInv'
  BY DEF KindInv, IdsGiven, KeepIsOfMyKind, BodiesMatchNames, FolderIsFiles

\* The plan of a replacing upload names a file of the local file's extension.
LEMMA PlanKind ==
  ASSUME NEW files, NEW ext
  PROVE  LET plan == PlanReplace(files, ext)
         IN  plan.keep = 0 \/ \E f \in files : f.id = plan.keep /\ f.ext = ext
  <1> DEFINE found   == Matches(files, ext)
             keepers == {f \in found : Newest(f, found) /\ f.ext = ext}
             keeper  == CHOOSE f \in keepers : TRUE
  <1>1. CASE keepers = {}
    BY <1>1 DEF PlanReplace
  <1>2. CASE keepers # {}
    <2>1. keeper \in keepers
      BY <1>2
    <2>2. keeper \in files /\ keeper.ext = ext
      BY <2>1 DEF Matches
    <2>3. PlanReplace(files, ext).keep = keeper.id
      BY <1>2 DEF PlanReplace
    <2> QED BY <2>2, <2>3
  <1> QED BY <1>1, <1>2

\* Making the plan.
LEMMA ListKind ==
  ASSUME KindInv, NEW c \in Clients, ListToReplace(c)
  PROVE  KindInv'
  <1> DEFINE k == PlanReplace(folder, LocalExt[c]).keep
  <1>1. UNCHANGED <<folder, nextId>> /\ keep' = [keep EXCEPT ![c] = k]
    BY DEF ListToReplace, serverVars
  <1>2. k = 0 \/ \E f \in folder : f.id = k /\ f.ext = LocalExt[c]
    BY PlanKind
  <1> HIDE DEF k
  <1>3. k \in Nat /\ k < nextId
    <2>1. nextId > 0
      BY <1>2 DEF KindInv, KeepIsOfMyKind, IdsGiven
    <2> QED BY <1>2, <2>1 DEF KindInv, IdsGiven
  <1>4. \A f \in folder : f.id = k => f.ext = LocalExt[c]
    BY <1>2 DEF KindInv, IdsGiven
  <1> QED
    BY <1>1, <1>3, <1>4 DEF KindInv, IdsGiven, KeepIsOfMyKind,
       BodiesMatchNames, FolderIsFiles

\* A file gets a new version: another body, modification time and author.
LEMMA RewriteKind ==
  ASSUME KindInv, NEW f \in folder, NEW g \in File,
         g.id = f.id, g.ext = f.ext, g.fmt = g.ext,
         folder' = (folder \ {f}) \cup {g},
         UNCHANGED <<nextId, keep>>
  PROVE  KindInv'
  BY DEF KindInv, IdsGiven, KeepIsOfMyKind, BodiesMatchNames, FolderIsFiles

\* A file is added under an id nobody has planned with.
LEMMA AddKind ==
  ASSUME KindInv, NEW g \in File, g.id = nextId, g.fmt = g.ext,
         folder' = folder \cup {g}, nextId' = nextId + 1, UNCHANGED keep
  PROVE  KindInv'
  <1>1. \A f \in folder' : f \in folder \/ f = g
    OBVIOUS
  <1>2. nextId \in Nat /\ nextId # 0
    BY DEF KindInv, IdsGiven, KeepIsOfMyKind
  <1>3. IdsGiven'
    BY <1>1, <1>2 DEF KindInv, IdsGiven
  <1>4. \A d \in Clients : keep[d] \in Nat /\ keep[d] < nextId /\ g.id # keep[d]
    BY <1>2 DEF KindInv, KeepIsOfMyKind
  <1>5. KeepIsOfMyKind'
    BY <1>1, <1>2, <1>4 DEF KindInv, KeepIsOfMyKind
  <1>6. BodiesMatchNames' /\ FolderIsFiles'
    BY <1>1 DEF KindInv, BodiesMatchNames, FolderIsFiles
  <1> QED BY <1>3, <1>5, <1>6 DEF KindInv

-----------------------------------------------------------------------------
(* The actions that write the folder                                       *)

LEMMA StoredExt == \A c \in Clients : Stored(LocalExt[c]) \in Exts
  BY UpsertAssumption DEF Stored, Exts

LEMMA UpdateKind ==
  ASSUME KindInv, ClockRuns, NEW c \in Clients, NEW reply, Update(c, reply)
  PROVE  KindInv'
  <1>1. UNCHANGED keep
    BY DEF Update, planVars
  <1>2. CASE Applied(reply)
    <2>1. PICK f \in folder : f.id = keep[c] /\ NewVersion(c, f)
      BY <1>2 DEF Update
    <2> DEFINE g == [f EXCEPT !.fmt = LocalExt[c], !.by = c, !.mtime = clock + 1]
    <2>2. f \in File /\ f.ext = LocalExt[c]
      BY <2>1 DEF KindInv, KeepIsOfMyKind, FolderIsFiles
    <2>3. g \in File /\ g.id = f.id /\ g.ext = f.ext /\ g.fmt = g.ext
      <3>1. LocalExt[c] \in Exts /\ c \in Writers /\ clock + 1 \in Nat
        BY UpsertAssumption DEF Exts, Writers, ClockRuns
      <3> QED BY <2>2, <3>1 DEF File
    <2>4. folder' = (folder \ {f}) \cup {g} /\ UNCHANGED nextId
      BY <2>1 DEF NewVersion
    <2> HIDE DEF g
    <2> QED BY <1>1, <2>3, <2>4, RewriteKind
  <1>3. CASE ~Applied(reply)
    BY <1>1, <1>3, FewerFiles DEF Update, serverVars
  <1> QED BY <1>2, <1>3

LEMMA UploadKind ==
  ASSUME KindInv, ClockRuns, NEW c \in Clients, NEW reply, Upload(c, reply)
  PROVE  KindInv'
  <1>1. UNCHANGED keep
    BY DEF Upload, planVars
  <1>2. CASE Applied(reply)
    <2> DEFINE g == [id |-> nextId, ext |-> Stored(LocalExt[c]),
                     fmt |-> Stored(LocalExt[c]), by |-> c, mtime |-> clock + 1]
    <2>1. g \in File /\ g.id = nextId /\ g.fmt = g.ext
      BY StoredExt DEF File, Writers, KindInv, IdsGiven, ClockRuns
    <2>2. folder' = folder \cup {g} /\ nextId' = nextId + 1
      BY <1>2 DEF Upload, AddFile
    <2> HIDE DEF g
    <2> QED BY <1>1, <2>1, <2>2, AddKind
  <1>3. CASE ~Applied(reply)
    BY <1>1, <1>3, FewerFiles DEF Upload, serverVars
  <1> QED BY <1>2, <1>3

LEMMA DeleteKind ==
  ASSUME KindInv, NEW c \in Clients, NEW reply, Delete(c, reply)
  PROVE  KindInv'
  <1>1. UNCHANGED <<nextId, keep>>
    BY DEF Delete, Unlink, serverVars
  <1>2. folder' \subseteq folder
    BY DEF Delete, Unlink, serverVars
  <1> QED BY <1>1, <1>2, FewerFiles

LEMMA EditKind ==
  ASSUME KindInv, ClockRuns, Edit
  PROVE  KindInv'
  <1>1. UNCHANGED <<nextId, keep>>
    BY DEF Edit, planVars
  <1>2. PICK f \in folder :
          folder' = (folder \ {f}) \cup
                      {[f EXCEPT !.by = "user", !.mtime = clock + 1]}
    BY DEF Edit
  <1> DEFINE g == [f EXCEPT !.by = "user", !.mtime = clock + 1]
  <1>3. f \in File /\ f.fmt = f.ext
    BY DEF KindInv, FolderIsFiles, BodiesMatchNames
  <1>4. g \in File /\ g.id = f.id /\ g.ext = f.ext /\ g.fmt = g.ext
    <2>1. "user" \in Writers /\ clock + 1 \in Nat
      BY DEF Writers, ClockRuns
    <2> QED BY <1>3, <2>1 DEF File
  <1>5. folder' = (folder \ {f}) \cup {g}
    BY <1>2
  <1> HIDE DEF g
  <1> QED BY <1>1, <1>4, <1>5, RewriteKind

\* The server's clock stays a number.
LEMMA ClockStep ==
  ASSUME ClockRuns, [Next]_vars
  PROVE  ClockRuns'
  <1> USE DEF ClockRuns
  <1>1. ASSUME NEW c \in Clients, Step(c) PROVE clock' \in {clock, clock + 1}
    <2>1. ASSUME NEW reply, Update(c, reply) PROVE clock' \in {clock, clock + 1}
      BY <2>1 DEF Update, NewVersion, serverVars
    <2>2. ASSUME NEW reply, Delete(c, reply) PROVE clock' \in {clock, clock + 1}
      BY <2>2 DEF Delete, Unlink, serverVars
    <2>3. ASSUME NEW reply, Upload(c, reply) PROVE clock' \in {clock, clock + 1}
      BY <2>3 DEF Upload, AddFile, serverVars
    <2>4. CASE ListFails(c) \/ ListToReplace(c) \/ ListToAssert(c)
               \/ ListToDedupe(c) \/ UpdateUnreadable(c) \/ Relist(c)
               \/ Cleared(c) \/ UploadUnreadable(c)
      <3>1. UNCHANGED serverVars
        BY <2>4, Zenon DEF ListFails, ListToReplace, ListToAssert, ListToDedupe,
           UpdateUnreadable, Relist, Cleared, UploadUnreadable
      <3> QED BY <3>1 DEF serverVars
    <2> QED BY <1>1, <2>1, <2>2, <2>3, <2>4 DEF Step
  <1>2. CASE Edit
    BY <1>2 DEF Edit
  <1>3. CASE UNCHANGED vars
    BY <1>3 DEF vars, serverVars
  <1> QED BY <1>1, <1>2, <1>3 DEF Next

LEMMA KindStep ==
  ASSUME KindInv, ClockRuns, [Next]_vars
  PROVE  KindInv'
  <1>1. ASSUME NEW c \in Clients, Step(c) PROVE KindInv'
    <2>1. CASE ListToReplace(c)
      BY <2>1, ListKind
    <2>2. ASSUME NEW reply \in Replies, Update(c, reply) PROVE KindInv'
      BY <2>2, UpdateKind
    <2>3. ASSUME NEW reply \in Replies, Delete(c, reply) PROVE KindInv'
      BY <2>3, DeleteKind
    <2>4. ASSUME NEW reply \in Replies, Upload(c, reply) PROVE KindInv'
      BY <2>4, UploadKind
    <2>5. CASE ListFails(c) \/ ListToAssert(c) \/ ListToDedupe(c)
               \/ UpdateUnreadable(c) \/ Cleared(c) \/ UploadUnreadable(c)
      <3>1. UNCHANGED <<folder, nextId, keep>>
        BY <2>5 DEF ListFails, ListToAssert, ListToDedupe, UpdateUnreadable,
           Cleared, UploadUnreadable, serverVars, planVars
      <3> QED BY <3>1, FewerFiles
    <2>6. CASE Relist(c)
      <3>1. UNCHANGED serverVars /\ UNCHANGED keep
        BY <2>6, Zenon DEF Relist
      <3> QED BY <3>1, FewerFiles DEF serverVars
    <2> QED BY <1>1, <2>1, <2>2, <2>3, <2>4, <2>5, <2>6 DEF Step
  <1>2. CASE Edit
    BY <1>2, EditKind
  <1>3. CASE UNCHANGED vars
    BY <1>3, FewerFiles DEF vars, serverVars, planVars
  <1> QED BY <1>1, <1>2, <1>3 DEF Next

\* files_stem.go, planUploadReplacement: a file is overwritten in place only by
\* a body of its own extension, so no stored name ever lies about its body,
\* whatever other clients did between the listing and the update.
THEOREM NamesTellTheFormat == Spec => []BodiesMatchNames
  <1>1. Init => KindInv /\ ClockRuns
    BY InitKind, FirstFreeNat DEF Init, ClockRuns
  <1>2. KindInv /\ ClockRuns /\ [Next]_vars => KindInv' /\ ClockRuns'
    BY KindStep, ClockStep
  <1>3. KindInv => BodiesMatchNames
    BY DEF KindInv
  <1> QED BY <1>1, <1>2, <1>3, PTL DEF Spec

-----------------------------------------------------------------------------
(* Listings and their order                                                *)

\* A set of files as a listing returns it: finite, no two of one id or time.
Listing(files) ==
    /\ files \subseteq File
    /\ IsFiniteSet(files)
    /\ \A f, g \in files : f # g => f.id # g.id /\ f.mtime # g.mtime

Rank(f, files) == Cardinality(NotOlder(f, files))

LEMMA NotOlderProperties ==
  ASSUME NEW files, Listing(files), NEW f \in files
  PROVE  /\ IsFiniteSet(NotOlder(f, files))
         /\ Rank(f, files) \in 1 .. Cardinality(files)
         /\ f \in NotOlder(f, files)
  <1>1. f.mtime \in Nat
    BY DEF Listing, File
  <1>2. NotOlder(f, files) \in SUBSET files /\ f \in NotOlder(f, files)
    BY <1>1 DEF NotOlder
  <1>3. /\ IsFiniteSet(NotOlder(f, files))
        /\ Cardinality(NotOlder(f, files)) <= Cardinality(files)
    BY <1>2, FS_Subset DEF Listing
  <1>4. /\ Cardinality(files) \in Nat
        /\ Cardinality(NotOlder(f, files)) \in Nat
        /\ Cardinality(NotOlder(f, files)) # 0
    BY <1>2, <1>3, FS_CardinalityType, FS_EmptySet DEF Listing
  <1> QED BY <1>2, <1>3, <1>4 DEF Rank

\* A newer file has a smaller rank.
LEMMA RankGrowsWithAge ==
  ASSUME NEW files, Listing(files), NEW f \in files, NEW g \in files,
         f.mtime < g.mtime
  PROVE  Rank(g, files) < Rank(f, files)
  <1>1. f.mtime \in Nat /\ g.mtime \in Nat /\ \A h \in files : h.mtime \in Nat
    BY DEF Listing, File
  <1>2. NotOlder(g, files) \in SUBSET NotOlder(f, files)
    BY <1>1 DEF NotOlder
  <1>3. f \in NotOlder(f, files) /\ f \notin NotOlder(g, files)
    BY <1>1 DEF NotOlder
  <1>4. IsFiniteSet(NotOlder(f, files)) /\ IsFiniteSet(NotOlder(g, files))
    BY NotOlderProperties
  <1>5. /\ Cardinality(NotOlder(g, files)) <= Cardinality(NotOlder(f, files))
        /\ Cardinality(NotOlder(f, files)) = Cardinality(NotOlder(g, files))
             => NotOlder(f, files) = NotOlder(g, files)
    BY <1>2, <1>4, FS_Subset
  <1>6. /\ Cardinality(NotOlder(f, files)) \in Nat
        /\ Cardinality(NotOlder(g, files)) \in Nat
    BY <1>4, FS_CardinalityType
  <1> QED BY <1>3, <1>5, <1>6 DEF Rank

\* Every place of the order is taken by exactly one file.
LEMMA RankIsBijective ==
  ASSUME NEW files, Listing(files)
  PROVE  /\ \A f, g \in files : Rank(f, files) = Rank(g, files) => f = g
         /\ \A i \in 1 .. Cardinality(files) : \E f \in files : Rank(f, files) = i
  <1> DEFINE N == Cardinality(files)
             place == [f \in files |-> Rank(f, files)]
  <1>1. \A f, g \in files : Rank(f, files) = Rank(g, files) => f = g
    <2> SUFFICES ASSUME NEW f \in files, NEW g \in files, f # g
                 PROVE  Rank(f, files) # Rank(g, files)
      OBVIOUS
    <2>1. f.mtime \in Nat /\ g.mtime \in Nat /\ f.mtime # g.mtime
      BY DEF Listing, File
    <2>2. Rank(f, files) \in Int /\ Rank(g, files) \in Int
      BY NotOlderProperties
    <2>3. f.mtime < g.mtime \/ g.mtime < f.mtime
      BY <2>1
    <2> QED BY <2>2, <2>3, RankGrowsWithAge
  <1>2. place \in Injection(files, 1 .. N)
    <2>1. place \in [files -> 1 .. N]
      BY NotOlderProperties
    <2>2. \A f, g \in files : place[f] = place[g] => f = g
      BY <1>1
    <2> HIDE DEF place, N
    <2> QED BY <2>1, <2>2, Fun_IsInj
  <1>3. N \in Nat
    BY FS_CardinalityType DEF Listing
  <1>4. IsFiniteSet(1 .. N) /\ Cardinality(1 .. N) = N
    BY <1>3, FS_Interval
  <1>5. place \in Surjection(files, 1 .. N)
    <2> HIDE DEF place
    <2> QED BY <1>2, <1>4, FS_Injection
  <1>6. \A i \in 1 .. N : \E f \in files : place[f] = i
    <2> HIDE DEF place
    <2> QED BY <1>5, Fun_SurjectionProperties
  <1> QED BY <1>1, <1>6

\* What NewestFirst returns: a sequence of ids, each file's exactly once, the
\* newest first.
LEMMA NewestFirstProperties ==
  ASSUME NEW files, Listing(files)
  PROVE  LET s == NewestFirst(files)
             N == Cardinality(files)
             ids == {f.id : f \in files}
         IN  /\ N \in Nat
             /\ s \in [1 .. N -> ids]
             /\ s \in Seq(ids)
             /\ Len(s) = N
             /\ \A f \in files : \E i \in 1 .. N : s[i] = f.id
             /\ \A i, j \in 1 .. N : s[i] = s[j] => i = j
             /\ \A f \in files : Newest(f, files) => N > 0 /\ s[1] = f.id
  <1> DEFINE s == NewestFirst(files)
             N == Cardinality(files)
             ids == {f.id : f \in files}
             at(i) == CHOOSE f \in files : Rank(f, files) = i
  <1>1. N \in Nat
    BY FS_CardinalityType DEF Listing
  <1>2. s = [i \in 1 .. N |-> at(i).id]
    BY DEF NewestFirst, Rank
  <1>3. \A i \in 1 .. N : at(i) \in files /\ Rank(at(i), files) = i
    BY RankIsBijective
  <1>4. \A f \in files : Rank(f, files) \in 1 .. N /\ at(Rank(f, files)) = f
    BY <1>3, RankIsBijective, NotOlderProperties
  <1> HIDE DEF at, N
  <1>5. s \in [1 .. N -> ids]
    BY <1>2, <1>3
  <1>6. s \in Seq(ids) /\ Len(s) = N
    BY <1>1, <1>5
  <1>7. \A f \in files : \E i \in 1 .. N : s[i] = f.id
    BY <1>2, <1>4
  <1>8. \A i, j \in 1 .. N : s[i] = s[j] => i = j
    BY <1>2, <1>3 DEF Listing
  <1>9. ASSUME NEW f \in files, Newest(f, files)
        PROVE  N > 0 /\ s[1] = f.id
    <2>1. \A g \in files : g.mtime >= f.mtime => g = f
      BY <1>9 DEF Listing, Newest, File
    <2>2. NotOlder(f, files) = {f}
      BY <2>1, NotOlderProperties DEF NotOlder
    <2>3. Rank(f, files) = 1
      BY <2>2, FS_Singleton DEF Rank
    <2> QED BY <1>1, <1>2, <1>4, <2>3
  <1> QED BY <1>1, <1>5, <1>6, <1>7, <1>8, <1>9 DEF N
-----------------------------------------------------------------------------
(* Sequences of ids                                                        *)

\* The first id and the rest make the sequence.
LEMMA HeadAndTail ==
  ASSUME NEW S, NEW s \in Seq(S), s # <<>>
  PROVE  /\ Tail(s) \in Seq(S)
         /\ Head(s) \in S
         /\ ToSet(s) = {Head(s)} \cup ToSet(Tail(s))
         /\ (\A i, j \in DOMAIN s : s[i] = s[j] => i = j)
              => Head(s) \notin ToSet(Tail(s))
  <1>1. /\ Head(s) \in S /\ Tail(s) \in Seq(S)
        /\ Len(Tail(s)) = Len(s) - 1
        /\ \A i \in 1 .. Len(Tail(s)) : Tail(s)[i] = s[i + 1]
    BY HeadTailProperties
  <1>2. Len(s) \in Nat /\ Len(s) > 0 /\ DOMAIN s = 1 .. Len(s)
    BY EmptySeq, LenProperties
  <1>3. DOMAIN Tail(s) = 1 .. Len(s) - 1
    BY <1>1, LenProperties
  <1>4. Head(s) = s[1]
    OBVIOUS
  <1> DEFINE t == Tail(s)
             n == Len(s)
  <1>5. \A i \in 1 .. n - 1 : t[i] = s[i + 1]
    BY <1>1
  <1> HIDE DEF t, n
  <1>6. ToSet(s) \subseteq {s[1]} \cup ToSet(t)
    <2> SUFFICES ASSUME NEW i \in 1 .. n, i # 1 PROVE s[i] \in ToSet(t)
      BY <1>2 DEF ToSet, n
    <2>1. i - 1 \in 1 .. n - 1 /\ t[i - 1] = s[i]
      BY <1>2, <1>5 DEF n
    <2> QED BY <2>1, <1>3 DEF ToSet, t, n
  <1>7. \A i \in 1 .. n - 1 : i + 1 \in 1 .. n
    BY <1>2 DEF n
  <1>8. ToSet(t) \subseteq ToSet(s)
    BY <1>2, <1>3, <1>5, <1>7 DEF ToSet, t, n
  <1>9. s[1] \in ToSet(s)
    BY <1>2 DEF ToSet
  <1>10. ASSUME \A i, j \in DOMAIN s : s[i] = s[j] => i = j
         PROVE  s[1] \notin ToSet(t)
    <2>1. \A i \in 1 .. n - 1 : s[i + 1] # s[1]
      BY <1>2, <1>7, <1>10 DEF n
    <2> QED BY <2>1, <1>3, <1>5 DEF ToSet, t, n
  <1> QED BY <1>1, <1>4, <1>6, <1>8, <1>9, <1>10 DEF t

\* What a client plans to delete comes from its listing.
LEMMA SeqElements ==
  ASSUME NEW S, NEW s \in Seq(S)
  PROVE  ToSet(s) \subseteq S
  BY LenProperties DEF ToSet

-----------------------------------------------------------------------------
(* The plans                                                               *)

LEMMA MatchesListing ==
  ASSUME NEW files, Listing(files), NEW found \in SUBSET files
  PROVE  Listing(found)
  BY FS_Subset DEF Listing

\* planUploadReplacement: the keeper is a match, the deletions are the other
\* matches, and without a keeper every match is deleted.
LEMMA PlanReplaceProperties ==
  ASSUME NEW files, Listing(files), NEW ext, \A f \in files : f.id # 0
  PROVE  LET plan  == PlanReplace(files, ext)
             found == Matches(files, ext)
         IN  /\ plan.todo \in Seq({f.id : f \in found})
             /\ plan.keep = 0 => \A f \in found : f.id \in ToSet(plan.todo)
             /\ plan.keep # 0 =>
                  /\ \E f \in found : f.id = plan.keep /\ f.ext = ext
                  /\ plan.keep \notin ToSet(plan.todo)
                  /\ \A f \in found :
                        f.id = plan.keep \/ f.id \in ToSet(plan.todo)
  <1> DEFINE found   == Matches(files, ext)
             keepers == {f \in found : Newest(f, found) /\ f.ext = ext}
             keeper  == CHOOSE f \in keepers : TRUE
             plan    == PlanReplace(files, ext)
             ids     == {f.id : f \in found}
             s       == NewestFirst(found)
             N       == Cardinality(found)
  <1>1. found \in SUBSET files /\ Listing(found)
    <2>1. found \in SUBSET files
      BY DEF Matches
    <2> QED BY <2>1, MatchesListing
  <1>2. /\ N \in Nat /\ s \in [1 .. N -> ids] /\ s \in Seq(ids) /\ Len(s) = N
        /\ \A f \in found : \E i \in 1 .. N : s[i] = f.id
        /\ \A i, j \in 1 .. N : s[i] = s[j] => i = j
        /\ \A f \in found : Newest(f, found) => N > 0 /\ s[1] = f.id
    <2> HIDE DEF found
    <2> QED BY <1>1, NewestFirstProperties
  <1>3. \A f \in found : f.id \in ToSet(s)
    <2> HIDE DEF s, found, N
    <2> QED BY <1>2 DEF ToSet
  <1>4. CASE keepers = {}
    <2>1. plan = [keep |-> 0, todo |-> s]
      BY <1>4 DEF PlanReplace
    <2> HIDE DEF plan, s, ids, found
    <2> QED BY <2>1, <1>2, <1>3 DEF plan, s, ids, found
  <1>5. CASE keepers # {}
    <2>1. plan = [keep |-> keeper.id, todo |-> Tail(s)]
      BY <1>5 DEF PlanReplace
    <2>2. keeper \in found /\ Newest(keeper, found) /\ keeper.ext = ext
      <3>1. keeper \in keepers
        BY <1>5
      <3> QED BY <3>1
    <2>3. keeper.id # 0
      BY <1>1, <2>2
    <2>4. N > 0 /\ s[1] = keeper.id
      BY <1>2, <2>2
    <2> HIDE DEF s, ids, found, keeper, keepers, N
    <2>5. s # <<>> /\ Head(s) = keeper.id
      BY <1>2, <2>4
    <2>6. /\ Tail(s) \in Seq(ids)
          /\ ToSet(s) = {keeper.id} \cup ToSet(Tail(s))
          /\ keeper.id \notin ToSet(Tail(s))
      BY <1>2, <2>5, HeadAndTail
    <2>7. plan.keep = keeper.id /\ plan.todo = Tail(s)
      BY <2>1
    <2> HIDE DEF plan
    <2>8. /\ plan.todo \in Seq(ids)
          /\ plan.keep # 0
          /\ \E f \in found : f.id = plan.keep /\ f.ext = ext
          /\ plan.keep \notin ToSet(plan.todo)
          /\ \A f \in found : f.id = plan.keep \/ f.id \in ToSet(plan.todo)
      BY <1>3, <2>2, <2>3, <2>6, <2>7
    <2> QED BY <2>8 DEF plan, ids, found
  <1> QED BY <1>4, <1>5

\* findWithinFolderDuplicates: only files of the listing are removed.
LEMMA DuplicatesProperties ==
  ASSUME NEW files, Listing(files)
  PROVE  AllDuplicates(files) \in Seq({f.id : f \in files})
  <1> DEFINE ids == {f.id : f \in files}
  <1>1. ASSUME NEW ext PROVE Duplicates(files, ext) \in Seq(ids)
    <2> DEFINE group == {f \in files : f.ext = ext}
               s     == NewestFirst(group)
    <2>1. CASE group = {}
      BY <2>1 DEF Duplicates
    <2>2. CASE group # {}
      <3>1. Listing(group)
        BY MatchesListing
      <3>2. /\ s \in Seq({f.id : f \in group})
            /\ Len(s) = Cardinality(group)
        <4> HIDE DEF group
        <4> QED BY <3>1, NewestFirstProperties
      <3>3. Cardinality(group) # 0
        BY <2>2, <3>1, FS_EmptySet DEF Listing
      <3>4. s # <<>> /\ s \in Seq(ids)
        <4>1. {f.id : f \in group} \subseteq ids
          OBVIOUS
        <4> HIDE DEF ids, group, s
        <4> QED BY <3>2, <3>3, <4>1, SeqMonotonic
      <3>5. Duplicates(files, ext) = Tail(s)
        BY <2>2 DEF Duplicates
      <3> HIDE DEF s, ids
      <3> QED BY <3>4, <3>5, HeadAndTail
    <2> QED BY <2>1, <2>2
  <1> HIDE DEF ids
  <1> QED BY <1>1, ConcatProperties DEF AllDuplicates, ids

-----------------------------------------------------------------------------
(* Types                                                                   *)

\* No two files were written at one time, and none later than the clock says.
TimesGiven ==
    /\ ClockRuns
    /\ \A f \in folder : f.mtime <= clock
    /\ \A f, g \in folder : f.mtime = g.mtime => f = g

Labels  == {"list", "update", "relist", "clear", "upload", "collapse"}
Results == {"ok", "exists", "error"}

\* Where each client is in its operation.
Control ==
    /\ pc \in [Clients -> Labels \cup {"done"}]
    /\ result \in [Clients -> Results \cup {"none"}]
    /\ try \in [Clients -> 1 .. Attempts]
    /\ path \in [Clients -> 1 .. UpdatePaths]
    /\ \A c \in Clients : (pc[c] = "done") <=> (result[c] # "none")

\* Only ids that were given are planned with.
TodoGiven == todo \in [Clients -> Seq(1 .. nextId - 1)]

TypeInv == KindInv /\ TimesGiven /\ Control /\ TodoGiven

LEMMA FolderIsListing == KindInv /\ TimesGiven => Listing(folder)
  <1> SUFFICES ASSUME KindInv, TimesGiven PROVE Listing(folder)
    OBVIOUS
  <1> DEFINE idOf == [f \in folder |-> f.id]
  <1>1. nextId - 1 \in Int /\ nextId \in Nat
    BY DEF KindInv, IdsGiven
  <1>2. idOf \in [folder -> 1 .. nextId - 1]
    BY <1>1 DEF KindInv, IdsGiven
  <1>3. \A f, g \in folder : idOf[f] = idOf[g] => f = g
    BY DEF KindInv, IdsGiven
  <1>4. IsFiniteSet(1 .. nextId - 1)
    BY <1>1, FS_Interval
  <1>5. IsFiniteSet(folder)
    <2> HIDE DEF idOf
    <2>1. idOf \in Injection(folder, 1 .. nextId - 1)
      BY <1>2, <1>3, Fun_IsInj
    <2> QED BY <1>4, <2>1, FS_Injection
  <1> QED BY <1>5 DEF Listing, KindInv, IdsGiven, FolderIsFiles, TimesGiven

\* What a step may do to the folder: remove files, write a new version of one
\* under its old id and extension, or add one under a new id.
Removed == folder' \subseteq folder /\ UNCHANGED <<clock, nextId>>

Rewritten ==
    \E f \in folder, g \in File :
        /\ g.id = f.id /\ g.ext = f.ext /\ g.mtime = clock + 1
        /\ folder' = (folder \ {f}) \cup {g}
        /\ clock' = clock + 1
        /\ UNCHANGED nextId

Added ==
    \E g \in File :
        /\ g.id = nextId /\ g.ext # "pdf" /\ g.mtime = clock + 1
        /\ folder' = folder \cup {g}
        /\ clock' = clock + 1
        /\ nextId' = nextId + 1

LEMMA NewVersionRewrites ==
  ASSUME KindInv, ClockRuns, NEW c \in Clients, NEW f \in folder,
         NewVersion(c, f)
  PROVE  Rewritten
  <1> DEFINE g == [f EXCEPT !.fmt = LocalExt[c], !.by = c, !.mtime = clock + 1]
  <1>1. f \in File /\ LocalExt[c] \in Exts /\ c \in Writers /\ clock + 1 \in Nat
    BY UpsertAssumption DEF KindInv, FolderIsFiles, Exts, Writers, ClockRuns
  <1>2. g \in File /\ g.id = f.id /\ g.ext = f.ext /\ g.mtime = clock + 1
    BY <1>1 DEF File
  <1>3. /\ folder' = (folder \ {f}) \cup {g}
        /\ clock' = clock + 1
        /\ UNCHANGED nextId
    BY DEF NewVersion
  <1> HIDE DEF g
  <1> QED BY <1>2, <1>3 DEF Rewritten

LEMMA AddFileAdds ==
  ASSUME KindInv, ClockRuns, NEW c \in Clients, AddFile(c)
  PROVE  Added
  <1> DEFINE g == [id |-> nextId, ext |-> Stored(LocalExt[c]),
                   fmt |-> Stored(LocalExt[c]), by |-> c, mtime |-> clock + 1]
  <1>1. /\ nextId \in Nat /\ clock + 1 \in Nat
        /\ Stored(LocalExt[c]) \in Exts /\ c \in Writers
    BY StoredExt DEF KindInv, IdsGiven, Writers, ClockRuns
  <1>2. Stored(LocalExt[c]) # "pdf"
    BY UpsertAssumption DEF Stored
  <1>3. g \in File /\ g.id = nextId /\ g.ext # "pdf" /\ g.mtime = clock + 1
    BY <1>1, <1>2 DEF File
  <1>4. folder' = folder \cup {g} /\ clock' = clock + 1 /\ nextId' = nextId + 1
    BY DEF AddFile
  <1> HIDE DEF g
  <1> QED BY <1>3, <1>4 DEF Added

LEMMA EditRewrites == ASSUME KindInv, ClockRuns, Edit PROVE Rewritten
  <1>1. PICK f \in folder :
          folder' = (folder \ {f}) \cup
                      {[f EXCEPT !.by = "user", !.mtime = clock + 1]}
    BY DEF Edit
  <1> DEFINE g == [f EXCEPT !.by = "user", !.mtime = clock + 1]
  <1>2. f \in File /\ "user" \in Writers /\ clock + 1 \in Nat
    BY DEF KindInv, FolderIsFiles, Writers, ClockRuns
  <1>3. g \in File /\ g.id = f.id /\ g.ext = f.ext /\ g.mtime = clock + 1
    BY <1>2 DEF File
  <1>4. folder' = (folder \ {f}) \cup {g} /\ clock' = clock + 1 /\ UNCHANGED nextId
    BY <1>1 DEF Edit
  <1> HIDE DEF g
  <1> QED BY <1>3, <1>4 DEF Rewritten

LEMMA FolderStep ==
  ASSUME KindInv, ClockRuns, [Next]_vars
  PROVE  Removed \/ Rewritten \/ Added
  <1>1. UNCHANGED serverVars => Removed
    BY DEF serverVars, Removed
  <1>2. ASSUME NEW c \in Clients, Step(c) PROVE Removed \/ Rewritten \/ Added
    <2>1. ASSUME NEW reply, Update(c, reply) PROVE Removed \/ Rewritten
      BY <1>1, <2>1, NewVersionRewrites DEF Update
    <2>2. ASSUME NEW reply, Delete(c, reply) PROVE Removed
      <3>1. UNCHANGED serverVars \/ Unlink(Head(todo[c]))
        BY <2>2 DEF Delete
      <3> QED BY <1>1, <3>1 DEF Unlink, Removed
    <2>3. ASSUME NEW reply, Upload(c, reply) PROVE Removed \/ Added
      BY <1>1, <2>3, AddFileAdds DEF Upload
    <2>4. CASE ListFails(c) \/ ListToReplace(c) \/ ListToAssert(c)
               \/ ListToDedupe(c) \/ UpdateUnreadable(c) \/ Relist(c)
               \/ Cleared(c) \/ UploadUnreadable(c)
      <3>1. UNCHANGED serverVars
        BY <2>4, Zenon DEF ListFails, ListToReplace, ListToAssert, ListToDedupe,
           UpdateUnreadable, Relist, Cleared, UploadUnreadable
      <3> QED BY <1>1, <3>1
    <2> QED BY <1>2, <2>1, <2>2, <2>3, <2>4 DEF Step
  <1>3. CASE Edit
    BY <1>3, EditRewrites
  <1>4. CASE UNCHANGED vars
    BY <1>1, <1>4 DEF vars
  <1> QED BY <1>2, <1>3, <1>4 DEF Next

LEMMA TimesStep ==
  ASSUME KindInv, TimesGiven, [Next]_vars
  PROVE  TimesGiven'
  <1>1. ClockRuns'
    BY ClockStep DEF TimesGiven
  <1>2. \A f \in folder : f.mtime \in Nat /\ f.mtime <= clock /\ clock \in Nat
    BY DEF KindInv, FolderIsFiles, File, TimesGiven, ClockRuns
  <1>3. CASE Removed
    BY <1>1, <1>3 DEF Removed, TimesGiven
  <1>4. ASSUME NEW f \in folder, NEW g, g.mtime = clock + 1, clock' = clock + 1,
               folder' \subseteq folder \cup {g}
        PROVE  TimesGiven'
    BY <1>1, <1>2, <1>4 DEF TimesGiven
  <1>5. CASE Rewritten
    BY <1>4, <1>5 DEF Rewritten
  <1>6. CASE Added
    <2>1. PICK g : /\ g.mtime = clock + 1 /\ clock' = clock + 1
                   /\ folder' = folder \cup {g}
      BY <1>6 DEF Added
    <2> QED BY <1>1, <1>2, <2>1 DEF TimesGiven
  <1> QED BY <1>3, <1>5, <1>6, FolderStep DEF TimesGiven

(* How a request moves its client                                          *)

LEMMA EnterControl ==
  ASSUME Control, NEW c \in Clients, NEW label \in Labels, Enter(c, label),
         result[c] = "none", UNCHANGED result
  PROVE  Control'
  <1>1. 1 \in 1 .. Attempts /\ 1 \in 1 .. UpdatePaths
    BY UpsertAssumption DEF UpdatePaths
  <1> QED BY <1>1 DEF Control, Enter, Labels

LEMMA FinishControl ==
  ASSUME Control, NEW c \in Clients, NEW r \in Results, Finish(c, r)
  PROVE  Control'
  <1>1. 1 \in 1 .. Attempts /\ 1 \in 1 .. UpdatePaths
    BY UpsertAssumption DEF UpdatePaths
  <1> QED BY <1>1 DEF Control, Finish, Enter, Labels, Results

LEMMA AgainControl ==
  ASSUME Control, NEW c \in Clients, NEW reply, RetryOrVary(c, reply),
         CanRetry(c, reply) \/ path[c] < UpdatePaths, UNCHANGED result
  PROVE  Control'
  <1>1. 1 \in 1 .. Attempts /\ Attempts \in Nat /\ UpdatePaths = 4
    BY UpsertAssumption DEF UpdatePaths
  <1>2. try[c] \in 1 .. Attempts /\ path[c] \in 1 .. UpdatePaths
    BY DEF Control
  <1>3. CASE CanRetry(c, reply)
    <2>1. try[c] + 1 \in 1 .. Attempts
      BY <1>1, <1>2, <1>3 DEF CanRetry
    <2> QED BY <1>3, <2>1 DEF Control, RetryOrVary
  <1>4. CASE ~CanRetry(c, reply)
    <2>1. path[c] + 1 \in 1 .. UpdatePaths
      BY <1>1, <1>2, <1>4
    <2> QED BY <1>1, <1>4, <2>1 DEF Control, RetryOrVary
  <1> QED BY <1>3, <1>4

LEMMA ControlStep ==
  ASSUME Control, [Next]_vars
  PROVE  Control'
  <1>1. ASSUME NEW c \in Clients, Step(c) PROVE Control'
    <2>1. pc[c] # "done" => result[c] = "none"
      BY DEF Control
    <2>2. CASE ListFails(c)
      BY <2>2, FinishControl DEF ListFails, Results
    <2>3. CASE ListToReplace(c)
      BY <2>1, <2>3, EnterControl DEF ListToReplace, Labels
    <2>4. CASE ListToAssert(c)
      BY <2>1, <2>4, EnterControl, FinishControl DEF ListToAssert, Labels, Results
    <2>5. CASE ListToDedupe(c)
      BY <2>1, <2>5, EnterControl DEF ListToDedupe, Labels
    <2>6. ASSUME NEW reply, Update(c, reply) PROVE Control'
      <3>1. pc[c] = "update" /\ UNCHANGED result
        BY <2>6 DEF Update
      <3>2. \/ Enter(c, "collapse") \/ Enter(c, "relist")
            \/ /\ RetryOrVary(c, reply)
               /\ CanRetry(c, reply) \/ path[c] < UpdatePaths
        BY <2>6, Zenon DEF Update, CanVary
      <3> QED BY <2>1, <3>1, <3>2, EnterControl, AgainControl DEF Labels
    <2>7. ASSUME NEW reply, Delete(c, reply) PROVE Control'
      <3>1. pc[c] \in {"clear", "collapse"}
        BY <2>7 DEF Delete
      <3>2. \/ Enter(c, pc[c]) /\ UNCHANGED result
            \/ RetryOrVary(c, reply) /\ CanRetry(c, reply) /\ UNCHANGED result
            \/ Finish(c, "error")
        BY <2>7, Zenon DEF Delete
      <3>3. pc[c] \in Labels
        BY <3>1 DEF Labels
      <3> QED BY <2>1, <3>1, <3>2, <3>3, EnterControl, AgainControl,
                 FinishControl DEF Results
    <2>8. ASSUME NEW reply, Upload(c, reply) PROVE Control'
      <3>1. \/ Finish(c, "ok") \/ Finish(c, "error")
            \/ /\ RetryOrVary(c, reply) /\ UNCHANGED result
               /\ CanRetry(c, reply) \/ path[c] < UploadPaths
        BY <2>8, Zenon DEF Upload, CanVary
      <3>2. path[c] < UploadPaths => path[c] < UpdatePaths
        BY DEF UploadPaths, UpdatePaths, Control
      <3> QED BY <3>1, <3>2, AgainControl, FinishControl DEF Results
    <2>9. CASE UpdateUnreadable(c)
      BY <2>1, <2>9, EnterControl DEF UpdateUnreadable, Labels
    <2>10. CASE Relist(c)
      <3>1. pc[c] = "relist" /\ Enter(c, "clear") /\ UNCHANGED result
        BY <2>10, Zenon DEF Relist
      <3> QED BY <2>1, <3>1, EnterControl DEF Labels
    <2>11. CASE Cleared(c)
      BY <2>1, <2>11, EnterControl, FinishControl DEF Cleared, Labels, Results
    <2>12. CASE UploadUnreadable(c)
      BY <2>12, FinishControl DEF UploadUnreadable, Results
    <2> QED BY <1>1, <2>2, <2>3, <2>4, <2>5, <2>6, <2>7, <2>8, <2>9, <2>10,
               <2>11, <2>12 DEF Step
  <1>2. CASE UNCHANGED <<pc, result, try, path>>
    BY <1>2 DEF Control
  <1>3. Edit \/ UNCHANGED vars => UNCHANGED <<pc, result, try, path>>
    BY DEF Edit, vars
  <1> QED BY <1>1, <1>2, <1>3 DEF Next

(* The ids a client plans to delete                                        *)

LEMMA IdsGrow ==
  ASSUME KindInv, ClockRuns, [Next]_vars
  PROVE  nextId \in Nat /\ nextId' \in Nat /\ nextId <= nextId'
  <1>1. nextId \in Nat
    BY DEF KindInv, IdsGiven
  <1> QED BY <1>1, FolderStep DEF Removed, Rewritten, Added

LEMMA PlannedIds ==
  ASSUME KindInv, NEW files \in SUBSET folder
  PROVE  {f.id : f \in files} \subseteq 1 .. nextId - 1
  BY DEF KindInv, IdsGiven

\* Every order of a listing is a sequence of its ids.
LEMMA OrderIsSeq ==
  ASSUME NEW files, Listing(files), KindInv, files \subseteq folder,
         NEW order \in SetToSeqs({f.id : f \in files})
  PROVE  /\ order \in Seq({f.id : f \in files})
         /\ \A f \in files : f.id \in ToSet(order)
  <1> DEFINE ids == {f.id : f \in files}
             N   == Cardinality(ids)
  <1>1. ids \in SUBSET (1 .. nextId - 1)
    BY PlannedIds
  <1>2. nextId - 1 \in Int
    BY DEF KindInv, IdsGiven
  <1>3. IsFiniteSet(ids) /\ N \in Nat
    <2> HIDE DEF ids
    <2>1. IsFiniteSet(1 .. nextId - 1)
      BY <1>2, FS_Interval
    <2>2. IsFiniteSet(ids)
      BY <1>1, <2>1, FS_Subset
    <2> QED BY <2>2, FS_CardinalityType
  <1>4. order \in [1 .. N -> ids]
        /\ \A i, j \in 1 .. N : i # j => order[i] # order[j]
    BY DEF SetToSeqs
  <1>5. order \in Seq(ids)
    <2> HIDE DEF ids, N
    <2> QED BY <1>3, <1>4
  <1>6. order \in Surjection(1 .. N, ids)
    <2> HIDE DEF ids
    <2>1. order \in Injection(1 .. N, ids)
      BY <1>4, Fun_IsInj
    <2>2. IsFiniteSet(1 .. N) /\ Cardinality(1 .. N) = N
      BY <1>3, FS_Interval
    <2> QED BY <1>3, <2>1, <2>2, FS_Injection
  <1>7. \A i \in ids : \E j \in 1 .. N : order[j] = i
    <2> HIDE DEF ids, N
    <2> QED BY <1>6 DEF Surjection
  <1>8. DOMAIN order = 1 .. N
    BY <1>4
  <1> QED BY <1>5, <1>7, <1>8 DEF ToSet

\* What each step does to the plans of deletions.
LEMMA TodoChanges ==
  ASSUME KindInv, TimesGiven, TodoGiven, NEW c \in Clients, Step(c)
  PROVE  \/ UNCHANGED todo
         \/ /\ todo[c] # <<>>
            /\ todo' = [todo EXCEPT ![c] = Tail(@)]
         \/ \E s \in Seq({f.id : f \in Matches(folder, LocalExt[c])}) :
               todo' = [todo EXCEPT ![c] = s]
         \/ /\ Mode[c] = "dedupe"
            /\ \E s \in Seq({f.id : f \in folder}) :
                  todo' = [todo EXCEPT ![c] = s]
  <1>0. Listing(folder) /\ \A f \in folder : f.id # 0
    BY FolderIsListing DEF KindInv, IdsGiven
  <1>1. CASE ListToReplace(c)
    <2>1. todo' = [todo EXCEPT ![c] = PlanReplace(folder, LocalExt[c]).todo]
      BY <1>1 DEF ListToReplace
    <2> QED BY <1>0, <2>1, PlanReplaceProperties
  <1>2. CASE ListToDedupe(c)
    BY <1>0, <1>2, DuplicatesProperties DEF ListToDedupe
  <1>3. CASE Relist(c)
    <2> DEFINE found == Matches(folder, LocalExt[c])
    <2>1. PICK order \in SetToSeqs({f.id : f \in found}) :
            todo' = [todo EXCEPT ![c] = order]
      BY <1>3, Zenon DEF Relist
    <2>2. found \in SUBSET folder
      BY DEF Matches
    <2>3. order \in Seq({f.id : f \in found})
      <3> HIDE DEF found
      <3> QED BY <1>0, <2>2, MatchesListing, OrderIsSeq
    <2> QED BY <2>1, <2>3
  <1>4. ASSUME NEW reply, Update(c, reply) PROVE UNCHANGED todo
    BY <1>4 DEF Update, planVars
  <1>5. ASSUME NEW reply, Delete(c, reply)
        PROVE  \/ UNCHANGED todo
               \/ todo[c] # <<>> /\ todo' = [todo EXCEPT ![c] = Tail(@)]
    BY <1>5, Zenon DEF Delete
  <1>6. ASSUME NEW reply, Upload(c, reply) PROVE UNCHANGED todo
    BY <1>6 DEF Upload, planVars
  <1>7. CASE ListFails(c) \/ ListToAssert(c) \/ UpdateUnreadable(c)
             \/ Cleared(c) \/ UploadUnreadable(c)
    <2>1. UNCHANGED planVars
      BY <1>7, Zenon DEF ListFails, ListToAssert, UpdateUnreadable, Cleared,
         UploadUnreadable
    <2> QED BY <2>1 DEF planVars
  <1> QED BY <1>1, <1>2, <1>3, <1>4, <1>5, <1>6, <1>7 DEF Step

LEMMA TodoStep ==
  ASSUME KindInv, TimesGiven, TodoGiven, [Next]_vars
  PROVE  TodoGiven'
  <1>1. 1 .. nextId - 1 \subseteq 1 .. nextId' - 1
    BY IdsGrow DEF TimesGiven
  <1>2. \A s \in Seq(1 .. nextId - 1) : s \in Seq(1 .. nextId' - 1)
    BY <1>1, SeqMonotonic
  <1>3. CASE UNCHANGED todo
    BY <1>2, <1>3 DEF TodoGiven
  <1>4. ASSUME NEW c \in Clients, NEW s \in Seq(1 .. nextId - 1),
               todo' = [todo EXCEPT ![c] = s]
        PROVE  TodoGiven'
    BY <1>2, <1>4 DEF TodoGiven
  <1>5. ASSUME NEW files \in SUBSET folder, NEW s \in Seq({f.id : f \in files})
        PROVE  s \in Seq(1 .. nextId - 1)
    <2> DEFINE ids == {f.id : f \in files}
    <2>1. ids \subseteq 1 .. nextId - 1
      BY PlannedIds
    <2> HIDE DEF ids
    <2> QED BY <2>1, SeqMonotonic DEF ids
  <1>6. ASSUME NEW c \in Clients, Step(c) PROVE TodoGiven'
    <2>1. ASSUME todo[c] # <<>>, todo' = [todo EXCEPT ![c] = Tail(@)]
          PROVE  TodoGiven'
      <3>1. Tail(todo[c]) \in Seq(1 .. nextId - 1)
        BY <2>1, HeadAndTail DEF TodoGiven
      <3> QED BY <1>4, <2>1, <3>1
    <2>2. Matches(folder, LocalExt[c]) \in SUBSET folder
      BY DEF Matches
    <2>3. ASSUME NEW s \in Seq({f.id : f \in Matches(folder, LocalExt[c])}),
                 todo' = [todo EXCEPT ![c] = s]
          PROVE  TodoGiven'
      BY <1>4, <1>5, <2>2, <2>3
    <2>4. ASSUME NEW s \in Seq({f.id : f \in folder}),
                 todo' = [todo EXCEPT ![c] = s]
          PROVE  TodoGiven'
      BY <1>4, <1>5, <2>4
    <2> QED BY <1>3, <1>6, <2>1, <2>3, <2>4, TodoChanges
  <1> QED BY <1>3, <1>6 DEF Next, Edit, planVars, vars

LEMMA TypeInitially == Init => TypeInv
  <1> SUFFICES ASSUME Init PROVE TypeInv
    OBVIOUS
  <1>1. KindInv
    BY InitKind
  <1>2. TimesGiven
    BY InitialAssumption DEF Init, TimesGiven, ClockRuns, FirstFree, File
  <1>3. Control
    BY UpsertAssumption DEF Init, Control, Labels, Results, UpdatePaths
  <1>4. TodoGiven
    BY DEF Init, TodoGiven
  <1> QED BY <1>1, <1>2, <1>3, <1>4 DEF TypeInv

LEMMA TypeStep == TypeInv /\ [Next]_vars => TypeInv'
  BY KindStep, TimesStep, ControlStep, TodoStep DEF TypeInv, TimesGiven

LEMMA TypeInvariant == Spec => []TypeInv
  BY TypeInitially, TypeStep, PTL DEF Spec

\* Every variable of the folder and of its clients has its type; ids and times
\* are those the server has given, each to one file, whatever the clients do
\* in whatever order and whatever the server answers (files_stem.go, files.go).
THEOREM TypeCorrect == Spec => []TypeOK
  <1>1. TypeInv => TypeOK
    <2> SUFFICES ASSUME TypeInv PROVE TypeOK
      OBVIOUS
    <2>1. /\ folder \subseteq File
          /\ \A f \in folder : f.id < nextId /\ f.mtime <= clock
          /\ \A f, g \in folder : f # g => f.id # g.id /\ f.mtime # g.mtime
      BY DEF TypeInv, KindInv, FolderIsFiles, IdsGiven, TimesGiven
    <2>2. /\ pc \in [Clients -> Labels \cup {"done"}]
          /\ result \in [Clients -> Results \cup {"none"}]
      BY DEF TypeInv, Control
    <2>3. ASSUME NEW c \in Clients
          PROVE  /\ todo[c] \in Seq(1 .. nextId - 1)
                 /\ keep[c] \in 0 .. nextId - 1
                 /\ try[c] \in 1 .. Attempts
                 /\ path[c] \in 1 .. UpdatePaths
                 /\ (pc[c] = "done") <=> (result[c] # "none")
      BY DEF TypeInv, Control, TodoGiven, KindInv, KeepIsOfMyKind, IdsGiven
    <2> QED BY <2>1, <2>2, <2>3 DEF TypeOK, Labels, Results
  <1> QED BY <1>1, TypeInvariant, PTL

-----------------------------------------------------------------------------
(* Documents of another kind                                               *)

\* Only the uploads of documents work on the folder.  (A duplicate clean-up
\* may well delete one of two files of the other kind.)
NobodyCleansUp == \A c \in Clients : Mode[c] # "dedupe"

\* No id that a client plans to delete names a file of another kind.
NoPdfPlanned ==
    \A c \in Clients : \A f \in folder :
        f.id \in ToSet(todo[c]) => f.ext # "pdf"

LEMMA MatchesAreDocuments ==
  ASSUME NEW files, files \subseteq File, NEW c \in Clients
  PROVE  Matches(files, LocalExt[c]) = {f \in files : f.ext # "pdf"}
  <1>1. LocalExt[c] \in {"legacy", "ooxml"}
    BY UpsertAssumption
  <1>2. \A f \in files : f.ext \in {"legacy", "ooxml", "pdf"}
    BY DEF File, Exts
  <1>3. \A f \in files : EquivalentExt(f.ext, LocalExt[c]) <=> f.ext # "pdf"
    BY <1>1, <1>2 DEF EquivalentExt
  <1> QED BY <1>3 DEF Matches

LEMMA NoPdfStep ==
  ASSUME NobodyCleansUp, TypeInv, NoPdfPlanned, [Next]_vars
  PROVE  NoPdfPlanned'
  <1>1. \A c \in Clients : ToSet(todo[c]) \subseteq 1 .. nextId - 1
    BY SeqElements DEF TypeInv, TodoGiven
  <1>2. ASSUME NEW f \in folder'
        PROVE  \/ \E g \in folder : g.id = f.id /\ g.ext = f.ext
               \/ f.ext # "pdf"
    BY FolderStep DEF TypeInv, TimesGiven, Removed, Rewritten, Added
  <1>3. CASE UNCHANGED todo
    BY <1>2, <1>3 DEF NoPdfPlanned
  <1>4. ASSUME NEW c \in Clients, Step(c) PROVE NoPdfPlanned'
    <2>1. todo \in [Clients -> Seq(1 .. nextId - 1)]
      BY DEF TypeInv, TodoGiven
    <2>2. ASSUME NEW s, todo' = [todo EXCEPT ![c] = s],
                 \A f \in folder : f.id \in ToSet(s) => f.ext # "pdf"
          PROVE  NoPdfPlanned'
      BY <1>2, <2>1, <2>2 DEF NoPdfPlanned
    <2>3. ASSUME todo[c] # <<>>, todo' = [todo EXCEPT ![c] = Tail(@)]
          PROVE  NoPdfPlanned'
      <3>1. ToSet(Tail(todo[c])) \subseteq ToSet(todo[c])
        BY <2>1, <2>3, HeadAndTail
      <3> QED BY <2>2, <2>3, <3>1 DEF NoPdfPlanned
    <2>4. ASSUME NEW s \in Seq({f.id : f \in Matches(folder, LocalExt[c])}),
                 todo' = [todo EXCEPT ![c] = s]
          PROVE  NoPdfPlanned'
      <3> DEFINE found == Matches(folder, LocalExt[c])
      <3>1. ToSet(s) \subseteq {f.id : f \in found}
        BY SeqElements
      <3>2. found = {f \in folder : f.ext # "pdf"}
        BY MatchesAreDocuments DEF TypeInv, KindInv, FolderIsFiles
      <3>3. \A f, g \in folder : f.id = g.id => f = g
        BY DEF TypeInv, KindInv, IdsGiven
      <3>4. \A f \in folder : f.id \in ToSet(s) => f \in found
        <4> HIDE DEF found
        <4>1. found \subseteq folder
          BY <3>2
        <4> QED BY <3>1, <3>3, <4>1
      <3>5. \A f \in folder : f.id \in ToSet(s) => f.ext # "pdf"
        BY <3>2, <3>4
      <3> QED BY <2>2, <2>4, <3>5
    <2>5. Mode[c] # "dedupe"
      BY DEF NobodyCleansUp
    <2> QED BY <1>3, <1>4, <2>3, <2>4, <2>5, TodoChanges DEF TypeInv
  <1> QED BY <1>3, <1>4 DEF Next, Edit, planVars, vars

\* UploadToFolderReplacing and UploadToFolderNoClobber match by stem and
\* equivalent extension: report.pdf survives whatever any number of them do to
\* report.docx, on stale listings and failed requests too.
THEOREM UploadsSpareOtherKinds ==
  ASSUME NobodyCleansUp
  PROVE  Spec => OtherKindsSurvive
  <1>1. Init => NoPdfPlanned
    BY DEF Init, NoPdfPlanned, ToSet
  <1>2. TypeInv /\ NoPdfPlanned /\ [Next]_vars => NoPdfPlanned'
    BY NoPdfStep
  <1>3. TypeInv /\ NoPdfPlanned /\ [Next]_vars =>
          [\A f \in folder : f.ext = "pdf" => \E g \in folder' : g.id = f.id]_vars
    <2> SUFFICES ASSUME TypeInv, NoPdfPlanned, [Next]_vars,
                        NEW f \in folder, f.ext = "pdf"
                 PROVE  \E g \in folder' : g.id = f.id
      OBVIOUS
    <2>1. KindInv /\ ClockRuns
      BY DEF TypeInv, TimesGiven
    <2>2. CASE Rewritten
      BY <2>2 DEF Rewritten
    <2>3. CASE Added
      BY <2>3 DEF Added
    <2>4. UNCHANGED folder => f \in folder'
      OBVIOUS
    <2>5. ASSUME NEW c \in Clients, Step(c) PROVE \E g \in folder' : g.id = f.id
      <3>1. ASSUME NEW reply, Delete(c, reply) PROVE f \in folder'
        <4>1. UNCHANGED folder \/ folder' = {g \in folder : g.id # Head(todo[c])}
          BY <3>1 DEF Delete, Unlink, serverVars
        <4>2. Head(todo[c]) \in ToSet(todo[c])
          <5>1. todo[c] # <<>> /\ todo[c] \in Seq(1 .. nextId - 1)
            BY <3>1 DEF Delete, TypeInv, TodoGiven
          <5> QED BY <5>1, HeadAndTail
        <4>3. f.id # Head(todo[c])
          BY <4>2 DEF NoPdfPlanned
        <4> QED BY <4>1, <4>3
      <3>2. ASSUME NEW reply, Update(c, reply)
            PROVE  \E g \in folder' : g.id = f.id
        <4>1. Rewritten \/ UNCHANGED folder
          BY <2>1, <3>2, NewVersionRewrites DEF Update, serverVars
        <4> QED BY <2>2, <4>1
      <3>3. ASSUME NEW reply, Upload(c, reply)
            PROVE  \E g \in folder' : g.id = f.id
        <4>1. Added \/ UNCHANGED folder
          BY <2>1, <3>3, AddFileAdds DEF Upload, serverVars
        <4> QED BY <2>3, <4>1
      <3>4. CASE ListFails(c) \/ ListToReplace(c) \/ ListToAssert(c)
                 \/ ListToDedupe(c) \/ UpdateUnreadable(c) \/ Relist(c)
                 \/ Cleared(c) \/ UploadUnreadable(c)
        <4>1. UNCHANGED serverVars
          BY <3>4, Zenon DEF ListFails, ListToReplace, ListToAssert,
             ListToDedupe, UpdateUnreadable, Relist, Cleared, UploadUnreadable
        <4> QED BY <4>1 DEF serverVars
      <3> QED BY <2>5, <3>1, <3>2, <3>3, <3>4 DEF Step
    <2>6. CASE Edit
      BY <2>1, <2>2, <2>6, EditRewrites
    <2>7. CASE UNCHANGED vars
      BY <2>7 DEF vars, serverVars
    <2> QED BY <2>5, <2>6, <2>7 DEF Next
  <1> QED BY <1>1, <1>2, <1>3, TypeInvariant, PTL DEF Spec, OtherKindsSurvive

-----------------------------------------------------------------------------
(***************************************************************************)
(* What one replacing upload achieves among any number of no-clobber       *)
(* uploads, whatever the server answers: it keeps the document in the      *)
(* folder while it works in place, and leaves its own body under the name. *)
(*                                                                         *)
(* The argument follows the upload through its phases: at each of them it  *)
(* says where the bodies from before, and the bodies of the upload itself, *)
(* can still be: under the id to update in place, or among the ids the     *)
(* upload is going to delete.                                              *)
(***************************************************************************)

\* The upload of c replaces the document, and the others only add it.
OnlyWriter(c) ==
    Mode[c] = "replace" /\ \A d \in Clients \ {c} : Mode[d] = "noClobber"

OneWriter == \A c \in Clients : Mode[c] = "replace" => OnlyWriter(c)

Documents(files) == {f \in files : f.ext # "pdf"}

\* The files of the document with a body of w.
BodiesBy(w) == {f \in Documents(folder) : f.by = w}

Counters == edits \in Nat /\ lostPosts \in [Clients -> Nat]

\* A no-clobber upload lists, uploads, and is done.
NoClobberIsSimple ==
    \A c \in Clients :
        Mode[c] = "noClobber" => pc[c] \in {"list", "upload", "done"}

\* The file to update in place is in the folder and stays there.
KeeperIsThere(c) ==
    pc[c] \in {"update", "collapse"} =>
        /\ \E f \in Documents(folder) : f.id = keep[c]
        /\ keep[c] \notin ToSet(todo[c])

\* Where the old bodies and those of c can be, phase by phase.
Accounted(c) ==
    /\ pc[c] \notin {"upload", "done"} => lostPosts[c] = 0
    /\ pc[c] = "list" => BodiesBy(c) = {}
    /\ pc[c] = "update" =>
          /\ \A f \in BodiesBy("before") : f.id = keep[c] \/ f.id \in ToSet(todo[c])
          /\ \A f \in BodiesBy(c) : f.id = keep[c]
    /\ pc[c] = "collapse" =>
          /\ \A f \in BodiesBy("before") : f.id \in ToSet(todo[c])
          /\ \A f \in BodiesBy(c) : f.id = keep[c]
          /\ \E f \in BodiesBy(c) : f.id = keep[c]
    /\ pc[c] = "clear" =>
          \A f \in BodiesBy("before") \cup BodiesBy(c) : f.id \in ToSet(todo[c])
    /\ pc[c] = "upload" =>
          BodiesBy("before") = {} /\ Cardinality(BodiesBy(c)) = lostPosts[c]
    /\ result[c] = "ok" =>
          BodiesBy("before") = {} /\ Cardinality(BodiesBy(c)) = 1 + lostPosts[c]

Left(c) == result[c] \in {"ok", "exists"} => Documents(folder) # {}

\* (An edit in the web interface may put another body into any file.)
WriterInv(c) ==
    KeeperIsThere(c) /\ Left(c) /\ (edits = 0 => Accounted(c))

-----------------------------------------------------------------------------
LEMMA CountersStep ==
  ASSUME Counters, [Next]_vars
  PROVE  Counters' /\ (edits' = 0 => edits = 0)
  <1>1. CASE UNCHANGED <<edits, lostPosts>>
    BY <1>1 DEF Counters
  <1>2. ASSUME NEW c \in Clients, Step(c) PROVE Counters' /\ UNCHANGED edits
    <2>1. ASSUME NEW reply, Upload(c, reply) PROVE Counters' /\ UNCHANGED edits
      BY <2>1 DEF Upload, Counters
    <2>2. ASSUME NEW reply, Update(c, reply) PROVE UNCHANGED <<edits, lostPosts>>
      BY <2>2 DEF Update
    <2>3. ASSUME NEW reply, Delete(c, reply) PROVE UNCHANGED <<edits, lostPosts>>
      BY <2>3 DEF Delete
    <2>4. CASE ListFails(c) \/ ListToReplace(c) \/ ListToAssert(c)
               \/ ListToDedupe(c) \/ UpdateUnreadable(c) \/ Relist(c)
               \/ Cleared(c) \/ UploadUnreadable(c)
      <3>1. UNCHANGED edits /\ UNCHANGED lostPosts
        BY <2>4, Zenon DEF ListFails, ListToReplace, ListToAssert, ListToDedupe,
           UpdateUnreadable, Relist, Cleared, UploadUnreadable
      <3> QED BY <1>1, <3>1
    <2> QED BY <1>1, <1>2, <2>1, <2>2, <2>3, <2>4 DEF Step
  <1>3. CASE Edit
    BY <1>3 DEF Edit, Counters
  <1>4. UNCHANGED vars => UNCHANGED <<edits, lostPosts>>
    BY DEF vars
  <1> QED BY <1>1, <1>2, <1>3, <1>4 DEF Next

LEMMA SimpleStep ==
  ASSUME NoClobberIsSimple, Control, [Next]_vars
  PROVE  NoClobberIsSimple'
  <1>1. ASSUME NEW c \in Clients, NEW label, Enter(c, label),
               Mode[c] = "noClobber" => label \in {"list", "upload", "done"}
        PROVE  NoClobberIsSimple'
    BY <1>1 DEF Enter, NoClobberIsSimple, Control
  <1>2. UNCHANGED pc => NoClobberIsSimple'
    BY DEF NoClobberIsSimple
  <1>3. ASSUME NEW c \in Clients, Step(c) PROVE NoClobberIsSimple'
    <2>1. pc[c] \notin {"list", "upload", "done"} => Mode[c] # "noClobber"
      BY DEF NoClobberIsSimple
    <2>2. CASE ListFails(c) \/ UploadUnreadable(c)
      BY <1>1, <2>2 DEF ListFails, UploadUnreadable, Finish
    <2>3. CASE ListToReplace(c)
      BY <1>1, <2>3 DEF ListToReplace
    <2>4. CASE ListToAssert(c)
      BY <1>1, <2>4 DEF ListToAssert, Finish
    <2>5. CASE ListToDedupe(c)
      BY <1>1, <2>5 DEF ListToDedupe
    <2>6. ASSUME NEW reply, Update(c, reply) PROVE NoClobberIsSimple'
      <3>1. pc[c] = "update"
        BY <2>6 DEF Update
      <3>2. (\E label \in Labels : Enter(c, label)) \/ UNCHANGED pc
        BY <2>6 DEF Update, RetryOrVary, Labels
      <3> QED BY <1>1, <1>2, <2>1, <3>1, <3>2
    <2>7. ASSUME NEW reply, Delete(c, reply) PROVE NoClobberIsSimple'
      <3>1. pc[c] \in {"clear", "collapse"}
        BY <2>7 DEF Delete
      <3>2. (\E label : Enter(c, label)) \/ UNCHANGED pc
        BY <2>7 DEF Delete, RetryOrVary, Finish
      <3> QED BY <1>1, <1>2, <2>1, <3>1, <3>2
    <2>8. ASSUME NEW reply, Upload(c, reply) PROVE NoClobberIsSimple'
      <3>1. Enter(c, "done") \/ UNCHANGED pc
        BY <2>8 DEF Upload, RetryOrVary, Finish
      <3> QED BY <1>1, <1>2, <3>1
    <2>9. CASE UpdateUnreadable(c)
      BY <1>1, <2>1, <2>9 DEF UpdateUnreadable
    <2>10. CASE Relist(c)
      <3>1. pc[c] = "relist" /\ Enter(c, "clear")
        BY <2>10, Zenon DEF Relist
      <3> QED BY <1>1, <2>1, <3>1
    <2>11. CASE Cleared(c)
      BY <1>1, <2>1, <2>11 DEF Cleared, Finish
    <2> QED BY <1>3, <2>2, <2>3, <2>4, <2>5, <2>6, <2>7, <2>8, <2>9, <2>10,
               <2>11 DEF Step
  <1>4. Edit \/ UNCHANGED vars => UNCHANGED pc
    BY DEF Edit, vars
  <1> QED BY <1>2, <1>3, <1>4 DEF Next

-----------------------------------------------------------------------------
(* Steps of others                                                         *)

\* What c knows holds on while the documents stay and, until somebody edits,
\* the old bodies and those of c are the same files.
LEMMA QuietStep ==
  ASSUME NEW c \in Clients, WriterInv(c),
         pc'[c] = pc[c], result'[c] = result[c], keep'[c] = keep[c],
         todo'[c] = todo[c], lostPosts'[c] = lostPosts[c],
         \A f \in Documents(folder) : \E g \in Documents(folder') : g.id = f.id,
         edits' = 0 => /\ edits = 0
                       /\ BodiesBy("before")' = BodiesBy("before")
                       /\ BodiesBy(c)' = BodiesBy(c)
  PROVE  WriterInv(c)'
  <1>1. KeeperIsThere(c)'
    BY DEF WriterInv, KeeperIsThere
  <1>2. Left(c)'
    BY DEF WriterInv, Left
  <1>3. edits' = 0 => Accounted(c)'
    <2> DEFINE before == BodiesBy("before")
               mine   == BodiesBy(c)
    <2>1. SUFFICES ASSUME edits' = 0 PROVE Accounted(c)'
      OBVIOUS
    <2>2. Accounted(c) /\ before' = before /\ mine' = mine
      BY <2>1 DEF WriterInv
    <2> QED BY <2>2 DEF Accounted
  <1> QED BY <1>1, <1>2, <1>3 DEF WriterInv

\* A no-clobber upload at most adds a file of its own.
LEMMA OtherStep ==
  ASSUME TypeInv, NoClobberIsSimple, NEW c \in Clients, OnlyWriter(c),
         NEW d \in Clients \ {c}, Step(d), WriterInv(c), Counters
  PROVE  WriterInv(c)'
  <1>1. Mode[d] = "noClobber" /\ pc[d] \in {"list", "upload", "done"}
    BY DEF OnlyWriter, NoClobberIsSimple
  <1>2. d \in Clients /\ d # "before"
    BY UpsertAssumption
  <1>3. pc[c] = pc'[c] /\ result[c] = result'[c] /\ UNCHANGED <<keep, todo, edits>>
        /\ lostPosts'[c] = lostPosts[c]
    <2> USE <1>1, <1>2 DEF TypeInv, Control, Counters
    <2>1. CASE ListFails(d)
      BY <2>1 DEF ListFails, Finish, Enter, planVars
    <2>2. CASE ListToAssert(d)
      BY <2>2 DEF ListToAssert, Finish, Enter, planVars
    <2>3. ASSUME NEW reply, Upload(d, reply)
          PROVE  pc[c] = pc'[c] /\ result[c] = result'[c]
                 /\ UNCHANGED <<keep, todo, edits>>
                 /\ lostPosts'[c] = lostPosts[c]
      BY <2>3 DEF Upload, Finish, Enter, planVars, RetryOrVary
    <2>4. CASE UploadUnreadable(d)
      BY <2>4 DEF UploadUnreadable, Finish, Enter, planVars
    <2>5. ~ListToReplace(d) /\ ~ListToDedupe(d) /\ ~UpdateUnreadable(d)
          /\ ~Relist(d) /\ ~Cleared(d)
      BY DEF ListToReplace, ListToDedupe, UpdateUnreadable, Relist, Cleared
    <2>6. ASSUME NEW reply PROVE ~Update(d, reply) /\ ~Delete(d, reply)
      BY DEF Update, Delete
    <2> QED BY <2>1, <2>2, <2>3, <2>4, <2>5, <2>6 DEF Step
  <1>4. folder' = folder \/ AddFile(d)
    <2>1. ASSUME NEW reply, Upload(d, reply) PROVE folder' = folder \/ AddFile(d)
      BY <2>1 DEF Upload, serverVars
    <2>2. ASSUME NEW reply PROVE ~Update(d, reply) /\ ~Delete(d, reply)
      BY <1>1 DEF Update, Delete
    <2>3. CASE ListFails(d) \/ ListToReplace(d) \/ ListToAssert(d)
               \/ ListToDedupe(d) \/ UpdateUnreadable(d) \/ Relist(d)
               \/ Cleared(d) \/ UploadUnreadable(d)
      <3>1. UNCHANGED serverVars
        BY <2>3, Zenon DEF ListFails, ListToReplace, ListToAssert, ListToDedupe,
           UpdateUnreadable, Relist, Cleared, UploadUnreadable
      <3> QED BY <3>1 DEF serverVars
    <2> QED BY <2>1, <2>2, <2>3 DEF Step
  <1>5. folder \subseteq folder' /\ \A f \in folder' : f \in folder \/ f.by = d
    <2>1. CASE AddFile(d)
      <3> DEFINE g == [id |-> nextId, ext |-> Stored(LocalExt[d]),
                       fmt |-> Stored(LocalExt[d]), by |-> d, mtime |-> clock + 1]
      <3>1. folder' = folder \cup {g} /\ g.by = d
        BY <2>1 DEF AddFile
      <3> HIDE DEF g
      <3> QED BY <3>1
    <2> QED BY <1>4, <2>1
  <1>6. BodiesBy("before")' = BodiesBy("before") /\ BodiesBy(c)' = BodiesBy(c)
    BY <1>2, <1>5 DEF BodiesBy, Documents
  <1>7. \A f \in Documents(folder) : \E g \in Documents(folder') : g.id = f.id
    BY <1>5 DEF Documents
  <1> QED BY <1>3, <1>6, <1>7, QuietStep

LEMMA EditStep ==
  ASSUME TypeInv, NEW c \in Clients, WriterInv(c), Edit, Counters
  PROVE  WriterInv(c)'
  <1>1. UNCHANGED <<pc, result, keep, todo, lostPosts>> /\ edits' # 0
    BY DEF Edit, planVars, Counters
  <1>2. \A f \in Documents(folder) : \E g \in Documents(folder') : g.id = f.id
    BY EditRewrites DEF TypeInv, TimesGiven, Rewritten, Documents
  <1> QED BY <1>1, <1>2, QuietStep

-----------------------------------------------------------------------------
(* Steps of the replacing upload itself                                    *)

\* The documents of the folder are what c lists, and the names are unique.
LEMMA WhatIsListed ==
  ASSUME TypeInv, NEW c \in Clients
  PROVE  /\ Matches(folder, LocalExt[c]) = Documents(folder)
         /\ Listing(folder)
         /\ \A f, g \in folder : f.id = g.id => f = g
         /\ \A f \in folder : f.id # 0 /\ f.id # nextId
         /\ \A f \in folder : f.id = keep[c] => f.ext = LocalExt[c]
         /\ pc[c] \in Labels \cup {"done"}
         /\ LocalExt[c] # "pdf"
  <1>1. Matches(folder, LocalExt[c]) = Documents(folder)
    BY MatchesAreDocuments DEF TypeInv, KindInv, FolderIsFiles, Documents
  <1>2. Listing(folder)
    BY FolderIsListing DEF TypeInv
  <1>3. LocalExt[c] # "pdf"
    BY UpsertAssumption
  <1>4. \A f \in folder : f.id # 0 /\ f.id # nextId
    BY DEF TypeInv, KindInv, IdsGiven
  <1> QED
    BY <1>1, <1>2, <1>3, <1>4 DEF TypeInv, KindInv, IdsGiven, KeepIsOfMyKind,
       Control

\* An operation that fails promises nothing.
LEMMA GivesUp ==
  ASSUME TypeInv, NEW c \in Clients, Finish(c, "error")
  PROVE  WriterInv(c)'
  <1>1. pc'[c] = "done" /\ result'[c] = "error"
    BY DEF Finish, Enter, TypeInv, Control
  <1>2. KeeperIsThere(c)' /\ Left(c)'
    BY <1>1 DEF KeeperIsThere, Left
  <1>3. Accounted(c)'
    BY <1>1 DEF Accounted
  <1> QED BY <1>2, <1>3 DEF WriterInv

\* Nor does an upload that has to list the folder again.
LEMMA ListsAgain ==
  ASSUME TypeInv, NEW c \in Clients, WriterInv(c), Counters,
         pc[c] = "update", Enter(c, "relist"),
         UNCHANGED <<result, lostPosts, edits>>
  PROVE  WriterInv(c)'
  <1>1. pc'[c] = "relist" /\ result'[c] = "none"
    BY DEF Enter, TypeInv, Control
  <1> QED BY <1>1 DEF WriterInv, KeeperIsThere, Left, Accounted

LEMMA PlanStep ==
  ASSUME TypeInv, NEW c \in Clients, WriterInv(c), ListToReplace(c)
  PROVE  WriterInv(c)'
  <1> DEFINE plan == PlanReplace(folder, LocalExt[c])
  <1>1. /\ UNCHANGED <<folder, lostPosts, edits>>
        /\ keep'[c] = plan.keep /\ todo'[c] = plan.todo
        /\ pc[c] = "list" /\ result'[c] = "none"
        /\ pc'[c] = IF plan.keep # 0 THEN "update" ELSE "clear"
    BY DEF ListToReplace, serverVars, Enter, TypeInv, Control, TodoGiven,
       KindInv, KeepIsOfMyKind
  <1>2. /\ plan.keep = 0 =>
             \A f \in Documents(folder) : f.id \in ToSet(plan.todo)
        /\ plan.keep # 0 =>
             /\ \E f \in Documents(folder) : f.id = plan.keep
             /\ plan.keep \notin ToSet(plan.todo)
             /\ \A f \in Documents(folder) :
                   f.id = plan.keep \/ f.id \in ToSet(plan.todo)
    <2>1. /\ Listing(folder) /\ \A f \in folder : f.id # 0
          /\ Matches(folder, LocalExt[c]) = Documents(folder)
      BY WhatIsListed
    <2>2. LET found == Matches(folder, LocalExt[c])
          IN  /\ plan.keep = 0 => \A f \in found : f.id \in ToSet(plan.todo)
              /\ plan.keep # 0 =>
                   /\ \E f \in found : f.id = plan.keep /\ f.ext = LocalExt[c]
                   /\ plan.keep \notin ToSet(plan.todo)
                   /\ \A f \in found :
                         f.id = plan.keep \/ f.id \in ToSet(plan.todo)
      BY <2>1, PlanReplaceProperties
    <2> HIDE DEF plan
    <2> QED BY <2>1, <2>2
  <1> HIDE DEF plan
  <1>3. KeeperIsThere(c)'
    BY <1>1, <1>2 DEF KeeperIsThere
  <1>4. Left(c)'
    BY <1>1 DEF Left
  <1>5. ASSUME edits' = 0 PROVE Accounted(c)'
    <2>1. BodiesBy(c) = {} /\ lostPosts[c] = 0
      BY <1>1, <1>5 DEF WriterInv, Accounted
    <2>2. BodiesBy("before") \subseteq Documents(folder)
      BY DEF BodiesBy
    <2>3. BodiesBy(c)' = BodiesBy(c) /\ BodiesBy("before")' = BodiesBy("before")
      BY <1>1 DEF BodiesBy
    <2> QED BY <1>1, <1>2, <2>1, <2>2, <2>3 DEF Accounted
  <1> QED BY <1>3, <1>4, <1>5 DEF WriterInv

LEMMA RelistStep ==
  ASSUME TypeInv, NEW c \in Clients, WriterInv(c), Relist(c)
  PROVE  WriterInv(c)'
  <1> DEFINE found == Matches(folder, LocalExt[c])
  <1>1. PICK order \in SetToSeqs({f.id : f \in found}) :
          todo' = [todo EXCEPT ![c] = order]
    BY Zenon DEF Relist
  <1>2. UNCHANGED serverVars /\ UNCHANGED lostPosts /\ UNCHANGED edits
        /\ UNCHANGED result /\ pc[c] = "relist" /\ Enter(c, "clear")
    BY Zenon DEF Relist
  <1>3. /\ UNCHANGED folder /\ todo'[c] = order
        /\ pc'[c] = "clear" /\ result'[c] = "none"
    BY <1>1, <1>2 DEF serverVars, Enter, TypeInv, Control, TodoGiven
  <1>4. \A f \in found : f.id \in ToSet(order)
    <2>1. found \subseteq folder
      BY DEF Matches
    <2>2. Listing(found) /\ KindInv
      <3> HIDE DEF found
      <3> QED BY <2>1, WhatIsListed, MatchesListing DEF TypeInv
    <2> HIDE DEF found
    <2> QED BY <2>1, <2>2, OrderIsSeq
  <1>5. found = Documents(folder)
    BY WhatIsListed
  <1> HIDE DEF found
  <1>6. edits' = 0 => Accounted(c)'
    <2>1. BodiesBy(c)' = BodiesBy(c) /\ BodiesBy("before")' = BodiesBy("before")
      BY <1>3 DEF BodiesBy
    <2>2. BodiesBy("before") \cup BodiesBy(c) \subseteq found
      BY <1>5 DEF BodiesBy
    <2> QED BY <1>2, <1>3, <1>4, <2>1, <2>2 DEF WriterInv, Accounted
  <1> QED BY <1>3, <1>6 DEF WriterInv, KeeperIsThere, Left

\* The in-place update: whatever is answered, only the keeper got the body.
LEMMA InPlaceStep ==
  ASSUME TypeInv, NEW c \in Clients, WriterInv(c), Counters,
         NEW reply, Update(c, reply)
  PROVE  WriterInv(c)'
  <1>1. pc[c] = "update" /\ UNCHANGED <<keep, todo, result, edits, lostPosts>>
    BY DEF Update, planVars
  <1>2. \/ Enter(c, "relist")
        \/ reply = "ok" /\ Enter(c, "collapse")
        \/ UNCHANGED pc
    BY DEF Update, RetryOrVary
  <1>3. result[c] = "none"
    BY <1>1 DEF TypeInv, Control
  <1>4. CASE Enter(c, "relist")
    BY <1>1, <1>4, ListsAgain
  <1>5. \/ UNCHANGED folder /\ reply # "ok"
        \/ \E f \in folder : f.id = keep[c] /\ NewVersion(c, f)
    BY DEF Update, Applied, serverVars
  <1>6. CASE UNCHANGED folder /\ reply # "ok" /\ ~Enter(c, "relist")
    <2>1. UNCHANGED pc
      BY <1>2, <1>6
    <2>2. BodiesBy(c)' = BodiesBy(c) /\ BodiesBy("before")' = BodiesBy("before")
      BY <1>6 DEF BodiesBy
    <2> QED BY <1>1, <1>6, <2>1, <2>2, QuietStep
  <1>7. CASE (\E f \in folder : f.id = keep[c] /\ NewVersion(c, f))
             /\ ~Enter(c, "relist")
    <2>1. PICK f \in folder : f.id = keep[c] /\ NewVersion(c, f)
      BY <1>7
    <2> DEFINE g == [f EXCEPT !.fmt = LocalExt[c], !.by = c, !.mtime = clock + 1]
    <2>2. f \in File
      BY DEF TypeInv, KindInv, FolderIsFiles
    <2>3. g.id = f.id /\ g.ext = f.ext /\ g.by = c
      BY <2>2 DEF File
    <2>4. folder' = (folder \ {f}) \cup {g}
      BY <2>1 DEF NewVersion
    <2>5. f.ext # "pdf" /\ \A h \in folder : h.id = keep[c] => h = f
      BY <2>1, WhatIsListed
    <2> HIDE DEF g
    <2>6. pc'[c] = "update" \/ pc'[c] = "collapse"
      BY <1>1, <1>2, <1>7 DEF Enter, TypeInv, Control
    <2>7. g \in Documents(folder') /\ g.id = keep[c] /\ g \in BodiesBy(c)'
      BY <2>1, <2>3, <2>4, <2>5 DEF Documents, BodiesBy
    <2>8. /\ BodiesBy(c)' \subseteq BodiesBy(c) \cup {g}
          /\ c # "before"
          /\ \A h \in BodiesBy("before")' : h \in BodiesBy("before") /\ h # f
      BY <2>3, <2>4, UpsertAssumption DEF BodiesBy, Documents
    <2>9. \A h \in BodiesBy("before")' : h.id # keep[c]
      BY <2>5, <2>8 DEF BodiesBy, Documents
    <2>10. KeeperIsThere(c)' /\ Left(c)'
      BY <1>1, <1>3, <2>6, <2>7 DEF WriterInv, KeeperIsThere, Left
    <2>11. ASSUME edits' = 0 PROVE Accounted(c)'
      <3>1. /\ lostPosts[c] = 0
            /\ \A h \in BodiesBy("before") : h.id = keep[c] \/ h.id \in ToSet(todo[c])
            /\ \A h \in BodiesBy(c) : h.id = keep[c]
        BY <1>1, <2>11 DEF WriterInv, Accounted
      <3>2. \A h \in BodiesBy("before")' : h.id \in ToSet(todo[c])
        BY <2>8, <2>9, <3>1
      <3>3. \A h \in BodiesBy(c)' : h.id = keep[c]
        BY <2>7, <2>8, <3>1
      <3> QED BY <1>1, <1>3, <2>6, <2>7, <3>1, <3>2, <3>3 DEF Accounted
    <2> QED BY <2>10, <2>11 DEF WriterInv
  <1> QED BY <1>4, <1>5, <1>6, <1>7

\* One deletion: an id leaves the plan only when its file has left the folder.
LEMMA DeletionStep ==
  ASSUME TypeInv, NEW c \in Clients, WriterInv(c), Counters,
         NEW reply, Delete(c, reply)
  PROVE  WriterInv(c)'
  <1> DEFINE id == Head(todo[c])
  <1>1. /\ pc[c] \in {"clear", "collapse"} /\ todo[c] # <<>>
        /\ UNCHANGED <<keep, edits, lostPosts>>
        /\ \/ UNCHANGED folder /\ reply # "ok"
           \/ folder' = {f \in folder : f.id # id}
    BY DEF Delete, Applied, Unlink, serverVars
  <1>2. todo[c] \in Seq(1 .. nextId - 1)
    BY DEF TypeInv, TodoGiven
  <1>3. ToSet(todo[c]) = {id} \cup ToSet(Tail(todo[c]))
    BY <1>1, <1>2, HeadAndTail
  <1> HIDE DEF id
  <1>4. \/ /\ reply = "ok" /\ todo' = [todo EXCEPT ![c] = Tail(@)]
           /\ Enter(c, pc[c]) /\ UNCHANGED result
        \/ Finish(c, "error")
        \/ UNCHANGED <<pc, todo, result>>
    BY DEF Delete, RetryOrVary
  <1>5. CASE Finish(c, "error")
    BY <1>5, GivesUp
  <1>6. CASE ~Finish(c, "error")
    <2>1. /\ pc'[c] = pc[c] /\ result'[c] = result[c] /\ result[c] = "none"
          /\ ToSet(todo'[c]) \subseteq ToSet(todo[c])
      BY <1>1, <1>3, <1>4, <1>6 DEF Enter, TypeInv, Control, TodoGiven
    <2>2. folder' \subseteq folder
      BY <1>1
    <2>3. \A f \in folder' : f.id \in ToSet(todo[c]) => f.id \in ToSet(todo'[c])
      <3>1. CASE UNCHANGED todo
        BY <3>1
      <3>2. CASE reply = "ok" /\ todo' = [todo EXCEPT ![c] = Tail(@)]
        <4>1. todo'[c] = Tail(todo[c])
          BY <3>2 DEF TypeInv, TodoGiven
        <4>2. \A f \in folder' : f.id # id
          BY <1>1, <3>2
        <4> QED BY <1>3, <4>1, <4>2
      <3> QED BY <1>4, <1>6, <3>1, <3>2
    <2>4. \A f \in folder : f.id \notin ToSet(todo[c]) => f \in folder'
      BY <1>1, <1>3
    <2>5. ASSUME pc[c] = "collapse"
          PROVE  /\ keep[c] \notin ToSet(todo'[c])
                 /\ \E f \in Documents(folder') : f.id = keep[c]
      BY <2>1, <2>4, <2>5 DEF WriterInv, KeeperIsThere, Documents
    <2>6. KeeperIsThere(c)' /\ Left(c)'
      BY <1>1, <2>1, <2>5 DEF KeeperIsThere, Left
    <2>7. ASSUME edits' = 0 PROVE Accounted(c)'
      <3>1. Accounted(c) /\ edits = 0
        BY <1>1, <2>7 DEF WriterInv
      <3>2. /\ BodiesBy("before")' = BodiesBy("before") \cap folder'
            /\ BodiesBy(c)' = BodiesBy(c) \cap folder'
        BY <2>2 DEF BodiesBy, Documents
      <3>3. CASE pc[c] = "clear"
        BY <1>1, <2>1, <2>3, <3>1, <3>2, <3>3 DEF Accounted
      <3>4. CASE pc[c] = "collapse"
        <4>1. PICK f \in BodiesBy(c) : f.id = keep[c]
          BY <3>1, <3>4 DEF Accounted
        <4>2. f \in folder
          BY DEF BodiesBy, Documents
        <4>3. keep[c] \notin ToSet(todo[c])
          BY <3>4 DEF WriterInv, KeeperIsThere
        <4>4. f \in BodiesBy(c)'
          BY <2>4, <3>2, <4>1, <4>2, <4>3
        <4> QED BY <1>1, <2>1, <2>3, <3>1, <3>2, <3>4, <4>1, <4>4 DEF Accounted
      <3> QED BY <1>1, <3>3, <3>4
    <2> QED BY <2>6, <2>7 DEF WriterInv
  <1> QED BY <1>5, <1>6

\* Nothing is left to delete.
LEMMA ClearedStep ==
  ASSUME TypeInv, NEW c \in Clients, WriterInv(c), Counters, Cleared(c)
  PROVE  WriterInv(c)'
  <1>1. /\ pc[c] \in {"clear", "collapse"} /\ todo[c] = <<>>
        /\ UNCHANGED <<folder, keep, todo, edits, lostPosts>>
        /\ \/ pc[c] = "clear" /\ Enter(c, "upload") /\ UNCHANGED result
           \/ pc[c] = "collapse" /\ Finish(c, "ok")
    BY DEF Cleared, serverVars, planVars
  <1>2. ToSet(todo[c]) = {}
    BY <1>1 DEF ToSet
  <1>3. BodiesBy(c)' = BodiesBy(c) /\ BodiesBy("before")' = BodiesBy("before")
    BY <1>1 DEF BodiesBy
  <1>4. CASE pc[c] = "clear"
    <2>1. pc'[c] = "upload" /\ result'[c] = "none"
      BY <1>1, <1>4 DEF Enter, TypeInv, Control
    <2>2. ASSUME edits' = 0 PROVE Accounted(c)'
      <3>1. /\ BodiesBy("before") = {} /\ BodiesBy(c) = {} /\ lostPosts[c] = 0
        BY <1>1, <1>2, <1>4, <2>2 DEF WriterInv, Accounted
      <3>2. Cardinality(BodiesBy(c)) = 0
        BY <3>1, FS_EmptySet
      <3> QED BY <1>1, <1>3, <2>1, <3>1, <3>2 DEF Accounted
    <2> QED BY <2>1, <2>2 DEF WriterInv, KeeperIsThere, Left
  <1>5. CASE pc[c] = "collapse"
    <2>1. pc'[c] = "done" /\ result'[c] = "ok"
      BY <1>1, <1>5 DEF Finish, Enter, TypeInv, Control
    <2>2. \E f \in Documents(folder) : f.id = keep[c]
      BY <1>5 DEF WriterInv, KeeperIsThere
    <2>3. Left(c)'
      BY <1>1, <2>2 DEF Left
    <2>4. ASSUME edits' = 0 PROVE Accounted(c)'
      <3>1. /\ BodiesBy("before") = {} /\ lostPosts[c] = 0
            /\ \A f \in BodiesBy(c) : f.id = keep[c]
            /\ \E f \in BodiesBy(c) : f.id = keep[c]
        BY <1>1, <1>2, <1>5, <2>4 DEF WriterInv, Accounted
      <3>2. \A f, g \in BodiesBy(c) : f = g
        BY <3>1, WhatIsListed DEF BodiesBy, Documents
      <3>3. \E f : BodiesBy(c) = {f}
        BY <3>1, <3>2
      <3>4. Cardinality(BodiesBy(c)) = 1
        BY <3>3, FS_Singleton
      <3> QED BY <1>1, <1>3, <2>1, <3>1, <3>4 DEF Accounted
    <2> QED BY <2>1, <2>3, <2>4 DEF WriterInv, KeeperIsThere
  <1> QED BY <1>1, <1>4, <1>5

\* The fresh upload: one more body of c for each answer lost, and the last.
LEMMA FreshStep ==
  ASSUME TypeInv, NEW c \in Clients, WriterInv(c), Counters,
         NEW reply, Upload(c, reply)
  PROVE  WriterInv(c)'
  <1>1. /\ pc[c] = "upload" /\ UNCHANGED <<keep, todo, edits>>
        /\ \/ Finish(c, "ok") /\ reply = "ok"
           \/ Finish(c, "error")
           \/ UNCHANGED <<pc, result>> /\ reply # "ok"
    BY DEF Upload, planVars, RetryOrVary
  <1>2. result[c] = "none"
    BY <1>1 DEF TypeInv, Control
  <1>3. CASE Finish(c, "error")
    BY <1>3, GivesUp
  <1>4. CASE ~Applied(reply) /\ ~Finish(c, "error")
    <2>1. UNCHANGED <<folder, lostPosts>> /\ reply # "ok"
      BY <1>4 DEF Upload, serverVars, Applied
    <2>2. BodiesBy(c)' = BodiesBy(c) /\ BodiesBy("before")' = BodiesBy("before")
      BY <2>1 DEF BodiesBy
    <2> QED BY <1>1, <1>4, <2>1, <2>2, QuietStep
  <1>5. CASE Applied(reply) /\ ~Finish(c, "error")
    <2> DEFINE g == [id |-> nextId, ext |-> Stored(LocalExt[c]),
                     fmt |-> Stored(LocalExt[c]), by |-> c, mtime |-> clock + 1]
    <2>1. folder' = folder \cup {g}
      BY <1>5 DEF Upload, AddFile
    <2>2. g.id = nextId /\ g.by = c /\ g.ext # "pdf"
      BY UpsertAssumption DEF Stored
    <2>3. lostPosts' = IF reply # "ok"
                         THEN [lostPosts EXCEPT ![c] = @ + 1] ELSE lostPosts
      BY <1>5 DEF Upload
    <2> HIDE DEF g
    <2>4. g \notin folder /\ c # "before"
      BY <2>2, WhatIsListed, UpsertAssumption
    <2>5. /\ BodiesBy(c)' = BodiesBy(c) \cup {g}
          /\ g \notin BodiesBy(c)
          /\ BodiesBy("before")' = BodiesBy("before")
          /\ Documents(folder') # {}
      BY <2>1, <2>2, <2>4 DEF BodiesBy, Documents
    <2>6. IsFiniteSet(BodiesBy(c))
      <3>1. BodiesBy(c) \in SUBSET folder
        BY DEF BodiesBy, Documents
      <3> QED BY <3>1, WhatIsListed, FS_Subset DEF Listing
    <2>7. Cardinality(BodiesBy(c)') = Cardinality(BodiesBy(c)) + 1
      BY <2>5, <2>6, FS_AddElement
    <2>8. KeeperIsThere(c)'
      BY <1>1, <1>5 DEF KeeperIsThere, Finish, Enter, TypeInv, Control
    <2>9. Left(c)'
      BY <2>5 DEF Left
    <2>10. ASSUME edits' = 0 PROVE Accounted(c)'
      <3>1. /\ BodiesBy("before") = {}
            /\ Cardinality(BodiesBy(c)) = lostPosts[c]
            /\ lostPosts[c] \in Nat
        BY <1>1, <2>10 DEF WriterInv, Accounted, Counters
      <3>2. CASE reply = "ok"
        <4>1. pc'[c] = "done" /\ result'[c] = "ok" /\ lostPosts'[c] = lostPosts[c]
          BY <1>1, <1>5, <2>3, <3>2 DEF Finish, Enter, TypeInv, Control
        <4> QED BY <2>5, <2>7, <3>1, <4>1 DEF Accounted
      <3>3. CASE reply # "ok"
        <4>1. /\ pc'[c] = "upload" /\ result'[c] = "none"
              /\ lostPosts'[c] = lostPosts[c] + 1
          BY <1>1, <1>2, <1>5, <2>3, <3>3 DEF Counters
        <4> QED BY <2>5, <2>7, <3>1, <4>1 DEF Accounted
      <3> QED BY <3>2, <3>3
    <2> QED BY <2>8, <2>9, <2>10 DEF WriterInv
  <1> QED BY <1>3, <1>4, <1>5

LEMMA OwnStep ==
  ASSUME TypeInv, NEW c \in Clients, Mode[c] = "replace", WriterInv(c), Counters,
         Step(c)
  PROVE  WriterInv(c)'
  <1>1. CASE ListFails(c) \/ UploadUnreadable(c)
    BY <1>1, GivesUp DEF ListFails, UploadUnreadable
  <1>2. CASE UpdateUnreadable(c)
    BY <1>2, ListsAgain DEF UpdateUnreadable
  <1>3. ~ListToAssert(c) /\ ~ListToDedupe(c)
    BY DEF ListToAssert, ListToDedupe
  <1> QED BY <1>1, <1>2, <1>3, PlanStep, RelistStep, InPlaceStep, DeletionStep,
             ClearedStep, FreshStep DEF Step

-----------------------------------------------------------------------------
(* The invariant, and what it says of a replacing upload                   *)

WritersInv == \A c \in Clients : OnlyWriter(c) => WriterInv(c)

ReplaceInv == TypeInv /\ Counters /\ NoClobberIsSimple /\ WritersInv

LEMMA ReplaceInitially == Init => ReplaceInv
  <1> SUFFICES ASSUME Init PROVE ReplaceInv
    OBVIOUS
  <1>1. TypeInv
    BY TypeInitially
  <1>2. Counters /\ NoClobberIsSimple
    BY DEF Init, Counters, NoClobberIsSimple
  <1>3. ASSUME NEW c \in Clients PROVE WriterInv(c)
    <2>1. pc[c] = "list" /\ result[c] = "none" /\ lostPosts[c] = 0
      BY DEF Init
    <2>2. \A f \in folder : f.by = "before"
      BY InitialAssumption DEF Init
    <2>3. BodiesBy(c) = {}
      BY <2>2, UpsertAssumption DEF BodiesBy, Documents
    <2> QED BY <2>1, <2>3 DEF WriterInv, KeeperIsThere, Left, Accounted
  <1> QED BY <1>1, <1>2, <1>3 DEF ReplaceInv, WritersInv

LEMMA ReplaceStep == ReplaceInv /\ [Next]_vars => ReplaceInv'
  <1> SUFFICES ASSUME ReplaceInv, [Next]_vars PROVE ReplaceInv'
    OBVIOUS
  <1> USE DEF ReplaceInv
  <1>1. TypeInv' /\ Counters' /\ NoClobberIsSimple'
    BY TypeStep, CountersStep, SimpleStep DEF TypeInv
  <1>2. ASSUME NEW c \in Clients, OnlyWriter(c) PROVE WriterInv(c)'
    <2>1. WriterInv(c)
      BY <1>2 DEF WritersInv
    <2>2. ASSUME NEW d \in Clients, Step(d) PROVE WriterInv(c)'
      <3>1. CASE d = c
        BY <1>2, <2>1, <2>2, <3>1, OwnStep DEF OnlyWriter
      <3>2. CASE d # c
        BY <1>2, <2>1, <2>2, <3>2, OtherStep
      <3> QED BY <3>1, <3>2
    <2>3. CASE Edit
      BY <2>1, <2>3, EditStep
    <2>4. CASE UNCHANGED vars
      <3>1. UNCHANGED <<folder, pc, keep, todo, result, edits, lostPosts>>
        BY <2>4 DEF vars, serverVars, planVars
      <3> QED BY <2>1, <3>1 DEF WriterInv, KeeperIsThere, Left, Accounted, BodiesBy
    <2> QED BY <2>2, <2>3, <2>4 DEF Next
  <1> QED BY <1>1, <1>2 DEF WritersInv, OnlyWriter

LEMMA ReplaceInvariant == Spec => []ReplaceInv
  BY ReplaceInitially, ReplaceStep, PTL DEF Spec

\* UploadToFolderReplacing (files_stem.go) while it updates in place and then
\* deletes the duplicates: the folder is never without the document, among any
\* number of no-clobber uploads and web edits, and whatever requests fail.
THEOREM InPlaceKeepsTheDocument ==
  ASSUME OneWriter
  PROVE  Spec => []InPlaceHasNoWindow
  <1>1. ReplaceInv => InPlaceHasNoWindow
    <2> SUFFICES ASSUME ReplaceInv, NEW c \in Clients,
                        pc[c] \in {"update", "collapse"}, Mode[c] = "replace"
                 PROVE  Matches(folder, LocalExt[c]) # {}
      BY DEF InPlaceHasNoWindow
    <2>1. KeeperIsThere(c)
      BY DEF ReplaceInv, WritersInv, OneWriter, WriterInv
    <2>2. Documents(folder) # {}
      BY <2>1 DEF KeeperIsThere
    <2> QED BY <2>2, WhatIsListed DEF ReplaceInv
  <1> QED BY <1>1, ReplaceInvariant, PTL

\* A replacing upload that reports success has left its own body under the
\* name: once, and once more for each upload whose answer was lost on the way
\* (files_stem.go, UploadToFolderReplacing; the retries are those of files.go),
\* and no body from before the operation.
THEOREM ReplacementLeavesItsBody ==
  ASSUME OneWriter
  PROVE  Spec => []OkLeavesMyBody
  <1>1. ReplaceInv => OkLeavesMyBody
    <2> SUFFICES ASSUME ReplaceInv, NEW c \in Clients, Mode[c] = "replace",
                        result[c] = "ok", edits = 0
                 PROVE  LET found == Matches(folder, LocalExt[c])
                        IN  /\ \A f \in found : f.by # "before"
                            /\ Cardinality({f \in found : f.by = c})
                                 = 1 + lostPosts[c]
      BY DEF OkLeavesMyBody
    <2>1. BodiesBy("before") = {} /\ Cardinality(BodiesBy(c)) = 1 + lostPosts[c]
      BY DEF ReplaceInv, WritersInv, OneWriter, WriterInv, Accounted
    <2>2. Matches(folder, LocalExt[c]) = Documents(folder)
      BY WhatIsListed DEF ReplaceInv
    <2> QED BY <2>1, <2>2 DEF BodiesBy
  <1> QED BY <1>1, ReplaceInvariant, PTL

-----------------------------------------------------------------------------
(* Several operations that all succeed                                     *)

\* Among no-clobber uploads alone nothing is ever deleted.
AddedStays ==
    (\A c \in Clients : Mode[c] = "noClobber") =>
        \A c \in Clients :
            result[c] \in {"ok", "exists"} => Documents(folder) # {}

LEMMA AddedStaysStep ==
  ASSUME ReplaceInv, AddedStays, [Next]_vars
  PROVE  AddedStays'
  <1> SUFFICES ASSUME \A c \in Clients : Mode[c] = "noClobber",
                      \A c \in Clients : result[c] \in {"ok", "exists"}
                                           => Documents(folder) # {}
               PROVE  \A c \in Clients : result'[c] \in {"ok", "exists"}
                                           => Documents(folder') # {}
    BY DEF AddedStays
  <1>1. TypeInv /\ Control
    BY DEF ReplaceInv, TypeInv
  <1>2. ASSUME UNCHANGED folder \/ Rewritten, UNCHANGED result
        PROVE  \A c \in Clients : result'[c] \in {"ok", "exists"}
                                    => Documents(folder') # {}
    BY <1>2 DEF Rewritten, Documents
  <1>3. ASSUME Added PROVE Documents(folder') # {}
    BY <1>3 DEF Added, Documents
  <1>4. ASSUME NEW d \in Clients, Step(d)
        PROVE  \A c \in Clients : result'[c] \in {"ok", "exists"}
                                    => Documents(folder') # {}
    <2>1. pc[d] \in {"list", "upload", "done"}
      BY DEF ReplaceInv, NoClobberIsSimple
    <2>2. ASSUME Finish(d, "error"), UNCHANGED folder
          PROVE  \A c \in Clients : result'[c] \in {"ok", "exists"}
                                      => Documents(folder') # {}
      BY <1>1, <2>2 DEF Finish, Control
    <2>3. CASE ListFails(d) \/ UploadUnreadable(d)
      BY <2>2, <2>3 DEF ListFails, UploadUnreadable, serverVars
    <2>4. CASE ListToAssert(d)
      <3>1. UNCHANGED folder
        BY <2>4 DEF ListToAssert, serverVars
      <3>2. CASE Documents(folder) = {}
        <4>1. UNCHANGED result
          BY <1>1, <2>4, <3>2, WhatIsListed DEF ListToAssert
        <4> QED BY <1>2, <3>1, <4>1
      <3>3. CASE Documents(folder) # {}
        BY <3>1, <3>3
      <3> QED BY <3>2, <3>3
    <2>5. ASSUME NEW reply, Upload(d, reply)
          PROVE  \A c \in Clients : result'[c] \in {"ok", "exists"}
                                      => Documents(folder') # {}
      <3>1. CASE Applied(reply)
        <4>1. Added
          BY <1>1, <2>5, <3>1, AddFileAdds DEF Upload, TypeInv, TimesGiven
        <4> QED BY <1>3, <4>1
      <3>2. CASE ~Applied(reply)
        <4>1. UNCHANGED folder /\ (Finish(d, "error") \/ UNCHANGED result)
          BY <2>5, <3>2 DEF Upload, Applied, serverVars
        <4> QED BY <1>2, <2>2, <4>1
      <3> QED BY <3>1, <3>2
    <2>6. ~ListToReplace(d) /\ ~ListToDedupe(d) /\ ~UpdateUnreadable(d)
          /\ ~Relist(d) /\ ~Cleared(d)
      BY <2>1 DEF ListToReplace, ListToDedupe, UpdateUnreadable, Relist, Cleared
    <2>7. ASSUME NEW reply PROVE ~Update(d, reply) /\ ~Delete(d, reply)
      BY <2>1 DEF Update, Delete
    <2> QED BY <1>4, <2>3, <2>4, <2>5, <2>6, <2>7 DEF Step
  <1>5. CASE Edit
    BY <1>1, <1>2, <1>5, EditRewrites DEF Edit, TypeInv, TimesGiven
  <1>6. CASE UNCHANGED vars
    BY <1>2, <1>6 DEF vars, serverVars
  <1> QED BY <1>4, <1>5, <1>6 DEF Next

\* Any number of uploads, at most one of them replacing, that all report
\* success leave the document in the folder, even through web edits.  (Several
\* replacing uploads on stale listings can delete each other's keepers.)
THEOREM UploadsLeaveTheDocument ==
  ASSUME OneWriter, NobodyCleansUp
  PROVE  Spec => []SuccessLeavesTheDocument
  <1>1. Init => AddedStays
    BY DEF Init, AddedStays
  <1>2. ReplaceInv /\ AddedStays /\ [Next]_vars => AddedStays'
    BY AddedStaysStep
  <1>3. ReplaceInv /\ AddedStays => SuccessLeavesTheDocument
    <2> SUFFICES ASSUME ReplaceInv, AddedStays,
                        \A c \in Clients : result[c] \in {"ok", "exists"},
                        AllDone, NEW c \in Clients
                 PROVE  Matches(folder, LocalExt[c]) # {}
      BY DEF SuccessLeavesTheDocument
    <2>1. Documents(folder) # {}
      <3>1. CASE \E d \in Clients : Mode[d] = "replace"
        <4>1. PICK d \in Clients : Mode[d] = "replace"
          BY <3>1
        <4>2. result[d] \in {"ok", "exists"} => Documents(folder) # {}
          BY <4>1 DEF ReplaceInv, WritersInv, OneWriter, WriterInv, Left
        <4> QED BY <4>2
      <3>2. CASE \A d \in Clients : Mode[d] # "replace"
        <4>1. \A d \in Clients : Mode[d] = "noClobber"
          BY <3>2, UpsertAssumption DEF NobodyCleansUp
        <4> QED BY <4>1 DEF AddedStays
      <3> QED BY <3>1, <3>2
    <2> QED BY <2>1, WhatIsListed DEF ReplaceInv
  <1> QED BY <1>1, <1>2, <1>3, ReplaceInvariant, PTL DEF Spec
================================================================================
