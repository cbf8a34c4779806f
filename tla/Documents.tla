------------------------------ MODULE Documents ------------------------------
(***************************************************************************)
(* Documents: folders and files of a portal, and the commands that work on *)
(* them: oo dav, oo projects files, oo tasks files and oo docs, with the   *)
(* client methods and the two stores (REST, WebDAV) below them.            *)
(*                                                                         *)
(* Folders and files are numbered apart: one number may name a folder and  *)
(* a file.  A file is its logical name (FolderUpsert has the extensions),  *)
(* its folder, its body and the time of its last change (0: none is known).*)
(* disk is the user's own disk, which does not fail: a file of it is whole,*)
(* or cut off (Partial) while it is being written.                         *)
(***************************************************************************)
EXTENDS Scripts, FiniteSets, FiniteSetsExt, SequencesExt

Root    == 0
Partial == [whole |-> FALSE, body |-> ""]
Whole(body) == [whole |-> TRUE, body |-> body]

NewFile(name, folder, body, time) == [name |-> name, in |-> folder, body |-> body, time |-> time]
NewFolder(name, parent) == [name |-> name, parent |-> parent, trash |-> FALSE]

-----------------------------------------------------------------------------
(* The portal.                                                             *)

\* A folder and all that is below it.
Inside(p, folder) ==
    LET grow[n \in Nat] == IF n = 0 THEN {folder}
                           ELSE grow[n - 1] \cup {f \in DOMAIN p.folders : p.folders[f].parent \in grow[n - 1]}
    IN  grow[Cardinality(DOMAIN p.folders)]

DropFolder(p, id) ==
    [p EXCEPT !.folders = Drop(@, Inside(p, id)),
              !.files = Drop(@, {f \in DOMAIN @ : @[f].in \in Inside(p, id)})]

FilesIn(p, folder)   == {f \in DOMAIN p.files : p.files[f].in = folder}
FoldersIn(p, folder) == {f \in DOMAIN p.folders : p.folders[f].parent = folder}

\* A name that is taken at the destination is skipped.
Taken(p, folder, name) == \E f \in FilesIn(p, folder) : p.files[f].name = name
Moving(p, ids, dest) == {f \in ids : ~Taken(p, dest, p.files[f].name)}

MoveItems(p, r) ==
    [p EXCEPT !.files = [f \in DOMAIN @ |->
                            IF f \in Moving(p, r.val.files, r.at) THEN [@[f] EXCEPT !.in = r.at] ELSE @[f]],
              !.folders = [f \in DOMAIN @ |->
                            IF f \in r.val.folders THEN [@[f] EXCEPT !.parent = r.at] ELSE @[f]]]

WithCopies(f, copies) == [i \in DOMAIN f \cup DOMAIN copies |-> IF i \in DOMAIN copies THEN copies[i] ELSE f[i]]

\* Folders are copied empty here.
CopyItems(p, r) ==
    LET files   == SetToSeq(Moving(p, r.val.files, r.at))
        folders == SetToSeq(r.val.folders)
        after   == p.next + Len(files)
        newFiles   == [i \in p.next .. after - 1 |->
                         [p.files[files[i - p.next + 1]] EXCEPT !.in = r.at, !.time = i]]
        newFolders == [i \in after .. after + Len(folders) - 1 |->
                         [p.folders[folders[i - after + 1]] EXCEPT !.parent = r.at]]
    IN  [p EXCEPT !.files   = WithCopies(@, newFiles),
                  !.folders = WithCopies(@, newFolders),
                  !.next    = after + Len(folders)]

Upload(p, folder, doc) == Add(p, "files", NewFile(doc.name, folder, doc.body, NewId(p)))

Update(p, id, body) ==
    [p EXCEPT !.files[id].body = body, !.files[id].time = NewId(p), !.next = @ + 1]

DocumentsEffect(p, r) ==
    CASE r.op = "upload"        -> Upload(p, r.at, r.val)
      [] r.op = "update"        -> Update(p, r.at, r.val.body)
      [] r.op = "mkdir"         -> Add(p, "folders", NewFolder(r.val, r.at))
      [] r.op = "move items"    -> MoveItems(p, r)
      [] r.op = "copy items"    -> CopyItems(p, r)
      [] r.op = "rename folder" -> [p EXCEPT !.folders[r.at].name = r.val]
      [] r.op = "rename file"   -> [p EXCEPT !.files[r.at].name = r.val]
      [] r.op = "drop folder"   -> DropFolder(p, r.at)
      [] r.op = "drop file"     -> [p EXCEPT !.files = Drop(@, {r.at})]
      [] r.op = "attach file"   -> [p EXCEPT !.tasks[r.at].files = @ \cup {r.val}]
      [] r.op = "detach file"   -> [p EXCEPT !.tasks[r.at].files = @ \ {r.val}]
      [] r.op = "open"          -> [p EXCEPT !.disk = Put(@, r.at, Partial)]
      [] r.op = "fetch"         -> [p EXCEPT !.disk = Put(@, r.val, Whole(p.files[r.at].body))]
      [] r.op = "write"         -> [p EXCEPT !.disk = Put(@, r.at, Whole(r.val))]
      [] r.op = "remove"        -> [p EXCEPT !.disk = Drop(@, {r.at})]
      [] OTHER                  -> p

AtFile   == {"update", "rename file", "drop file", "file", "read", "fetch", "presigned"}
AtFolder == {"upload", "mkdir", "move items", "copy items", "list", "rename folder", "drop folder"}
AtTask   == {"attach file", "detach file", "files of task"}

\* The converter takes what it can read.
DocumentsAccepts(p, r) ==
    CASE r.op \in AtFile   -> r.at \in DOMAIN p.files
      [] r.op \in AtFolder -> /\ r.at \in DOMAIN p.folders
                              /\ r.op \in {"move items", "copy items"} =>
                                    r.val.folders \subseteq DOMAIN p.folders /\ r.val.files \subseteq DOMAIN p.files
      [] r.op \in AtTask   -> /\ r.at \in DOMAIN p.tasks
                              /\ r.op = "attach file" => r.val \in DOMAIN p.files
      [] r.op = "convert"  -> r.val # "unreadable"
      [] OTHER             -> r.op # "give up"

DocumentsCreates == {"upload", "mkdir", "copy items"}

-----------------------------------------------------------------------------
(* What a number names.                                                    *)

GiveUp == Must("give up", 0, 0)

\* job: what is to be done with the numbers, once all of them are looked up.
Job(op, ids, arg) == [op |-> op, ids |-> ids, arg |-> arg, folders |-> <<>>, files |-> <<>>]

\* A folder answers its listing; else the number is taken for a file.
Stat(job) == <<For("stat", Must("dir", Head(job.ids), [job EXCEPT !.ids = Tail(@)]))>>
StatFile(r) == <<For("stat file", Must("file", r.at, r.val))>>

DeleteFiles(ids) == ForEach(ids, LAMBDA f : Must("drop file", f, 0))
DeleteDavItems(folders, files) ==
    ForEach(folders, LAMBDA f : Must("drop folder", f, 0)) \o DeleteFiles(files)

\* Mutant: the local file stays.
LeftThere(r) == <<GiveUp>>

\* The local file is made first, and removed when the download fails.  The body comes in one
\* step: two downloads that write to one path at a time are not told apart.
FetchTo(file, path) ==
    <<Must("open", path, 0), For("body", Must("file", file, path)), For("body", Must("fetch", file, path))>>
DownloadFailed(r) == <<Must("remove", r.val, 0), GiveUp>>

\* Split into folders and files, the job is done.
Split(job) ==
    LET items == [folders |-> ToSet(job.folders), files |-> ToSet(job.files)]
    IN  CASE job.op = "delete" -> DeleteDavItems(job.folders, job.files)
          [] job.op = "rename" -> IF job.folders # <<>> THEN <<Must("rename folder", Head(job.folders), job.arg)>>
                                  ELSE <<Must("rename file", Head(job.files), job.arg)>>
          [] job.op = "download" -> FetchTo(Head(job.folders \o job.files), job.arg)
          [] OTHER             -> <<Must(job.op, job.arg, items)>>

Looked(job) == IF job.ids = <<>> THEN Split(job) ELSE Stat(job)

Stated(p, r) ==
    IF r.at \in DOMAIN p.folders THEN Looked([r.val EXCEPT !.folders = Append(@, r.at)])
                                 ELSE StatFile(r)
StatedFile(r) == Looked([r.val EXCEPT !.files = Append(@, r.at)])

DavMove(dest, ids) == Stat(Job("move items", ids, dest))
DavCopy(dest, ids) == Stat(Job("copy items", ids, dest))
DavRemove(files, folders) == Stat(Job("delete", files \o folders, 0))
DavRename(id, name) == Stat(Job("rename", <<id>>, name))
DavDownload(file, path) == Stat(Job("download", <<file>>, path))
PrjFilesDelete(files) == Stat(Job("delete", files, 0))
PrjFilesRename(id, name) == DavRename(id, name) \o Stat(Job("look", <<id>>, 0))

\* Commands that read once and print.
DavLs(folder)         == <<Must("list", folder, 0)>>
PrjFilesList(project) == <<Must("project files", project, 0)>>
TaskFilesList(task)   == <<Must("files of task", task, 0)>>
DavFileOps            == <<Must("operations", 0, 0)>>

-----------------------------------------------------------------------------
(* Folders                                                                 *)

DavMkdir(parent, name) == <<Must("mkdir", parent, name)>>

\* Segment by segment: a folder of that name is taken, whichever is listed first, or made.
EnsurePath(parent, names) ==
    IF names = <<>> THEN Nothing ELSE <<For("segment", Must("list", parent, names))>>

Segment(p, r) ==
    LET found == {f \in FoldersIn(p, r.at) : p.folders[f].name = Head(r.val)}
    IN  IF found # {} THEN {EnsurePath(f, Tail(r.val)) : f \in found}
        ELSE {<<[For("made", Must("mkdir", r.at, Head(r.val))) EXCEPT !.extra = Tail(r.val)]>>}

DavEnsurePath(parent, names) == <<Must("sections", 0, 0)>> \o EnsurePath(parent, names)

-----------------------------------------------------------------------------
(* Uploads                                                                 *)

Doc(name, body) == [name |-> name, body |-> body]
UploadToFolder(folder, doc) == <<Either(Must("upload", folder, doc))>>

Matching(p, folder, doc) == {f \in FilesIn(p, folder) : p.files[f].name = doc.name}

\* The one whose last change is known and latest; without one, any.
Newest(p, files) == {f \in files : \A g \in files : p.files[g].time <= p.files[f].time}

DeleteThenUpload(p, r) ==
    DeleteFiles(SetToSeq(Matching(p, r.at, r.val))) \o UploadToFolder(r.at, r.val)

UploadToFolderReplacing(folder, doc) == <<For("replace", Must("list", folder, doc))>>

\* The newest file of the name is updated (four endpoints), the others are deleted; when its
\* extension is another one, all of them are deleted and the file is uploaded.
Replace(p, r) ==
    LET found == Matching(p, r.at, r.val)
        Updating(keep) == <<[For("updated", Must("update", keep,
                                   [name |-> r.val.name, body |-> r.val.body, folder |-> r.at]))
                               EXCEPT !.ways = 4, !.extra = SetToSeq(found \ {keep})]>>
    IN  IF found = {} THEN {UploadToFolder(r.at, r.val)}
        ELSE {Updating(keep) : keep \in Newest(p, found)} \cup {DeleteThenUpload(p, r)}

\* The update is refused: everything of the name goes, and the file is uploaded.
UpdateRefused(r) == <<For("replace all", Must("list", r.val.folder, Doc(r.val.name, r.val.body)))>>
ReplaceIn(folder, doc) == <<For("replace all", Must("list", folder, doc))>>

UploadNoClobber(folder, doc) == <<For("no clobber", Must("list", folder, doc))>>

UploadLocal(folder, docs, replace) ==
    FlattenSeq(ForEach(docs, LAMBDA doc :
        IF replace THEN UploadToFolderReplacing(folder, doc) ELSE UploadNoClobber(folder, doc)))

\* The folder of a project, and what to do there: "replace", "no clobber", "upload", "dedupe"
\* or to attach the file to a task.
ToProject(project, doc, how) == <<[For("root", Must("project", project, doc)) EXCEPT !.extra = <<how>>]>>

\* The folders of a project are listed one after the other, from the root.
ListNext(folders, state) ==
    IF folders = <<>> THEN Nothing
    ELSE <<[For("folder files", Must("list", Head(folders), state)) EXCEPT !.extra = Tail(folders)]>>

\* Nothing of the name was there: the folder is looked up again for the upload itself.
InFolder(folder, r) ==
    CASE r.extra = <<"replace">>    -> UploadToFolderReplacing(folder, r.val)
      [] r.extra = <<"no clobber">> -> <<[For("then upload", Must("list", folder, r.val)) EXCEPT !.extra = <<r.at>>]>>
      [] r.extra = <<"upload">>     -> UploadToFolder(folder, r.val)
      [] r.extra = <<"dedupe">>     -> ListNext(<<folder>> \o Remove(r.val.listed, folder), r.val)
      [] OTHER -> <<[For("attach", Either(Must("upload", folder, r.val))) EXCEPT !.extra = r.extra]>>

\* Without a folder of its own, the first one of the project's listing.
ProjectFolder(p, r) ==
    IF p.projects[r.at].folder # Root THEN InFolder(p.projects[r.at].folder, r)
    ELSE <<[r EXCEPT !.op = "project files", !.use = "first folder"]>>

FirstFolder(p, r) ==
    IF p.projects[r.at].listed = <<>> THEN <<GiveUp>> ELSE InFolder(Head(p.projects[r.at].listed), r)

\* The file goes to the project of the task, then its number to the task.
UploadTaskFile(task, doc) == <<For("task project", Must("task", task, doc))>>
TaskProject(p, r) ==
    <<[For("root", Must("project", p.tasks[r.at].project, r.val)) EXCEPT !.extra = <<"attach", r.at>>]>>
\* Mutant: the number of the folder is attached.
AttachFolder(p, r) == <<Either(Must("attach file", r.extra[2], r.at))>>

AttachUploaded(p, r) == <<Either(Must("attach file", r.extra[2], LastId(p)))>>
DetachTaskFile(task, file) == <<Either(Must("detach file", task, file))>>

PrjFilesUpdate(file, body) == <<[Must("update", file, [body |-> body]) EXCEPT !.ways = 4]>>

UploadProjectDoc(project, folder, doc, replace) ==
    IF folder = Root THEN ToProject(project, doc, IF replace THEN "replace" ELSE "no clobber")
    ELSE IF replace THEN UploadToFolderReplacing(folder, doc) ELSE UploadNoClobber(folder, doc)

-----------------------------------------------------------------------------
(* Duplicates of a project: its folders are listed one after the other,    *)
(* then all but the keeper of each name are deleted.                       *)

\* state: the folders of the listing, and the files seen with their names, times and folders.
DedupeProject(project, cross, apply) ==
    <<For("project folders", Must("project files", project, [cross |-> cross, apply |-> apply]))>>

ProjectFolders(p, r) ==
    <<[For("root", Must("project", r.at, [cross |-> r.val.cross, apply |-> r.val.apply,
                                          listed |-> p.projects[r.at].listed, seen |-> {}]))
         EXCEPT !.extra = <<"dedupe">>]>>

\* Mutant: the newest file, wherever it is.
NewerOnly(a, b) == a.time > b.time

\* Files outside of trash folders first, then the newest.
Better(a, b) == IF a.trash # b.trash THEN ~a.trash ELSE a.time > b.time

\* Of files of one time the code keeps the one listed first; here it is any, but always the same.
Duplicates(seen, cross) ==
    LET Twins(a) == {b \in seen : b.name = a.name /\ (cross \/ b.in = a.in)}
        Keeper(a) == CHOOSE k \in Twins(a) : ~\E b \in Twins(a) : (IF cross THEN Better(b, k) ELSE b.time > k.time)
    IN  {a.id : a \in {x \in seen : x # Keeper(x)}}

Found(p, f) == [id |-> f, name |-> p.files[f].name, in |-> p.files[f].in, time |-> p.files[f].time,
                trash |-> p.folders[p.files[f].in].trash]

FolderFiles(p, r) ==
    LET here == {Found(p, f) : f \in FilesIn(p, r.at)}
        state == [r.val EXCEPT !.seen = @ \cup here]
    IN  IF r.extra # <<>> THEN ListNext(r.extra, state)
        ELSE IF state.apply THEN DeleteFiles(SetToSeq(Duplicates(state.seen, state.cross)))
        ELSE Nothing

-----------------------------------------------------------------------------
(* Downloads and conversions                                               *)

\* A local document is uploaded to a scratch folder, converted, and the result fetched; a
\* document of the portal is converted in place.
DocsPDF(scratch, doc, path) ==
    <<[For("scratch", Either(Must("upload", scratch, doc))) EXCEPT !.extra = <<path>>]>>

\* The scratch copy is deleted whether the result comes or not; that is only tried.
Scrap(id, local) == IF local THEN <<Try("drop file", id, 0)>> ELSE Nothing

Convert(id, name, path, local) ==
    <<Must("presigned", id, 0), Must("convert", 0, name), Must("open", path, 0),
      For("converted", Must("result", id, local)), Must("write", path, "pdf")>> \o Scrap(id, local)

DocsPDFOf(file, name, path) == <<Try("file", file, 0)>> \o Convert(file, name, path, FALSE)
ConvertedFailed(r) == Scrap(r.at, r.val) \o <<GiveUp>>

\* The file is read, and a searchable copy is put beside it, where it was at first.
DocsAsMD(file, path) == <<For("as md", Must("file", file, path))>>
AsMD(p, r) ==
    {<<Must("file", r.at, 0), Must("read", r.at, 0), Must("write", r.val, "md")>> \o copy :
        copy \in {Nothing, UploadToFolder(p.files[r.at].in, Doc("ocr", "ocr"))}}

\* A workbook is read and written as text.
DocsCSV(file, path) == <<Must("file", file, 0), Must("read", file, 0), Must("write", path, "csv")>>

-----------------------------------------------------------------------------
DocumentsThen(p, r) ==
    CASE r.use = "stat"            -> {Stated(p, r)}
      [] r.use = "stat file"       -> {StatedFile(r)}
      [] r.use = "segment"         -> Segment(p, r)
      [] r.use = "made"            -> {EnsurePath(LastId(p), r.extra)}
      [] r.use = "replace"         -> Replace(p, r)
      [] r.use = "updated"         -> {DeleteFiles(r.extra)}
      [] r.use = "replace all"     -> {DeleteThenUpload(p, r)}
      [] r.use = "no clobber"      -> {IF Matching(p, r.at, r.val) # {} THEN <<GiveUp>> ELSE UploadToFolder(r.at, r.val)}
      [] r.use = "then upload"     -> {IF Matching(p, r.at, r.val) # {} THEN <<GiveUp>>
                                       ELSE ToProject(r.extra[1], r.val, "upload")}
      [] r.use = "root"            -> {ProjectFolder(p, r)}
      [] r.use = "first folder"    -> {FirstFolder(p, r)}
      [] r.use = "task project"    -> {TaskProject(p, r)}
      [] r.use = "attach"          -> {AttachUploaded(p, r)}
      [] r.use = "project folders" -> {ProjectFolders(p, r)}
      [] r.use = "folder files"    -> {FolderFiles(p, r)}
      [] r.use = "scratch"         -> {Convert(LastId(p), r.val.name, r.extra[1], TRUE)}
      [] r.use = "as md"           -> AsMD(p, r)
      [] OTHER                     -> {Nothing}

\* A listing that fails may have failed for good: then the number is taken for a file.
DocumentsOtherwise(r) ==
    CASE r.use = "stat"      -> {StatFile(r), <<GiveUp>>}
      [] r.use = "updated"   -> {UpdateRefused(r)}
      [] r.use = "body"      -> {DownloadFailed(r)}
      [] r.use = "converted" -> {ConvertedFailed(r)}
      [] OTHER               -> {}
=============================================================================
