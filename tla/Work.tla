--------------------------------- MODULE Work ---------------------------------
(***************************************************************************)
(* The commands on projects, documents, invoices, mail, users and the      *)
(* calendar at work beside each other.                                     *)
(***************************************************************************)
EXTENDS Projects, Business

Docs == INSTANCE Documents

CONSTANTS Actors, Jobs, Portals, MaxFaults

ASSUME FaultsAssumption == MaxFaults \in Nat

-----------------------------------------------------------------------------
(* What a portal holds, and what a command may ask of it.                  *)

Kinds == {"projects", "milestones", "tasks", "invoices", "copies", "mails", "users", "events",
          "folders", "files"}
ProjectFields == {"title", "note", "owner", "team", "contacts", "folder", "listed"}
InvoiceFields == {"number", "contact", "deal", "consignee", "note", "spaced", "status", "rev", "pdf"}
FileFields    == {"name", "in", "body", "time"}
MailFields    == {"to", "folder", "parts"}
TaskFields    == {"project", "title", "milestone", "open", "parts", "files"}
FolderFields  == {"name", "parent", "trash"}

\* Numbers are given one after the other.
IsRecord(kind, x, next) ==
    /\ kind = "projects" => DOMAIN x = ProjectFields
    /\ kind = "invoices" => DOMAIN x = InvoiceFields /\ x.rev \in Nat /\ x.pdf \in 0 .. next - 1
    /\ kind = "mails"    => DOMAIN x = MailFields
    /\ kind = "files"    => DOMAIN x = FileFields /\ x.time \in 0 .. next - 1

IsPortal(p) ==
    /\ DOMAIN p = Kinds \cup {"people", "disk", "next"}
    /\ p.next \in Nat \ {0}
    /\ \A kind \in Kinds : /\ DOMAIN p[kind] \subseteq 1 .. p.next - 1
                           /\ \A i \in DOMAIN p[kind] : IsRecord(kind, p[kind][i], p.next)

IsList(s) == Len(s) \in Nat /\ s = [i \in 1 .. Len(s) |-> s[i]]

\* What commands keep while they work through a listing, a board, a log or a mail folder.
IsBoard(s) == /\ DOMAIN s = {"items", "apply", "ms", "have", "self", "more"}
              /\ IsList(s.items) /\ IsList(s.more)
              /\ \A k \in DOMAIN s.more : IsList(s.more[k].items)
IsLinking(s) == DOMAIN s = {"have", "companies", "authors", "dry"} /\ IsList(s.companies) /\ IsList(s.authors)
IsWalk(s) == DOMAIN s = {"folder", "skip", "limit"} /\ s.skip \in Nat /\ s.limit \in Nat
IsJob(s)  == /\ DOMAIN s = {"op", "ids", "arg", "folders", "files"}
             /\ s.op \in {"delete", "rename", "download", "move items", "copy items", "look"}
             /\ IsList(s.ids) /\ IsList(s.folders) /\ IsList(s.files)
\* In a board's file tasks are listed under their milestone.
Nested(items) == \A i \in DOMAIN items : items[i].task # "" =>
                     \E j \in 1 .. i - 1 : items[j].task = "" /\ items[j].milestone = items[i].milestone
IsScan(s) == DOMAIN s = {"cross", "apply", "listed", "seen"} /\ IsFiniteSet(s.seen)
IsSearch(s) == DOMAIN s = {"inv", "files"} /\ IsFiniteSet(s.files)

RequestFields == {"op", "use", "at", "val", "extra", "onErr", "counts", "ways"}

\* What a request needs, by its parts.
Fits(op, use, at, val, extra) ==
    /\ use \in {"update invoice", "touch", "purge"} => op = "invoice"
    /\ use = "touch"                                => extra \in {"", "draft invoice"}
    /\ use \in {"board", "board tasks", "own id"}    => IsBoard(val)
    /\ use = "upsert"                               => IsBoard(extra)
    /\ use \in {"links", "author"}                  => IsLinking(val)
    /\ use = "author"                               => val.authors # <<>>
    /\ use = "linked"                               => IsLinking(extra)
    /\ use \in {"contact files", "deal files"}      => IsSearch(val)
    /\ use = "mail page"                            => at \in Nat \ {0} /\ IsWalk(val)
    /\ use \in {"stat", "stat file"}                => IsJob(val)
    /\ use = "updated"                              => IsList(extra)
    /\ use = "folder files" \/ (use \in {"root", "first folder"} /\ extra = <<"dedupe">>) => IsScan(val)
    /\ op = "add project"                           => DOMAIN val = ProjectFields
    /\ op = "add invoice" => DOMAIN val = InvoiceFields /\ val.rev \in Nat /\ val.pdf = NoFile
    /\ op = "put invoice"                           => DOMAIN val = InvoiceFields

IsRequest(r) == DOMAIN r = RequestFields /\ Fits(r.op, r.use, r.at, r.val, r.extra)

\* What a command may begin with.  It puts back only an invoice that it has read, and what it
\* does on the user's own disk brings no answer to go on from.
Openings == {"", "update project", "each task", "board", "links", "update invoice", "touch", "purge", "mail page",
             "delete user", "stat", "segment", "replace", "replace all", "no clobber", "root", "task project",
             "project folders", "scratch", "converted", "as md"}

IsOpening(r) ==
    /\ IsRequest(r) /\ r.use \in Openings
    /\ r.op # "put invoice"
    /\ r.op \in Local \cup {"update", "drop file"} => r.use = ""
    /\ r.use = "links" => r = Head(LinkPeople(r.at, r.val.companies, r.val.authors, r.val.dry))
    /\ r.use = "board" =>
          /\ r = Head(SyncBoard(<<[project |-> r.at, items |-> r.val.items]>> \o r.val.more, r.val.apply))
          /\ Nested(r.val.items) /\ \A k \in DOMAIN r.val.more : Nested(r.val.more[k].items)
    /\ r.use = "mail page" => r = Head(FetchMailFolder(r.val.folder, r.val.skip, r.val.limit))
    /\ r.use = "touch" =>
          \E use \in {"", "draft invoice"} : r = Head(ForceRegenerateInvoicePDF(r.at, use, r.val))
    /\ r.use = "root" => r.extra # <<"dedupe">>
    /\ r.use = "task project" => r = Head(Docs!UploadTaskFile(r.at, r.val))
    /\ r.use = "scratch" => r = Head(Docs!DocsPDF(r.at, r.val, r.extra[1]))
    /\ r.use = "converted" => r.op = "result" /\ r.val = FALSE

ASSUME PortalsAssumption ==
    \A p \in Portals : /\ IsPortal(p)
                       /\ \A i \in DOMAIN p.invoices : p.invoices[i].spaced \in BOOLEAN
                       /\ \A t \in DOMAIN p.tasks : DOMAIN p.tasks[t] = TaskFields
                       /\ \A f \in DOMAIN p.folders : /\ DOMAIN p.folders[f] = FolderFields
                                                       /\ p.folders[f].trash \in BOOLEAN
                       /\ \A f \in DOMAIN p.files : p.files[f].in \in DOMAIN p.folders
ASSUME JobsAssumption ==
    \A j \in Jobs : \A a \in Actors : IsList(j[a]) /\ \A i \in DOMAIN j[a] : IsOpening(j[a][i])

-----------------------------------------------------------------------------
VARIABLES portal, session, faults, jobs, start

\* Each request belongs to one of the three modules; the others let it pass.
WorkEffect(p, r)  == Docs!DocumentsEffect(BusinessEffect(ProjectsEffect(p, r), r), r)
WorkAccepts(p, r) == ProjectsAccepts(p, r) /\ BusinessAccepts(p, r) /\ Docs!DocumentsAccepts(p, r)
WorkCreates(r)    == r.op \in ProjectsCreates \cup Docs!DocumentsCreates \/ BusinessCreates(r)
WorkOtherwise(r)  == BusinessOtherwise(r) \cup Docs!DocumentsOtherwise(r)
WorkThen(p, r) ==
    LET more == (ProjectsThen(p, r) \cup BusinessThen(p, r) \cup Docs!DocumentsThen(p, r)) \ {Nothing}
    IN  IF more = {} THEN {Nothing} ELSE more

INSTANCE Sessions WITH Effect <- WorkEffect, Accepts <- WorkAccepts, Creates <- WorkCreates,
                       Then <- WorkThen, Otherwise <- WorkOtherwise

-----------------------------------------------------------------------------
Succeeded(a) == Ended(a) /\ ~session[a].failed
Idle(a) == jobs[a] = Nothing
Alone(a) == \A b \in Actors \ {a} : Idle(b)
\* What the requests of a job are, and what it does with numbers it has looked up.
Sends(a, ops) == \E i \in DOMAIN jobs[a] :
                    jobs[a][i].op \in ops \/ (jobs[a][i].use = "stat" /\ jobs[a][i].val.op \in ops)
NobodySends(ops) == \A a \in Actors : ~Sends(a, ops)
NobodyReplaces == \A a \in Actors : \A i \in DOMAIN jobs[a] :
                     /\ jobs[a][i].use \notin {"replace", "replace all"}
                     /\ jobs[a][i].use = "root" => jobs[a][i].extra # <<"replace">>

NobodyRewritesDrafts ==
    \A a \in Actors : \A i \in DOMAIN jobs[a] : jobs[a][i].op = "save draft" => jobs[a][i].at = 0

NobodyCleans == \A a \in Actors : \A i \in DOMAIN jobs[a] : jobs[a][i].use # "project folders"
\* The files that are named in a command were there when it was given.
NobodyNamesNewFiles ==
    \A a \in Actors : \A i \in DOMAIN jobs[a] :
        jobs[a][i].op \in {"update", "drop file"} => jobs[a][i].at \in DOMAIN start.files

Removals == {"drop project", "drop milestone", "drop task", "unlink", "put team"}

\* The boards a job synchronises for real.
Boards(a) == {jobs[a][i] : i \in {j \in DOMAIN jobs[a] :
                                    jobs[a][j].use = "board" /\ jobs[a][j].val.apply}}

MilestonesOf(project, title) ==
    {m \in DOMAIN portal.milestones : portal.milestones[m].project = project
                                      /\ portal.milestones[m].title = title}
TasksOf(project, title) ==
    {t \in DOMAIN portal.tasks : portal.tasks[t].project = project /\ portal.tasks[t].title = title}

Once(project, item) ==
    Cardinality(IF item.task = "" THEN MilestonesOf(project, item.milestone)
                                  ELSE TasksOf(project, item.task)) <= 1

\* The projects of a board, of which only the first is in the job at first.
ItemsOf(r) == {<<r.at, r.val.items[i]>> : i \in DOMAIN r.val.items}
     \cup UNION {{<<r.val.more[k].project, r.val.more[k].items[i]>> : i \in DOMAIN r.val.more[k].items} :
                    k \in DOMAIN r.val.more}

\* The milestones that the boards at work, of whoever, have for a task of this title.
TitlesFor(project, task) ==
    {x[2].milestone : x \in {y \in UNION {ItemsOf(r) : r \in UNION {Boards(b) : b \in Actors}} :
                               y[1] = project /\ y[2].task = task}}

\* A task that was there before is left where it was.
StandsOnTheBoard(project, item) ==
    IF item.task = "" THEN MilestonesOf(project, item.milestone) # {}
    ELSE \E t \in TasksOf(project, item.task) :
            \/ t \in DOMAIN start.tasks
            \/ \E title \in TitlesFor(project, item.task) :
                  portal.tasks[t].milestone \in MilestonesOf(project, title)

\* board.go:125: items are created one by one, from listings read before, while others work
\* on the project.  Unless they remove things, or make such tasks by hand, a sync that succeeds
\* leaves every item of the board there, new tasks under a milestone that a board lists them under.
BoardIsThere ==
    NobodySends(Removals \cup {"add task"}) =>
        \A a \in Actors : Succeeded(a) => \A r \in Boards(a) : \A x \in ItemsOf(r) :
            StandsOnTheBoard(x[1], x[2])

\* No two folders of a name are beside each other that were not so at the start.
NewTwins == {f \in DOMAIN portal.folders \ DOMAIN start.folders :
                \E g \in DOMAIN portal.folders \ {f} :
                    /\ portal.folders[g].name = portal.folders[f].name
                    /\ portal.folders[g].parent = portal.folders[f].parent}
OnlyEnsures(a) == \A i \in DOMAIN jobs[a] : jobs[a][i].op = "sections" \/ jobs[a][i].use = "segment"

\* cmd/oo/projects_board.go:21 says the same file can be re-applied safely, and dav.go:303 that
\* repeated calls return the same folder without creating duplicates: with nobody else at work
\* and no request lost, nothing on the board and no folder of the path is there twice.
ReappliedSafely ==
    \A a \in Actors : Alone(a) /\ Ended(a) /\ Quiet =>
        /\ \A r \in Boards(a) : \A x \in ItemsOf(r) : Once(x[1], x[2])
        /\ OnlyEnsures(a) => NewTwins = {}

\* cmd/oo/projects.go:666: companies, and authors that are contacts, are linked one by one,
\* past those that a listing from before has.  When it succeeds all of them are linked.
EverybodyIsLinked ==
    NobodySends(Removals) =>
        \A a \in Actors : Succeeded(a) => \A i \in DOMAIN jobs[a] :
            LET r == jobs[a][i]
            IN  r.use = "links" /\ ~r.val.dry =>
                    /\ ToSet(r.val.companies) \subseteq portal.projects[r.at].contacts
                    /\ \A e \in ToSet(r.val.authors) \cap DOMAIN portal.people :
                          portal.people[e] \in portal.projects[r.at].contacts

\* invoices.go:281: the PDF of a draft is made anew before it is mailed, by changing its notes
\* so that the portal forgets the copy it has; others regenerate it too, or clean up copies.
\* A draft message never carries a copy older than the command, as long as nobody bills or
\* deletes the invoice, or deletes or rewrites messages.
NoStalePDFIsMailed ==
    NobodySends({"set status", "drop invoice", "remove mails"}) /\ NobodyRewritesDrafts =>
        \A a \in Actors : Succeeded(a) => \A i \in DOMAIN jobs[a] :
            LET r == jobs[a][i]
            IN  r.use = "touch" /\ r.extra = "draft invoice" /\ r.at \in DOMAIN start.invoices
                  /\ CanEdit(start.invoices[r.at]) =>
                  \E m \in DOMAIN portal.mails : \E c \in portal.mails[m].parts :
                      /\ portal.mails[m].to = r.val
                      /\ c.title = start.invoices[r.at].number
                      /\ c.rev >= start.invoices[r.at].rev

\* mailsync.go:49: a folder is walked by page numbers while messages come in and push others
\* to the next page.  When a walk without a limit succeeds, it has read every message of the
\* start, or passed it over as one of those to skip, unless somebody removes messages: the
\* others move up then, and one may slip to a page that the walk has behind it.
EveryMailIsFetched ==
    NobodySends({"remove mails"}) =>
        \A a \in Actors : Succeeded(a) => \A i \in DOMAIN jobs[a] :
            LET r == jobs[a][i]
            IN  r.use = "mail page" /\ r.val.limit = 0 =>
                  {m \in DOMAIN start.mails : start.mails[m].folder = r.val.folder} \subseteq session[a].done

\* The documents with a copy outside of trash folders, and the folders of projects.
Outside(p) == {p.files[f].name : f \in {g \in DOMAIN p.files : ~p.folders[p.files[g].in].trash}}
FoldersOf(p) == UNION {{p.projects[i].folder} \cup ToSet(p.projects[i].listed) : i \in DOMAIN p.projects}

\* One clean-up is at work, and conversions keep their scratch copies out of its folders.
Cleans(a) == \E i \in DOMAIN jobs[a] : jobs[a][i].use = "project folders"
CleansAlone ==
    /\ \A a, b \in Actors : Cleans(a) /\ Cleans(b) => a = b /\ Len(jobs[a]) = 1
    /\ \A a \in Actors : \A i \in DOMAIN jobs[a] :
          jobs[a][i].use = "scratch" => jobs[a][i].at \notin FoldersOf(start)

\* Any number of them, which agree on what is newer: nobody updates files, no two of a name are
\* of one time, and scratch copies have names of their own.
TimesDiffer(p) == \A f, g \in DOMAIN p.files :
                     p.files[f].name = p.files[g].name /\ p.files[f].time = p.files[g].time => f = g
CleanersAgree ==
    /\ NobodySends({"update"}) /\ TimesDiffer(start)
    /\ \A a \in Actors : \A i \in DOMAIN jobs[a] :
          jobs[a][i].use = "scratch" => jobs[a][i].val.name \notin Outside(start)

\* files_dedupe.go:439: duplicates are found in listings of one folder after the other, while
\* others upload, update, copy or clean up the same folders.  Unless files or folders are moved,
\* renamed, replaced or deleted otherwise, a document with a copy outside of trash folders
\* keeps one there.
Rearrangements == {"delete", "rename", "move items", "drop folder", "rename folder", "rename file"}
CleanupKeepsACopy ==
    NobodySends(Rearrangements \cup {"drop file"}) /\ NobodyReplaces /\ (CleansAlone \/ CleanersAgree)
      => Outside(start) \subseteq Outside(portal)

\* The files of the user's own disk that are cut off, and who writes to which.
CutOff(p) == {path \in DOMAIN p.disk : ~p.disk[path].whole}
Downloads(a, path) == \E i \in DOMAIN jobs[a] :
    jobs[a][i].use = "stat" /\ jobs[a][i].val.op = "download" /\ jobs[a][i].val.arg = path
Converts(a, path) == \E i \in DOMAIN jobs[a] :
    \/ jobs[a][i].op = "open" /\ jobs[a][i].at = path
    \/ jobs[a][i].use = "scratch" /\ jobs[a][i].extra[1] = path

\* cmd/oo/dav.go:438 and projects_files.go:237: the local file is made before the download, in
\* which the portal's file may be changed or deleted by others.  No download leaves a file
\* that is cut off: one that is belongs to a download still at work, or to a conversion.
DownloadsAreWhole ==
    \A path \in CutOff(portal) \ CutOff(start) :
        \E a \in Actors : Converts(a, path) \/ (Downloads(a, path) /\ ~Ended(a))

\* oo tasks files upload sends the file to the project of the task, then its number to the
\* task, while others upload, convert, move and rename.  When it succeeds and nobody takes
\* files or the task away, what it sent is on the task, as it was sent.
TasksHaveTheirFiles ==
    NobodySends({"delete", "drop folder", "detach file", "drop task", "drop project"})
      /\ NobodyReplaces /\ NobodyCleans /\ NobodyNamesNewFiles =>
        \A a \in Actors : Succeeded(a) => \A i \in DOMAIN jobs[a] :
            LET r == jobs[a][i]
            IN  r.use = "task project" =>
                  \E f \in portal.tasks[r.at].files : /\ f \in DOMAIN portal.files \ DOMAIN start.files
                                                      /\ portal.files[f].body = r.val.body

\* invoices.go:322: "deletes older P-*.pdf copies ... while keeping the invoice's current fileID".
CurrentPDFSurvives ==
    \A i \in DOMAIN portal.invoices :
        portal.invoices[i].pdf # NoFile => portal.invoices[i].pdf \in DOMAIN portal.copies

\* cmd/oo/projects_files.go:290: "Permanently delete file(s) from Documents", given file ids.
\* A command that is told files only deletes no folder.
DeletesOnlyFiles ==
    \A a \in Actors, f \in DOMAIN start.files :
        Alone(a) /\ jobs[a] = Docs!PrjFilesDelete(<<f>>)
          => DOMAIN start.folders \subseteq DOMAIN portal.folders
=============================================================================
