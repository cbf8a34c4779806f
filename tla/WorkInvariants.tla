---------------------------- MODULE WorkInvariants ----------------------------
(***************************************************************************)
(* The words in which the proofs about the commands are told: what is true *)
(* of every script and of every answer, and for each command the states of *)
(* a session and of the portal in which it may be on its way.  WorkProofs  *)
(* shows that they are never left.                                         *)
(***************************************************************************)
EXTENDS Work

-----------------------------------------------------------------------------
(* Requests and scripts.  asked are the operations a user has asked for.   *)

\* What no command does by itself.
OnlyAsked == Removals \cup {"add task", "set status", "drop invoice", "remove mails", "put invoice", "save draft", "delete",
                            "rename", "move items", "detach file", "drop folder", "rename folder", "rename file",
                            "open", "drop file", "update"}

\* What becomes of numbers, once it is known what they name.
Brings(op) == CASE op = "delete" -> {"delete", "drop folder", "drop file"}
                [] op = "rename" -> {"rename", "rename folder", "rename file"}
                [] op = "download" -> {"open"}
                [] OTHER         -> {op}

\* An invoice is put back after it was read, new drafts are saved when an invoice is sent, and
\* a board brings tasks; a download and a conversion begin a file of the user's disk; who
\* replaces, cleans up or converts changes files that he finds.
Asks(r) == (IF r.op = "save draft" /\ r.at = 0 THEN {} ELSE {r.op})
             \cup (IF r.use \in {"stat", "stat file"} THEN Brings(r.val.op) ELSE {})
             \cup (IF r.use \in {"update invoice", "touch"} THEN {"put invoice"} ELSE {})
             \cup (IF r.use \in {"board", "board tasks", "own id", "upsert"} THEN {"add task"} ELSE {})
             \cup (IF r.use \in {"scratch", "body"} THEN {"open"} ELSE {})
             \cup (IF \/ r.use \in {"replace", "replace all", "updated", "project folders", "folder files", "scratch",
                                   "converted"}
                      \/ r.use \in {"root", "first folder"} /\ r.extra \in {<<"replace">>, <<"dedupe">>}
                   THEN {"drop file", "update"} ELSE {})

Good(asked, r) == IsRequest(r) /\ Asks(r) \cap OnlyAsked \subseteq asked

GoodScript(asked, script) == IsList(script) /\ \A r \in ToSet(script) : Good(asked, r)
-----------------------------------------------------------------------------
(* Requests as the commands make them                                      *)

Is(r, op, at, val, use, extra) ==
  /\ DOMAIN r = RequestFields
  /\ r.op = op /\ r.at = at /\ r.val = val /\ r.use = use /\ r.extra = extra

\* The uses and operations of which IsRequest says something.
Particular == {"board", "board tasks", "own id", "upsert", "links", "author", "linked", "update invoice",
               "touch", "purge", "contact files", "deal files", "mail page", "stat", "stat file", "updated",
               "folder files", "scratch", "body", "replace", "replace all", "project folders", "converted",
               "root", "first folder"}
Carrying == {"add project", "add invoice", "put invoice"}
-----------------------------------------------------------------------------
(* What the answers of projects bring                                      *)

MayAddTasks(asked) == "add task" \in asked

IsMore(more) == IsList(more) /\ \A k \in DOMAIN more : IsList(more[k].items)

\* The companies that are not linked yet, as numbers of the list.
MissingCompanies(state) == {i \in DOMAIN state.companies : state.companies[i] \notin state.have}

\* What is left of the companies after the one that is missing first.
Past(state) ==
  [state EXCEPT !.companies = SubSeq(@, Min(MissingCompanies(state)) + 1, Len(@))]
Linked(state) == [state EXCEPT !.companies = <<>>]

\* What is left of the authors after the first.
NextAuthors(state) == [state EXCEPT !.authors = Tail(@)]
-----------------------------------------------------------------------------
(* What a request does to the portal                                       *)

\* One collection has a record more.
Added(p, q, kind, x) ==
  /\ IsPortal(q)
  /\ DOMAIN q = DOMAIN p /\ q.next = p.next + 1 /\ p.next \in Nat \ {0} /\ p.next \notin DOMAIN p[kind]
  /\ \A k \in DOMAIN p \ {kind, "next"} : q[k] = p[k]
  /\ DOMAIN q[kind] = DOMAIN p[kind] \cup {p.next}
  /\ q[kind][p.next] = x
  /\ \A i \in DOMAIN p[kind] : q[kind][i] = p[kind][i]

\* The portal with one part replaced.
With(p, kind, f) == [p EXCEPT ![kind] = f]

\* One collection has become f.
Changed(p, q, kind, f) ==
  /\ IsPortal(q)
  /\ DOMAIN q = DOMAIN p /\ q.next = p.next /\ q[kind] = f
  /\ \A k \in DOMAIN p \ {kind} : q[k] = p[k]

\* A record is changed.
WithRecord(p, kind, i, x) == With(p, kind, [p[kind] EXCEPT ![i] = x])

\* No project goes, and none loses a contact.
ContactsGrow(p, q) ==
  /\ DOMAIN p.projects \subseteq DOMAIN q.projects
  /\ \A i \in DOMAIN p.projects : p.projects[i].contacts \subseteq q.projects[i].contacts

InWork == {"projects", "milestones", "tasks"}

\* What a request on projects leaves behind.
ProjectsOutcome(p, q, r) ==
  /\ IsPortal(q)
  /\ DOMAIN q = DOMAIN p
  /\ q.next = p.next \/ q.next = p.next + 1
  /\ \A k \in DOMAIN p \ (InWork \cup {"next"}) : q[k] = p[k]
  /\ r.op \notin Removals => ContactsGrow(p, q)
  /\ r.op = "link" => r.val \in q.projects[r.at].contacts

\* What the effect of a request takes for granted.
Has(p, r) ==
  /\ r.op \in {"put project", "join", "leave", "put team", "link", "unlink"} => r.at \in DOMAIN p.projects
  /\ r.op \in {"add subtask", "status", "attach file", "detach file"} => r.at \in DOMAIN p.tasks
  /\ r.op \in {"put invoice", "layout", "pdf"} => r.at \in DOMAIN p.invoices
  /\ r.op = "save draft" => r.at \in DOMAIN p.mails \cup {0}
  /\ r.op = "attach" => r.at \in DOMAIN p.mails
  /\ r.op \in {"put user", "activate"} => r.at \in DOMAIN p.users
  /\ r.op \in {"update", "rename file"} => r.at \in DOMAIN p.files
  /\ r.op = "rename folder" => r.at \in DOMAIN p.folders
  /\ r.op = "copy items" => r.val.folders \subseteq DOMAIN p.folders /\ r.val.files \subseteq DOMAIN p.files

\* A request that is not on projects leaves them, and the people, alone.
Beside(p, q) == IsPortal(q) /\ q.next >= p.next /\ q.projects = p.projects /\ q.people = p.people

\* The portal with a collection that has grown, and the next number.
WithNew(p, kind, f, n) == [p EXCEPT ![kind] = f, !.next = n]

\* Each request belongs to one of the three modules.
OnProjects  == {"add project", "put project", "drop project", "join", "leave", "put team", "link", "unlink",
                "add milestone", "drop milestone", "add task", "add subtask", "status", "drop task"}
OnBusiness  == {"add invoice", "put invoice", "layout", "pdf", "set status", "drop invoice", "drop copies",
                "remove mails", "drop user", "drop event", "send", "arrive", "save draft", "attach", "add user",
                "add event", "put user", "activate"}
OnDocuments == {"upload", "update", "mkdir", "move items", "copy items", "rename folder", "rename file",
                "drop folder", "drop file", "attach file", "detach file", "open", "fetch", "write", "remove"}

\* What any request leaves behind.
Outcome(p, q, r) ==
  /\ IsPortal(q) /\ q.people = p.people
  /\ r.op \notin Removals => ContactsGrow(p, q)
  /\ r.op = "link" => r.val \in q.projects[r.at].contacts
-----------------------------------------------------------------------------
(* The sessions.  Everybody does only what was asked of him.               *)

SessionFields == {"todo", "failed", "done", "errors", "dropped"}

Asked(a) == UNION {Asks(r) : r \in ToSet(jobs[a])}

Sound ==
  /\ IsPortal(portal)
  /\ jobs \in Jobs
  /\ DOMAIN session = Actors
  /\ \A a \in Actors : DOMAIN session[a] = SessionFields /\ GoodScript(Asked(a), session[a].todo)

\* What a step of a leaves to the others, and to a.
Kept(a) == /\ DOMAIN session' = Actors /\ jobs' = jobs /\ start' = start
           /\ \A b \in Actors \ {a} : session'[b] = session[b]
Goes(a, script, failed) ==
  DOMAIN session'[a] = SessionFields /\ session'[a].todo = script /\ session'[a].failed = failed

\* The answer to a request, or an error.
GoesOn(a, r, rest) ==
  \E more \in WorkThen(portal', r) : Goes(a, more \o rest, session[a].failed)
GoesElsewhere(a, r, rest) ==
  \/ \E more \in Alternatives(r) : Goes(a, more \o rest, session[a].failed)
  \/ Alternatives(r) = {} /\ r.onErr = "stop" /\ Goes(a, <<>>, TRUE)
  \/ Alternatives(r) = {} /\ r.onErr # "stop" /\ Goes(a, rest, session[a].failed)

Others(a) == DOMAIN session' = Actors /\ \A b \in Actors \ {a} : session'[b] = session[b]

\* What a step does, in terms of the request that comes first.
Moves(a, r, rest) ==
  /\ Kept(a)
  /\ \/ WorkAccepts(portal, r) /\ Outcome(portal, portal', r) /\ GoesOn(a, r, rest)
        /\ (r.op = "invoice" => portal' = portal)
     \/ (portal' = portal \/ Outcome(portal, portal', r)) /\ GoesElsewhere(a, r, rest)
-----------------------------------------------------------------------------
(* Linking people: as long as the command goes on, a request to come will  *)
(* see to everybody who is not linked yet.                                 *)

ContactsOf(p, at) == IF at \in DOMAIN p.projects THEN p.projects[at].contacts ELSE {}

\* Everybody of job r is linked, but for the companies C, the authors E and the contacts N.
LinkedBut(p, r, C, E, N) ==
  /\ ToSet(r.val.companies) \subseteq ContactsOf(p, r.at) \cup C \cup N
  /\ \A e \in ToSet(r.val.authors) \cap DOMAIN p.people :
        e \in E \/ p.people[e] \in ContactsOf(p, r.at) \cup N

\* s is what is left of job r.
Left(p, r, s, N) ==
  /\ IsLinking(s) /\ ~s.dry /\ s.have \subseteq ContactsOf(p, r.at)
  /\ LinkedBut(p, r, ToSet(s.companies), ToSet(s.authors), N)

Carries(p, q, r) ==
  /\ q.onErr = "stop" /\ q.ways = 1 /\ q.at = r.at
  /\ \/ q.use = "links" /\ q.op = "contacts of" /\ Left(p, r, q.val, {})
     \/ q.use = "author" /\ q.op = "people" /\ q.val.authors # <<>> /\ ToSet(q.val.companies) \subseteq ContactsOf(p, r.at)
          /\ Left(p, r, q.val, {})
     \/ q.use = "linked" /\ q.op = "link" /\ Left(p, r, q.extra, {q.val})

AllLinked(p, r) == LinkedBut(p, r, {}, {}, {})

\* A request as the linking makes it.
Sure(q, op, at, val, use, extra) ==
  Is(q, op, at, val, use, extra) /\ q.onErr = "stop" /\ q.ways = 1

Knowing(s, have) == [s EXCEPT !.have = have]

Linking(a) == {r \in ToSet(jobs[a]) : r.use = "links" /\ ~r.val.dry}

SeenTo(a, r) == \/ session[a].failed
                \/ AllLinked(portal, r)
                \/ \E x \in ToSet(session[a].todo) : Carries(portal, x, r)

LinkingGoesOn == NobodySends(Removals) => \A a \in Actors : \A r \in Linking(a) : SeenTo(a, r)
-----------------------------------------------------------------------------
(* Invoices, their copies and mail under the requests of everybody.        *)

\* What would take away what a draft message is about.
Undoing == {"set status", "drop invoice", "remove mails"}

KeepsCopies(p, q) ==
  /\ p.next \in Nat /\ q.next \in Nat /\ p.next <= q.next
  /\ \A c \in DOMAIN q.copies : c \in p.next .. q.next - 1 \/ (c \in DOMAIN p.copies /\ q.copies[c] = p.copies[c])

KeepsMails(p, q) ==
  \A m \in DOMAIN p.mails : /\ m \in DOMAIN q.mails /\ q.mails[m].to = p.mails[m].to
                            /\ p.mails[m].parts \subseteq q.mails[m].parts

\* Copy c shows invoice inv or a later state of it, if it is there.
FreshCopy(q, c, inv) ==
  c \in DOMAIN q.copies => q.copies[c].title = inv.number /\ q.copies[c].rev \in Nat /\ q.copies[c].rev >= inv.rev

NewPDF(p, q, i) ==
  LET c == q.invoices[i].pdf
  IN  c = NoFile \/ (c >= p.next /\ FreshCopy(q, c, p.invoices[i]))

SameNotes(x, y) == x.note = y.note /\ x.spaced = y.spaced /\ x.pdf = y.pdf

KeepsInvoice(p, q, i) ==
  /\ i \in DOMAIN q.invoices
  /\ q.invoices[i].number = p.invoices[i].number /\ q.invoices[i].status = p.invoices[i].status
  /\ q.invoices[i].rev >= p.invoices[i].rev
  /\ SameNotes(p.invoices[i], q.invoices[i]) \/ NewPDF(p, q, i)

Keeps(p, q) == KeepsCopies(p, q) /\ KeepsMails(p, q) /\ \A i \in DOMAIN p.invoices : KeepsInvoice(p, q, i)

\* r takes nothing away from what a draft message is about.
Sparing(p, r) == /\ r.op \notin Undoing
                 /\ r.op = "save draft" => r.at = 0
                 /\ r.op = "put invoice" => r.val.number = p.invoices[r.at].number
-----------------------------------------------------------------------------
(* An invoice is put back only after it was read.                          *)

\* What a step does, with what it does to the portal.
Happens(a, r, rest) ==
  /\ Kept(a)
  /\ \/ /\ WorkAccepts(portal, r) /\ GoesOn(a, r, rest)
        /\ \/ portal' = WorkEffect(portal, r)
           \/ WorkCreates(r) /\ portal' = WorkEffect(WorkEffect(portal, r), r)
     \/ /\ GoesElsewhere(a, r, rest)
        /\ portal' = portal \/ (WorkAccepts(portal, r) /\ portal' = WorkEffect(portal, r))

\* A request that puts an invoice back has its number.
PutBack(p, x) == x.op = "put invoice" =>
  x.use = "" /\ x.ways = 1 /\ x.at \in DOMAIN p.invoices /\ x.val.number = p.invoices[x.at].number

PutsBack == \A a \in Actors : \A x \in ToSet(session[a].todo) : PutBack(portal, x)

\* What a command on invoices or mail does next belongs to business only.
BusinessUses == {"touch", "update invoice", "draft invoice", "draft", "mail page"}

PlainUse == ""

\* The invoice with other notes.
Noted(inv, note, spaced) == [inv EXCEPT !.note = note, !.spaced = spaced, !.consignee = NoFile]

PutsThem(x, p, r) ==
  /\ x.op = "put invoice" /\ x.use = "" /\ x.at = r.at /\ x.onErr = "stop" /\ x.ways = 1
  /\ x.val.number = p.invoices[r.at].number
  /\ x.val.note = r.val.note /\ x.val.spaced = r.val.spaced

\* A draft's notes are changed before its PDF is made.
Rereads(u, p, r) ==
  /\ u.op = "invoice" /\ u.use = "update invoice" /\ u.at = r.at /\ u.onErr = "stop" /\ u.ways = 1
  /\ u.val.note = p.invoices[r.at].note /\ u.val.spaced = ~p.invoices[r.at].spaced

Fetches(d, r) ==
  d.op = "pdf" /\ d.use = r.extra /\ d.at = r.at /\ d.val = r.val /\ d.onErr = "stop" /\ d.ways = 1
-----------------------------------------------------------------------------
(* A message about a draft carries no older PDF than the draft was.        *)

\* A copy that was made of invoice i since the start, if it is still there.
Copied(s, p, c, i) == c \in 1 .. p.next - 1 /\ FreshCopy(p, c, s.invoices[i])

Mailed(s, p, r) ==
  \E m \in DOMAIN p.mails : \E c \in p.mails[m].parts :
     /\ p.mails[m].to = r.val /\ c.title = s.invoices[r.at].number /\ c.rev >= s.invoices[r.at].rev

\* The requests that lead to the message, one after the other.
Opens(x, r)           == x.op = "invoice" /\ x.use = "touch" /\ x.extra = r.extra /\ x.at = r.at /\ x.val = r.val
Saves(s, p, x, r)     == /\ x.op = "save draft" /\ x.use = "draft" /\ x.at = 0 /\ x.val = r.val
                         /\ Copied(s, p, x.extra, r.at)
Attaches(s, p, x, r)  == /\ x.op = "attach" /\ x.use = "" /\ x.at \in DOMAIN p.mails /\ p.mails[x.at].to = r.val
                         /\ Copied(s, p, x.val, r.at)
Stops(x) == x.onErr = "stop" /\ x.ways = 1

Asking(s, p, x, r) ==
  Stops(x) /\ (Opens(x, r) \/ (Fetches(x, r) /\ NewPDF(s, p, r.at)) \/ Saves(s, p, x, r) \/ Attaches(s, p, x, r))

\* The first request changes the notes, or will put back changed notes; the second fetches the PDF.
Respaces(s, p, x, r) == x.val.spaced # s.invoices[r.at].spaced \/ NewPDF(s, p, r.at)
Rereading(s, p, x, r) == Stops(x) /\ x.op = "invoice" /\ x.use = "update invoice" /\ x.at = r.at /\ Respaces(s, p, x, r)
Putting(s, p, x, r)   == Stops(x) /\ x.op = "put invoice" /\ x.use = "" /\ x.at = r.at /\ Respaces(s, p, x, r)

Touching(s, p, todo, r) ==
  /\ 1 \in DOMAIN todo /\ 2 \in DOMAIN todo /\ Fetches(todo[2], r)
  /\ Rereading(s, p, todo[1], r) \/ Putting(s, p, todo[1], r)

\* The answers on the way to the message.
Led(s, q, more, r) ==
  \/ Mailed(s, q, r)
  \/ \E y \in ToSet(more) : Asking(s, q, y, r)
  \/ \E u, d : more = <<u>> \o <<d>> /\ Rereading(s, q, u, r) /\ Fetches(d, r)

\* A job that drafts a message for an invoice which was a draft at the start.
Drafts(s, r) == /\ r.use = "touch" /\ r.extra = "draft invoice" /\ r.at \in DOMAIN s.invoices
                /\ CanEdit(s.invoices[r.at]) /\ s.invoices[r.at].spaced \in BOOLEAN

Drafting(a) == {r \in ToSet(jobs[a]) : Drafts(start, r)}

Drafted(a, r) == \/ session[a].failed
                 \/ Mailed(start, portal, r)
                 \/ \E x \in ToSet(session[a].todo) : Asking(start, portal, x, r)
                 \/ Touching(start, portal, session[a].todo, r)

SinceTheStart == start \in Portals /\ Keeps(start, portal) /\ PutsBack
DraftingGoesOn ==
  NobodySends(Undoing) /\ NobodyRewritesDrafts =>
    SinceTheStart /\ \A a \in Actors : \A r \in Drafting(a) : Drafted(a, r)
-----------------------------------------------------------------------------
(* Walking a mail folder: every message of the start was noted, or is on a  *)
(* page that the walk has before it.                                       *)

\* Every message stays, where it is.
MailsStay(p, q) == \A m \in DOMAIN p.mails : m \in DOMAIN q.mails /\ q.mails[m].folder = p.mails[m].folder

TakesMails(r) == r.op = "remove mails"

MailsIn(p, folder) == {m \in DOMAIN p.mails : p.mails[m].folder = folder}

\* What is listed before a message.
Newer(p, folder, m) == {n \in MailsIn(p, folder) : n > m}

\* The walk of job r in portal p, when those of noted were read or passed over.
Pages(x) == x.op = "messages" /\ x.use = "mail page"
Walking(s, p, x, r, noted) ==
  /\ Stops(x) /\ Pages(x) /\ x.val.folder = r.val.folder /\ x.val.limit = 0
  /\ \A m \in MailsIn(s, r.val.folder) :
       m \in noted \/ Cardinality(Newer(p, r.val.folder, m)) >= (x.at - 1) * MailPage

NotesMail(x) == Stops(x) /\ x.op \in {"message", "nothing"} /\ x.use = PlainUse /\ x.counts

AllNoted(s, r, noted) == MailsIn(s, r.val.folder) \subseteq noted

Notes(todo, n) == {todo[i].at : i \in 1 .. n}

\* After n more messages all are noted, or the walk goes on.
Reading(s, p, todo, r, noted, n) ==
  /\ \A i \in 1 .. n : i \in DOMAIN todo /\ NotesMail(todo[i])
  /\ \/ AllNoted(s, r, noted \cup Notes(todo, n))
     \/ n + 1 \in DOMAIN todo /\ Walking(s, p, todo[n + 1], r, noted \cup Notes(todo, n))

\* What is noted of page x, and the request for the page after it.
PageReads(p, x, batch, read, y) ==
  /\ IsList(read) /\ Len(read) = Len(batch)
  /\ \A i \in 1 .. Len(batch) : NotesMail(read[i]) /\ read[i].at = batch[i]
  /\ Hydrate(p, x) = read \o (IF Len(batch) < MailPage THEN <<>> ELSE <<y>>)
  /\ Stops(y) /\ Pages(y) /\ y.at = x.at + 1 /\ y.val.folder = x.val.folder /\ y.val.limit = 0

Mailing(a) == {r \in ToSet(jobs[a]) : r.use = "mail page" /\ r.val.limit = 0}

Fetched(a, r) ==
  \/ session[a].failed
  \/ \E x \in ToSet(session[a].todo) : Walking(start, portal, x, r, session[a].done)
  \/ \E n \in Nat : Reading(start, portal, session[a].todo, r, session[a].done, n)

\* The mails of the start.
MailsOfTheStart == start \in Portals /\ MailsStay(start, portal)

TakenMails == {"remove mails"}
FetchingGoesOn ==
  NobodySends(TakenMails) => MailsOfTheStart /\ \A a \in Actors : \A r \in Mailing(a) : Fetched(a, r)
-----------------------------------------------------------------------------
(* Boards: what is in work stays, unless somebody removes it.              *)

Removing(r)      == r.op \in Removals
AddsMilestone(r) == r.op = "add milestone"
AddsTask(r)      == r.op = "add task"

Tasked(p) == \A t \in DOMAIN p.tasks : DOMAIN p.tasks[t] = TaskFields

InWorkStays(p, q) ==
  /\ \A m \in DOMAIN p.milestones : m \in DOMAIN q.milestones /\ q.milestones[m] = p.milestones[m]
  /\ \A t \in DOMAIN p.tasks : /\ t \in DOMAIN q.tasks
                               /\ q.tasks[t].project = p.tasks[t].project
                               /\ q.tasks[t].title = p.tasks[t].title
                               /\ q.tasks[t].milestone = p.tasks[t].milestone

HasMilestone(p, m, project, title) ==
  m \in DOMAIN p.milestones /\ p.milestones[m].project = project /\ p.milestones[m].title = title
HasTask(p, t, project, title) ==
  t \in DOMAIN p.tasks /\ p.tasks[t].project = project /\ p.tasks[t].title = title

\* A task that is new is as r has it.
NewAsAsked(p, q, r) ==
  \A t \in DOMAIN q.tasks \ DOMAIN p.tasks :
     AddsTask(r) /\ HasTask(q, t, r.at, r.val.title) /\ q.tasks[t].milestone = r.val.milestone

Makes(q, r) ==
  /\ AddsMilestone(r) => HasMilestone(q, LastId(q), r.at, r.val)
  /\ AddsTask(r) => \E t : HasTask(q, t, r.at, r.val.title)

WorkGrows(p, q, r) == IsPortal(q) /\ Tasked(q) /\ InWorkStays(p, q) /\ NewAsAsked(p, q, r) /\ Makes(q, r)
-----------------------------------------------------------------------------
(* What is left of a board, and the requests that see to it.               *)

Syncing(x)       == x.use \in {"board", "board tasks", "own id"}
StartsProject(x) == x.use = "board"
Upserting(x)     == x.use = "upsert"
GivesUp(x)       == x.op = "bad date" /\ x.use = PlainUse
StateOf(x)       == IF Upserting(x) THEN x.extra ELSE x.val

ForMilestone(item) == item.task = ""

OfProject(project, items) == {<<project, items[i]>> : i \in DOMAIN items}
MoreItems(more)     == UNION {OfProject(b.project, b.items) : b \in ToSet(more)}
Remaining(project, s) == OfProject(project, s.items) \cup MoreItems(s.more)
AllItems == UNION {ItemsOf(r) : r \in UNION {Boards(b) : b \in Actors}}

\* A task's milestone is before it, or there is one of that title.
NestedIn(items, titles) ==
  \A i \in DOMAIN items : ~ForMilestone(items[i]) =>
     \/ items[i].milestone \in titles
     \/ \E j \in DOMAIN items : j < i /\ ForMilestone(items[j]) /\ items[j].milestone = items[i].milestone

\* What a sync knows of a project is so.
BoardFits(p, project, s, titles) ==
  /\ \A b \in ToSet(s.more) : NestedIn(b.items, {})
  /\ NestedIn(s.items, titles)
  /\ \A t \in DOMAIN s.ms : HasMilestone(p, s.ms[t], project, t)
  /\ \A t \in s.have : \E u : HasTask(p, u, project, t)

\* A new task comes under a milestone that a board lists it under.
Listed(p, m, project, title) ==
  \E z \in AllItems : z[1] = project /\ z[2].task = title /\ HasMilestone(p, m, project, z[2].milestone)

Known(x) == IF StartsProject(x) THEN {}
            ELSE IF Upserting(x) /\ AddsMilestone(x) THEN DOMAIN x.extra.ms \cup {x.val}
            ELSE DOMAIN StateOf(x).ms

OnBoard(p, x) ==
  Syncing(x) \/ Upserting(x) \/ AddsTask(x) =>
    /\ Syncing(x) \/ Upserting(x)
    /\ Stops(x)
    /\ AddsTask(x) => Listed(p, x.val.milestone, x.at, x.val.title)
    /\ Upserting(x) => (AddsMilestone(x) \/ AddsTask(x)) /\ StateOf(x).apply
    /\ StateOf(x).apply => /\ Remaining(x.at, StateOf(x)) \subseteq AllItems
                           /\ BoardFits(p, x.at, StateOf(x), Known(x))

\* The item z is still to come, is what x creates, or x ends the sync.
MakesItem(x, z) ==
  /\ Upserting(x) /\ z[1] = x.at
  /\ \/ AddsMilestone(x) /\ ForMilestone(z[2]) /\ x.val = z[2].milestone
     \/ AddsTask(x) /\ ~ForMilestone(z[2]) /\ x.val.title = z[2].task
Carry(x, z) ==
  /\ Stops(x)
  /\ \/ (Syncing(x) \/ Upserting(x)) /\ StateOf(x).apply /\ z \in Remaining(x.at, StateOf(x))
     \/ MakesItem(x, z)
     \/ GivesUp(x)

IsSeen(p, z) == IF ForMilestone(z[2]) THEN \E m : HasMilestone(p, m, z[1], z[2].milestone)
                                     ELSE \E t : HasTask(p, t, z[1], z[2].task)

\* The state behind the first item that is missing.
Behind(s, m) == [s EXCEPT !.items = SubSeq(@, m + 1, Len(@))]
-----------------------------------------------------------------------------
(* Boards at work.                                                         *)

UndoesBoards == Removals \cup {"add task"}

\* New tasks are where a board lists them.
NewListed(p) == \A t \in DOMAIN p.tasks \ DOMAIN start.tasks :
                   Listed(p, p.tasks[t].milestone, p.tasks[t].project, p.tasks[t].title)

Synced(a, z) == session[a].failed \/ IsSeen(portal, z) \/ \E x \in ToSet(session[a].todo) : Carry(x, z)

BoardGoesOn ==
  NobodySends(UndoesBoards) =>
    /\ Tasked(portal) /\ NewListed(portal)
    /\ \A a \in Actors : \A x \in ToSet(session[a].todo) : OnBoard(portal, x)
    /\ \A a \in Actors : \A r \in Boards(a) : \A z \in ItemsOf(r) : Synced(a, z)
-----------------------------------------------------------------------------
(* Downloads: whoever begins a file of the user's disk fetches it next, or *)
(* removes it.                                                             *)

MakesFile(r) == r.op = "open"
ReadsBody(r) == r.use = "body"
LooksUp(r)   == r.use \in {"stat", "stat file"} /\ r.val.op = "download"
Scratches(r) == r.use = "scratch"
Writes(r)    == MakesFile(r) \/ ReadsBody(r) \/ LooksUp(r) \/ Scratches(r)

BodyOf(r, op, path) == r.use = "body" /\ r.op = op /\ r.val = path /\ r.ways = 1
Removes(r, path)    == r.op = "remove" /\ r.at = path
SeesTo(r, path)     == BodyOf(r, "file", path) \/ BodyOf(r, "fetch", path) \/ Removes(r, path)

\* a writes only to files that its job names.
OwnFile(a, r) ==
  /\ MakesFile(r) => r.use = "" /\ (Converts(a, r.at) \/ Downloads(a, r.at))
  /\ ReadsBody(r) => r.ways = 1 /\ r.op \in {"file", "fetch"} /\ Downloads(a, r.val)
  /\ LooksUp(r)   => Downloads(a, r.val.arg)
  /\ Scratches(r) => Converts(a, r.extra[1])

\* What comes after the i-th request, when that begins a file.
FollowedUp(a, s, i) ==
  /\ MakesFile(s[i]) /\ ~Converts(a, s[i].at) => i + 1 \in DOMAIN s /\ BodyOf(s[i + 1], "file", s[i].at)
  /\ BodyOf(s[i], "file", s[i].val) => i + 1 \in DOMAIN s /\ BodyOf(s[i + 1], "fetch", s[i].val)

InTurn(a, s) == \A i \in DOMAIN s : OwnFile(a, s[i]) /\ FollowedUp(a, s, i)
-----------------------------------------------------------------------------
(* What requests do to the files of the user's disk.                       *)

OnDisk == {"open", "fetch", "write", "remove"}

\* Only what is opened becomes cut off, and what is fetched or removed no longer is.
DiskMoves(p, q, r) ==
  /\ CutOff(q) \subseteq CutOff(p) \cup (IF MakesFile(r) THEN {r.at} ELSE {})
  /\ r.op = "fetch" => r.val \notin CutOff(q)
  /\ r.op = "remove" => r.at \notin CutOff(q)
-----------------------------------------------------------------------------
(* The requests of downloads come in turn.                                 *)

WriterUses == {"stat", "stat file", "scratch", "body"}

\* Somebody is about to fetch the file, or to remove it.
LookedAfter(path) ==
  \E b \in Actors : \/ Converts(b, path)
                    \/ /\ Downloads(b, path) /\ 1 \in DOMAIN session[b].todo
                       /\ SeesTo(session[b].todo[1], path)

WritersGoOn ==
  /\ \A b \in Actors : InTurn(b, session[b].todo)
  /\ \A path \in CutOff(portal) \ CutOff(start) : LookedAfter(path)

\* What the step of a writer brings: an answer, or another way, of which the disk has no need.
Answers(a, h, rest) ==
  /\ WorkAccepts(portal, h) /\ (h.op = "invoice" => portal' = portal)
  /\ GoesOn(a, h, rest)
Evades(a, h, rest) == ~MakesFile(h) /\ h.op # "remove" /\ GoesElsewhere(a, h, rest)
-----------------------------------------------------------------------------
(* Files of tasks: what requests do to files and to the tasks they are on. *)

Losses == {"drop folder", "detach file", "drop task", "drop project"}
ChangesFile(r, f) == r.op \in {"drop file", "update"} /\ r.at = f

TasksKeep(p, q) ==
  /\ Tasked(q)
  /\ \A t \in DOMAIN p.tasks : t \in DOMAIN q.tasks /\ p.tasks[t].files \subseteq q.tasks[t].files

BodiesStay(p, q, r) ==
  \A f \in DOMAIN p.files : ~ChangesFile(r, f) => f \in DOMAIN q.files /\ q.files[f].body = p.files[f].body

\* What was accepted is there: the file under the last number, or the file on the task.
Uploaded(q, r) == q.next - 1 \in DOMAIN q.files /\ q.files[q.next - 1].body = r.val.body
FileMade(p, q, r) ==
  /\ r.op = "upload" => p.next < q.next /\ Uploaded(q, r)
  /\ r.op = "attach file" => r.at \in DOMAIN q.tasks /\ r.val \in q.tasks[r.at].files

FilesStay(p, q, r) ==
  /\ p.next \in Nat /\ q.next \in Nat /\ p.next <= q.next
  /\ TasksKeep(p, q) /\ BodiesStay(p, q, r) /\ FileMade(p, q, r)
-----------------------------------------------------------------------------
(* What the commands do to files that they were not told of, when nobody   *)
(* asks for what is banned, replaces or cleans up.                         *)

Changing == {"drop file", "update"}
Unasked  == Losses \cup {"delete"}
Alters(x) == Asks(x) \cap Changing # {}

\* Such a request takes nothing away, and changes a file only by its number; a conversion
\* changes the copy that it makes itself.
Bans == {Unasked, Rearrangements}
Tame(banned, x) ==
  /\ Asks(x) \cap banned = {}
  /\ Alters(x) => \/ x.use = PlainUse
                  \/ x.use = "scratch" /\ x.op = "upload"
                  \/ x.use = "converted" /\ x.op = "result" /\ x.val \in BOOLEAN

\* The file it changes, or has changed when its answer has come.
Aims(x, f) == x.at = f /\ (x.op \in Changing \/ (x.use = "converted" /\ x.val = TRUE))

\* It leaves the bodies of files alone, and makes no scratch copy.
Mild(x) == x.op # "update" /\ x.use # "scratch"

Harmless(x) == x.use = PlainUse /\ x.op \notin OnlyAsked \ {"open"}
-----------------------------------------------------------------------------
(* Files for tasks: until the file is on the task, a request to come will  *)
(* bring it there, and nobody changes it meanwhile.                        *)

\* As the commands are: nobody takes files or tasks away, or changes files that he finds.
Calm ==
  /\ NobodySends({"delete", "drop folder", "detach file", "drop task", "drop project"})
  /\ NobodyReplaces /\ NobodyCleans /\ NobodyNamesNewFiles

\* Nobody is about to take files away, or to change files that have not come yet.
Peaceful(p, s) ==
  /\ \A f \in DOMAIN start.files : f \in 0 .. p.next - 1
  /\ \A b \in Actors : \A x \in ToSet(s[b].todo) : Tame(Unasked, x) /\ \A f : Aims(x, f) => f \in 0 .. p.next - 1

\* The file came after the start, and nobody is about to change it.
Held(p, s, f, body) ==
  /\ f \in DOMAIN p.files \ DOMAIN start.files /\ p.files[f].body = body
  /\ \A b \in Actors : \A x \in ToSet(s[b].todo) : ~Aims(x, f)

\* The file has been brought to the task; or something that is still to be done will bring it.
Attached(p, s, r) == r.at \in DOMAIN p.tasks /\ \E f \in p.tasks[r.at].files : Held(p, s, f, r.val.body)

\* x goes on with the job r, or ends the command.
Forwards(p, s, x, r) ==
  /\ x.onErr = "stop"
  /\ \/ x.use = "task project" /\ x.at = r.at /\ x.val = r.val
     \/ x.use \in {"root", "first folder"} /\ x.val = r.val /\ x.extra = <<"attach", r.at>>
     \/ x.use = "attach" /\ x.op = "upload" /\ x.val = r.val /\ x.extra = <<"attach", r.at>>
     \/ x.use = PlainUse /\ x.op = "attach file" /\ x.at = r.at /\ Held(p, s, x.val, r.val.body)
     \/ x.use = PlainUse /\ x.op = "give up"

OnItsWay(p, s, a, r) ==
  s[a].failed \/ Attached(p, s, r) \/ \E x \in ToSet(s[a].todo) : Forwards(p, s, x, r)

Attaching ==
  Calm => /\ Tasked(portal) /\ Peaceful(portal, session)
          /\ \A a \in Actors : \A r \in ToSet(jobs[a]) :
                r.use = "task project" => OnItsWay(portal, session, a, r)

\* A step, and what it leaves of the files.
FileStep(a, h, rest) ==
  /\ h \in ToSet(session[a].todo) /\ ToSet(rest) \subseteq ToSet(session[a].todo)
  /\ Good(Asked(a), h) /\ GoodScript(Asked(a), rest) /\ Happens(a, h, rest) /\ IsPortal(portal')
  /\ portal.next \in Nat /\ portal'.next \in Nat /\ portal.next <= portal'.next
  /\ TasksKeep(portal, portal') /\ BodiesStay(portal, portal', h)
  /\ GoesElsewhere(a, h, rest) \/ FileMade(portal, portal', h)

\* A request that comes with a step changes no more than the request before it, but for the
\* copy that a conversion has just made.
NewCopy(h, f) == h.use = "scratch" /\ portal.next < portal'.next /\ f = portal'.next - 1

ForwardUses == {"task project", "root", "first folder", "attach"}

ForwardedBy(p, s, script, r) == \E q : script = <<q>> /\ Forwards(p, s, q, r)
-----------------------------------------------------------------------------
(* Clean-ups: what requests do to folders and files, when nothing is       *)
(* moved or renamed.                                                       *)

\* Every file is in a folder.
Filed(p) ==
  /\ \A d \in DOMAIN p.folders : DOMAIN p.folders[d] = FolderFields /\ p.folders[d].trash \in BOOLEAN
  /\ \A f \in DOMAIN p.files : p.files[f].in \in DOMAIN p.folders

\* No folder goes, or into a trash folder.
FoldersStay(p, q) == \A d \in DOMAIN p.folders : d \in DOMAIN q.folders /\ q.folders[d].trash = p.folders[d].trash

\* A file that is new is later than all others.  They are where they were and as they were, but
\* for the one that is updated or deleted.
FilesLast(p, q, r) ==
  /\ p.next \in Nat /\ q.next \in Nat /\ p.next <= q.next
  /\ Filed(q) /\ FoldersStay(p, q)
  /\ \A f \in DOMAIN p.files : f \in DOMAIN q.files =>
        /\ q.files[f].name = p.files[f].name /\ q.files[f].in = p.files[f].in
        /\ r.op = "update" \/ q.files[f] = p.files[f]
  /\ \A f \in DOMAIN p.files \ DOMAIN q.files : r.op = "drop file" /\ r.at = f
  /\ \A f \in DOMAIN q.files \ DOMAIN p.files : f \in Nat /\ p.next <= f /\ q.files[f].time = f

\* The file that was uploaded last.
Named(q, r) == r.op = "upload" => LET f == q.files[q.next - 1] IN f.name = r.val.name /\ f.in = r.at

\* It is put into a folder that is there.
Shelved(p, r) == r.op \in {"upload", "copy items"} => r.at \in DOMAIN p.folders
-----------------------------------------------------------------------------
(* Clean-ups: the files that may be deleted.                               *)

\* A file of the name is there that is outside of trash folders, or later.
Outdone(p, s) == \E g \in DOMAIN p.files : p.files[g].name = s.name /\ Docs!Better(Docs!Found(p, g), s)

\* names: those that must not be lost.
Spare(names, p, s) == s.name \in names => Outdone(p, s)
\* Such a file may be deleted, and no other is.
Expendable(names, p, f) == f \in 0 .. p.next - 1 /\ (f \in DOMAIN p.files => Spare(names, p, Docs!Found(p, f)))
Careful(names, p, r) == r.op # "update" /\ (r.op = "drop file" => Expendable(names, p, r.at))

\* A file that a listing has had is as it was then, or has been deleted, and could be.
Remembers(names, p, s) ==
  /\ s.id \in 0 .. p.next - 1 /\ s.time \in 0 .. p.next - 1
  /\ s.in \in DOMAIN p.folders /\ s.trash = p.folders[s.in].trash /\ s.trash \in BOOLEAN
  /\ s.id \in DOMAIN p.files => Docs!Found(p, s.id) = s
  /\ s.id \notin DOMAIN p.files => Spare(names, p, s)
  /\ \A g \in DOMAIN p.files : p.files[g].name = s.name /\ p.files[g].time = s.time => g = s.id

\* The listings of one clean-up.
AllTold(names, p, seen) ==
  /\ \A s \in seen : Remembers(names, p, s)
  /\ \A s, t \in seen : s.name = t.name /\ s.time = t.time => s = t
-----------------------------------------------------------------------------
(* Clean-ups: how the folders of a project are gone through.               *)

\* The requests of a clean-up, up to the last listing.
Scanning(x) ==
  /\ x.op \notin Changing \cup Rearrangements
  /\ \/ x.use = "project folders"
     \/ x.use \in {"root", "first folder"} /\ x.extra = <<"dedupe">> /\ x.val.seen = {}
     \/ x.use = "folder files"

\* What is known of the files before the request, and after it.
Seen(x) == IF x.use = "folder files" THEN x.val.seen ELSE {}
Told(p, x) ==
  IF x.use = "folder files" THEN x.val.seen \cup {Docs!Found(p, f) : f \in Docs!FilesIn(p, x.at)} ELSE {}

\* The next folder, nothing, or the files to delete.
NextScan(p, h, more) == \E x : more = <<x>> /\ (Harmless(x) \/ (Scanning(x) /\ Seen(x) = Told(p, h)))
Deletions(p, h, more) ==
  h.use = "folder files" /\ \A x \in ToSet(more) :
      x.op = "drop file" /\ x.use = PlainUse /\ x.at \in Docs!Duplicates(Told(p, h), h.val.cross)
ScanLeads(p, h, more) == more = <<>> \/ NextScan(p, h, more) \/ Deletions(p, h, more)

ScanUses == {"project folders", "root", "first folder", "folder files"}
-----------------------------------------------------------------------------
(* Clean-ups: no command deletes what must not be lost.                    *)

\* Requests that are not of a clean-up that still lists, and those that are.
Minds(names, p, x) ==
  /\ Tame(Rearrangements, x) /\ x.op # "update"
  /\ x.use = "scratch" => x.val.name \notin names
  /\ Aims(x, x.at) => Expendable(names, p, x.at)
InScan(names, p, x) == Scanning(x) /\ AllTold(names, p, Seen(x))
Clean(names, p, x) == Minds(names, p, x) \/ InScan(names, p, x)

\* A file of each name is kept, and nobody is about to delete it.
Tidy(names, p, s) ==
  /\ Filed(p) /\ TimesDiffer(p) /\ names \subseteq Outside(p)
  /\ \A b \in Actors : \A x \in ToSet(s[b].todo) : Clean(names, p, x)

\* As CleanupKeepsACopy has it for any number of clean-ups.
Agreed == NobodySends(Rearrangements \cup {"drop file"}) /\ NobodyReplaces /\ CleanersAgree
Clearing == Agreed => Tidy(Outside(start), portal, session)
=============================================================================
