# go-onlyoffice: specifications, checks and proofs

This directory holds TLA+ models of `go-onlyoffice` (a Go client library for
OnlyOffice, the command line tool `oo` and the terminal UI `office`), the TLC
configurations that check them, and TLAPS proofs. Line numbers are those of the
sources under `src/`. `PROJECT.json` lists every run, mutant, hazard and theorem
and maps each definition to the lines it stands for.

## 1. Inventory

| Component | State it keeps | Operations | What is hard | Module |
|---|---|---|---|---|
| Transport: `retry.go`, `ratelimit.go` | `globalCooldown.until`, the token bucket; per call the attempt and the timer | `DoRetry`, `retryRaw`, `retryStoreOp`, `RoundTrip` | many goroutines, one gate; time; nested loops; cancellation | `PacedTransport`, `LeakyBucket` |
| HTTP helpers: `http.go`, `request.go`, `client.go` | none besides the client | `getJSON`, `postJSON`, uploads | a request applied but not answered is sent again | `PacedTransport`, `Sessions` |
| Authentication: `auth.go` | `Client.token` | `ensureToken`, `authHeader` | no lock, although callers share the client; expiry | `Files` |
| Replacing uploads: `files.go`, `files_stem.go` | the portal's folder; a plan made from one listing | replacing and no-clobber upload, clean-up of one stem | check-then-act over HTTP, partial failure, two writers | `FolderUpsert` |
| Documents: `files_dedupe.go`, `files_webdav.go`, `filestore_rest/dav.go`, `convert.go` | the portal's folders, the local disk | clean-up across folders, moves, copies, downloads, conversions, paths | numbers that name a folder and a file, stale listings, steps that fail half-way | `Documents` |
| File client: `filestore_core/facade/pg.go`, `storage_fallback.go`, `files_path.go` | registered stores, folder titles | `List`, `Stat`, `Download`, `FolderPath` | which store answers, bytes of a broken download, a cache of failures | `Files` |
| Text indexer: `filestore_text_index.go`, `filestore_es_text.go` | two channels, a wait group, counters | `IndexEntries`, `IndexFolder`, `IndexFiles`, `TextIndex.Put` | goroutines, cancellation, a bulk write that half succeeds | `TextIndexer` |
| CRM: `crm*.go`, `cmd/oo/contacts.go`, ... | the portal's contacts and deals | records and their commands; `CleanupCRM` | multi-step merges with dropped errors, re-runs | `CRMPortal`, `CRMCommands`, `CRMCleanup`, `CRM` |
| Projects: `projects.go`, `tasks.go`, `board.go` | the portal's projects | commands, `SyncBoard`, linking of people | upserts from one listing | `Projects`, `Work` |
| Business: `invoices.go`, `mails.go`, `mailsync.go`, `users.go`, `calendar.go` | invoices, PDF copies, mail, users, events | commands | a PDF the portal caches, pages that move | `Business`, `Work` |
| Catalog: `catalog/`, `cmd/oo/catalog.go` | a file of entries | scan, merge, match, approve, apply | a run that stops before it saves | `Catalog` |
| `cmd/office` | lists, table order, cursor, filter, selection, form, requests under way | key presses, answers | answers in any order, stale lists and forms | `OfficeTUI` |
| `internal/docpipe`, `internal/docx` | temporary files | extract, OCR, edit | external tools, text transformation | - |

How they interact. Every HTTP request of every component goes through
`http.Client` with `pacedTransport`, so all of them share one gate and one
bucket. The helpers wrap each request in `DoRetry`; `deleteDavItem` and the store
operations wrap the helpers in a second `DoRetry`. Everything above is sequences
of such requests, planned on listings that were read before. The text indexer and
the terminal UI call the library from several goroutines at once; several people
run commands against one portal.

What makes each part correct:

* transport: no request inside its own Retry-After window, a bounded rate, a
  bounded number of requests, and every call returns;
* documents: a name tells the format of its body, a successful replacing upload
  leaves its body, other files survive, the document is not lost, no download
  leaves half a file;
* text indexer: every file handed out gets exactly one outcome, a cancelled run
  writes nothing, every goroutine ends;
* authentication: no goroutine panics for want of a token that another took away;
* file client: one copy of the file in the writer, every store asked before a read
  gives up, one folder has one name;
* CRM: no member and no contact information is lost in a merge, a second run
  finishes a broken one, nobody loses an employer;
* projects, business: re-applying makes nothing twice, a success means that all of
  it is there, nothing stale is sent;
* catalog: twins come of lost ids only, ids are not forgotten;
* terminal UI: list, form and selection belong to what the user is looking at
  once nothing is under way.

## 2. Plan

Done: `PacedTransport` with proofs and the abstract `LeakyBucket`; `FolderUpsert`,
with proofs of formats, of other kinds, and of one replacing upload beside any
others; `TextIndexer`, `OfficeTUI`, `Files` and `Catalog` with proofs; `Sessions` with
the CRM (`CRM`, proofs of information, employers and members of deals) and with projects, documents
and business (`Work`, proofs of boards, of the linking of people, of draft messages, of
the walk over a mail folder, of downloads, of the files sent to tasks and of clean-ups
that agree on what is newer).

Left, in this order:

1. the rest of `CleanupKeepsACopy`: one clean-up beside updates (`CleansAlone`). It needs
   that no folder is listed twice, hence a lemma on `Remove`, which is recursive;
2. `ContactsAreClean` of `CRM`, which needs that a pass leaves nothing to do for the
   same pass;
3. an abstract map from names to bodies that the replacing upload implements for
   one writer, and "each file gets one outcome" for the indexer;
4. in `OfficeTUI` the column cursor and the navigation tree; pure operators for
   `backoffDelay` with machine integers and for pane widths.

## 3. Modules

### PacedTransport and LeakyBucket

Each element of `Calls` is a goroutine in one operation: `retryStoreOp` around
`retryRaw` around one `RoundTrip`. `OuterAttempts = 1` is a plain helper. One
action per atomic step of the code: the two loop heads (`Loop`), the reading of
the gate under its lock (`ReadGate`), the sleep (`LeaveGate`), one turn of the
limiter's loop under its lock (`TakeToken`, `AwaitToken`, `RetryToken`), the
request and its answer (`Send`, `Answer`), and the four ways the two loops treat
an answer (`ReturnAnswer`, `RetryHelper`, `RetryOperation`, `GiveUp`). `Abort` is
the `ctx.Done()` arm of each `select`.

Time is relative: `gate` and `timer` hold what is left, so `Tick` needs no
horizon. The bucket counts ticks, not fractions of a token, which is exact when
the interval is a whole number of ticks; `Interval = 0` is `OO_RATE_LIMIT=0`.
`owe`, `sent` and `extended` are history.

`LeakyBucket` is what pacing promises: each request costs an interval, the cost
drains with time, a request is granted only when it fits, so at most
`Burst + W / Interval` requests are granted in any window of length W.
`PacedTransport` implements it (`PacedAsALeakyBucket`) with the level read off the
limiter's own state, `Capacity - Refilled`, and the granted callers off `pc`: no
history variable is needed, and a bucket that refills twice for the same time
makes the level fall where the abstract one may not.

### FolderUpsert

The files of one stem in one folder, `Clients` that work on it, and somebody who
saves in the web interface. A client lists once, plans (`PlanReplace`,
`Duplicates`), then sends one request at a time; each attempt of each request is
one action with the portal's answer chosen in it: `ok`, `lost` (applied, but
502/503/504 comes back), `busy`, `refused`, `broken` (applied, then a permanent
error), `garbled` (applied, body unusable). Retry loop and endpoint variants are
`try` and `path`. `readable` is whether `os.Open` succeeds. The portal gives every
change a new time, so ties and missing times do not occur here; they occur in
`Documents`. `UploadPaths` and `UpdatePaths` are the numbers of endpoints the code
tries. The order of a listing is the portal's: `Relist` takes any.

### TextIndexer

The feeder, up to `Workers` workers, the closer and the caller of `IndexEntries`.
A send on the unbuffered channel is one step with its receiver (`Feed`); the
buffered channel is a set of at most `Started` outcomes (their order only reaches
the order of documents in the request). `Check` reads `ctx.Err()` once, before the
download. `Put` stores all documents and succeeds, or fails with any subset stored.

### OfficeTUI

`Update` of the terminal UI: one action per key (`SwitchPane` to `DeleteDetail`)
and per answer (`ListLoaded` to `DeleteFailed`). Bubble Tea runs `Update` for one
message at a time and each command in a goroutine of its own, so `wire` holds the
commands under way and any of them may be answered next. A command captures its
section, start index or record when it is issued; its answer is as old as that or
as new as the moment it arrives (`seen`). `Answer` may fail when `MayFail`; a
write that fails may have been applied. `Arrive` is new mail, `DeleteDone`
changes the portal. `crashed` is a panic in `Update`, which ends the program.

`table` is `DataTable`: rows, display order, cursor, sort. `items` are the
model's own records; the code keeps the two in step by hand in a dozen places,
and that is what the properties are about. Rows are drawn in the same step that
changes them, so `Undrawable` is evaluated where the code calls
`refreshViewport`. A record is an id and its Selected flag; the filter has one
query, which the records of `Matching` match; `Rank` is the order of the sort
column. Left out: the column cursor (there is one sort column), the mouse, pane
widths (toggling a pane is a `Redraw`), the navigation tree, tab stops, the
download action, and what a save does to a row's title. `saved` is history: whose
form a record was last saved with.

### Scripts and Sessions

Most of the library and of `oo` is a sequence of requests to a portal. A request is
a record (`Scripts`): what it asks, at which record, what it carries, what the
command does with the answer, and what an error does to the command (`stop`,
`count`, `drop`: `return err`, `res.addErr(err)`, `_, _ =`). A command is a
sequence of requests, and so is the rest of one: the answer to a request may put
more requests in front of it (`Then`), which is how a loop over a listing uses the
listing it has read, however old it has become. `Sessions` runs a command for each
actor: a request succeeds, is refused because its record is gone, fails before or
after it was applied, or is applied twice because the retry loop has repeated it.
What the portal does with a request (`Effect`, `Accepts`) belongs to code outside of
the repository; it is modelled as the client uses it and marked external.

### CRMPortal, CRMCleanup, CRMCommands, CRM

`CRMPortal`: contacts with rows of information, deals and cases with members,
tasks, tags, and the keys by which the client takes two records for the same. A
name is a stem and a note (a legal form, a company in brackets), a title is a
leading `@`, a role and a company: what the normalisations of `crm_normalize.go`
tell apart. `into` is history: which contact a contact has been merged into.
`CRMCleanup`: `CleanupCRM` with its seven passes, each on a fresh paged listing;
groups that come out of a Go map are worked off in any order. `CRMCommands`: the
commands on contacts, deals, cases, tags and tasks. `CRM` puts two sessions on one
portal and states the properties.

### Projects, Business, Documents, Work

`Projects`: projects, milestones, tasks, teams, contacts, `SyncBoard` and the
linking of people from a git log. `Business`: invoices and the PDF copies the
portal makes and caches, mail with paging, drafts and attachments, users, calendar.
`Documents`: folders and files, numbered apart, on the portal, and files on the local
disk, each whole or cut off, with `stat`, the split of numbers before a move, copy or deletion, uploads,
downloads, conversion through a scratch folder, `ensurePath`, and the clean-up of
duplicates across the folders of a project. `Work` puts two sessions on one portal
of all three.

### Files

Goroutines that read through one client, and a search that names the folders of its
hits. One action per step between which another goroutine may run: the check of the
token (`CheckToken`), the login (`Authenticate`), the reading of the token for the
header (`Header`), the answer, one piece of the body, what follows a failure
(`Recover`: the next attempt, the next store, or giving up). `Expire` is time. A
request here includes the retries of the helper below it, which `PacedTransport`
has.

### Catalog

The file of entries on disk, and one command at a time on its own copy of it, saved
at its end. `Disk` is what the scans find. `ApplyApproved` works one entry at a
time: find, find the employer, write, read, add addresses. Any request may fail, and one
that writes may have been applied all the same; a creation may be applied several times,
because the transport sends it again when the answer is lost (`AnswersLost`). The run may
be stopped (`Stop`), and another user may delete a contact (`TakeAway`). `of` and `past`
are history: which entry a contact was made for, what was made in runs that were stopped,
and of which entries an id was lost or a creation repeated.

## 4. Runs

| Run | Instance | Shows |
|---|---|---|
| `paced` | 2 goroutines, 2 x 2 attempts, 1 token every 2 ticks, Retry-After 0 or 2, backoff 1 then 2 | gate, leaky bucket, retry budget; every call that has started returns |
| `folder` | a replacing upload of a legacy file beside a no-clobber upload and a web edit, all folders of up to 3 files, 4 faults | formats, own body, other kinds survive, no moment without the document, every operation ends |
| `folder_team` | 2 replacing uploads, 1 no-clobber upload, 1 clean-up, 1 fault | if all succeed, the document is there |
| `folder_fallback` (violation) | 1 replacing upload whose updates are refused | the fallback can leave no file at all |
| `indexer` | all lists of up to 3 entries and one of 5 files, limits 0 and 2, 3 workers | one outcome per file, nothing written after a cancellation, no goroutine left, every run returns |
| `office` | a mail folder of one full page, a list of one task, one mail that arrives, all 12 kinds of keys, failures, no key while 2 requests are under way | table, items and saves stay consistent; when the user pauses, requests come to an end |
| `crm` | 2 portals full of duplicates, pages of 3, the clean-up of the CRM (both forms, or twice) beside each other command, 1 fault | nobody and no information is cut off, a finished clean-up leaves clean contacts, employers stay, every command ends |
| `work` | one portal, commands on projects, business and documents in pairs, 2 faults, pages of 2 mails | what each command promises holds beside another |
| `work_cleanup` (violation) | the clean-up of the PDFs of one invoice | another invoice loses its current PDF |
| `work_delete` (violation) | `oo prj files delete` with a number that a folder also has | the folder is deleted |
| `files` | a reader and a search that share a client, 2 folders, 2 attempts, files of 2 pieces, 2 or 3 stores, a token that may expire at any time | one copy in the writer, fallback order, same names in every path, every read returns |
| `catalog` | 4 commands on one file, 5 cards, 2 CRMs whose lists carry addresses or not, 1 fault, a request that is sent twice, 1 stop, 1 removal | twins come of lost ids only, employers are linked, ids are kept |

`TypeOK` of `PacedTransport`, `FolderUpsert`, `TextIndexer`, `OfficeTUI` and `Files` is
a theorem and not repeated in the configurations.

Why the bounds are enough.

* `paced`: two goroutines are what the gate needs: one that has read it and one that
  moves it. Two attempts per loop make a first, a last and a repeated attempt. A
  Retry-After of 2 is longer than the first backoff and as long as the second, 0 is
  no header. A bucket of one token makes two goroutines compete for it.
* `folder`: four faults let a replacing upload fail all attempts of one endpoint, go
  on to the next and fail there too, and let an applied upload lose its answer
  (`lostPosts` counts those, and `OkLeavesMyBody` takes them into account).
* `indexer`: five files for three workers fill the channel and reuse a worker.
* `office`: three records in a folder of pages of two give full, short and empty
  pages and pages that overlap; one row decides "near the end". Requests that
  answers issue are not bounded, so a reload, its page and its details are under way
  together with two requests of the user. The model goes on behind a filter that
  hides no row; after one that does, drawing panics (section 8), so such a filter is
  never in use when an answer arrives, neither in the model nor in the program.
* `crm`: the portals hold each kind of duplicate the passes look for (companies,
  persons, information rows, deals, titles, annotated names), and groups of two whose
  members are linked across groups. Pages of three cut every listing. One fault is
  what distinguishes the outcomes: a second one ends the command at the first or
  repeats what the first did.
* `work`: commands that share records are paired, the others run beside a command of
  their own kind. Two faults fail a step and its repair. Three files of one title
  with different times, one of them in a trash folder, and one in another folder give
  every case of the ranking; two invoices have numbers that begin alike; three mails
  and two that arrive are walked in pages of two.
* `files`: two readers are what the token needs: one that checks and one that
  changes it. Two attempts make a retry and a last attempt, two pieces a download
  that breaks before, in and after its first piece. Three shown names repeat one.
* `catalog`: four commands are scan-and-merge, match, apply and a second apply, the
  shortest history in which a stopped or failed run is repeated.

`CHECK_DEADLOCK FALSE` is said in `office` and `files` only: a panic ends the program.

The violation runs are findings: each checks one sentence of a comment or of a help
text against what the code does; `PROJECT.json` quotes it.

## 5. Fairness

* `PacedTransport`: every goroutine that can run does, time passes, and a request on
  the wire is answered or fails. The last is an assumption on the portal and the
  network: `NewClient` sets no `Timeout` on `http.Client`. Callers need neither start
  nor cancel.
* `FolderUpsert`: an operation is one goroutine that runs on.
* `TextIndexer`: goroutines are scheduled, and downloads and external tools return.
* `OfficeTUI`: some request under way is answered or fails. The user need not press
  anything and mail need not arrive; `SettlesWhenLeftAlone` speaks of runs in which
  both stop.
* `Sessions`: weak fairness of each actor's step. A command is one goroutine and each
  of its requests ends, which is what `EveryCallReturns` shows of one request.
* `Files`: weak fairness of each goroutine's step; portal, database and object store
  answer or the connection breaks. Tokens need not expire.
* `Catalog` states safety only.

## 6. Proofs

Proofs hold for every value of the constants under the named assumptions
`PolicyAssumption`, `LimiterAssumption`, `UpsertAssumption`, `InitialAssumption`,
`IndexerAssumption`, `OfficeAssumption`, `FilesAssumption`, `DiskAssumption`,
`ContactsAssumption`, `MailAssumption`, `PortalsAssumption`, `JobsAssumption` and
`FaultsAssumption`, which TLC evaluates. The last three, in `CRM` and in `Work`, say
what a portal and a command are: numbers are given once, records have their fields, members
of deals are contacts of the portal, a request has its own. Of commands `JobsAssumption` says a little more. In `CRM`, a
clean-up, and each pass of it that is a command, begins with listings (`CleanupCRM`,
`DedupeCommand`), and a command that sends a person along with an employer sends one (`crm.go:213` omits the field
otherwise); a listing begins with no rows, and a deal is put back only when it has been
read (`crm.go:545`). In `Work`, a command begins with one of the `Openings`: the linking with
the listing of the contacts (`LinkPeople`), the regeneration of a PDF with the invoice,
the file for a task with the task (`UploadTaskFile`), a conversion with its upload
(`DocsPDF`), and none puts back an invoice it has not read; a request that changes or
deletes a file by its number brings no answer to go on from. The trailing space of the notes of an
invoice (`spaced`) is there or is not. What a command does on the local disk brings no
answer (`Local`).

* `PacedTransportProofs`. `TypeOK` is inductive, thanks to the cap of `Refilled`.
  `GateIsExact` carries what a sleeper knows: `gate <= timer` in `gateSleep`.
  `GateCoversWindows` needs the answer and the note to be one step.
  `RetryAfterIsHonoured` carries the window through the sleep: `owe <= timer` in
  `backoff`, and 0 from the loop head on. `PacingIsALeakyBucket` is a refinement: the
  level is `Capacity - Refilled`, granted are the callers at `"send"`. A tick drains
  the level by one, because `Refilled` grows by one up to the cap; `TakeToken` adds an
  interval exactly when the bucket has a token; every other step leaves both or only
  takes a caller out of the granted ones. `BudgetIsExact` counts:
  `sent = (outer - 1) * Attempts + att`, one less before the request.
* `FolderUpsertProofs`. `NamesTellTheFormat` says of the client that is updating
  that its keeper, if still there, has the extension of the local file; ids are
  never given twice and names never change, so what the plan saw stays true.
  `TypeCorrect` is inductive with `TypeInv`: a list of duplicates comes out of a sort
  of a set, and a sorted set is a sequence of its elements. `UploadsSpareOtherKinds`
  carries that no file of another kind is among those a plan will delete
  (`NoPdfPlanned`). Its hypothesis `NobodyCleansUp` is needed: a clean-up of a stem
  deletes all formats but the newest, which is what it is for.
  The second half is about one replacing upload among no-clobber uploads, web edits and
  faults (`OneWriter`, as in the run `folder`). `Accounted` says phase by phase where
  the bodies from before can be, and where those of the upload: under the keeper, or
  among the ids still to be deleted, one more for each answer that was lost.
  `KeeperIsThere` gives `InPlaceKeepsTheDocument`. The keeper is the first of the files
  sorted by time; that it is not also among the duplicates rests on the sort being
  a bijection of ranks. `OneWriter` is needed: two replacing uploads may delete each
  other's keepers (section 8).
* `TextIndexerProofs`. The invariant joins where files are with where goroutines
  are: results are closed only after the last worker has left, workers leave only
  after the feeder, and without cancellation the feeder leaves nothing behind.
  `CountsAddUp` adds the cardinalities of three disjoint sets.
* `OfficeTUIProofs`. One invariant of three parts. `Typed` adds to the types that
  the form holds the text of the open record, and that a save under way carries
  its own record's text: that is `SavesAreTheirOwn`. `Fits` says that the order is
  a permutation of the rows and the rows are the items. Neither is inductive
  alone: after a filter that hides a row the two would part, but then the order
  reaches past the rows, drawing panics (`Undrawable`) and there is no next step.
  `Awaited` says that each flag has a request under way that will clear it, and
  `loading` one that is not a further page.
* `FilesProofs`. One invariant of three parts. `Copies`: nothing is written before
  the body, and an attempt that has written anything can only end well or with a
  permanent error, which nobody tries again; that is why no second copy follows a
  piece of the first. `Tried`: the stores before the current one have had all their
  attempts, the current one as many as `try` says, those after it none (`Attempted`).
  `Named`: only the search learns titles, it asks only for folders it has none of,
  and what it has shown is what the cache says.
* `CatalogProofs`. `CatalogInv` relates three places: the file, the copy of the
  command that runs, and the CRM. What the file knows the copy knows (`Known` grows
  through every merge, which is proved by induction on the entries); each contact made
  is in the copy, or in `past` because its run was stopped, the answer to its creation
  was lost or one request made several; what `ApplyApproved` has looked for and not found
  is not there, since only it adds contacts. `TwinsComeOfLostIds`
  follows under `CompaniesHaveNoAddress`: an address that belongs to a company is
  found under it (match.go:26), and the person is made once more.
  `EmployersAreLinked` needs the order of one run besides: while a company is left no
  person has been written (`CompaniesFirst`, `PersonsLast`), so when a person with an
  employer is looked up (`OrgIsFound`) the companies of the run are all known, and the
  one of that name is found unless there is another. `Employed` says that a person who
  has been written keeps that employer until the end, since a later entry of the same
  contact names the same one. TLC checks this invariant on the instance too.
* `CRMProofs`. For any number of users with any commands, `CRMInv` is about the requests
  that are still to be sent. `InfoSurvives` is not inductive: a clean-up holds the
  ids of rows it has read long ago. What is: each row that is about to be deleted is
  `Redundant`, that is, a better row with the same content is on the same contact, and
  the better one of a better one is better still. A merge moves rows together, so it
  keeps that; numbers are never used again, so a late deletion hits its own row or
  none. `EmployerKept` adds that as long as nothing has failed a PUT without employer
  is under way only for a person who has none. Answers put lists of requests in
  front of what is left, so there are lemmas on what concatenation, flattening and
  sorting by number keep; they are by induction on the length.
  `NobodyIsLost` is about the requests one clean-up still has to send, together (`Plan`):
  whoever was on a deal is on a deal of that title, himself or by a namesake, where the
  plan lets him stay (`IsOn`, `Stays`), or it is going to add one (`GetsOn`). That is kept
  because what gets members does not get deleted, a deal that is put back whole gets none
  meanwhile (`Apart`), and a member to be removed has a namesake who is not (`Backed`).
  Deals and names are compared by keys that merging, mending titles and removing by name
  all keep (`DealKey`, `NameKey`): titles that are the same without their company are the
  same under the key when they are mended (`SameTitles`). The clean-up acts on old
  listings, so each request is right about the records that are still there (`Proper`),
  commits come before the next listing (`InTurn`), and a request that is refused, lost or
  sent to the second endpoint leaves a plan (`After`). Others may do whatever takes nothing away
  and changes no name or title (`Grows`). `NobodyRenames` is a hypothesis because it is
  needed: of two namesakes on a deal `oo opportunities dedupe-members` removes one, and when the
  other is given another name between the reading and the removal nobody of the name is
  left. The clean-up of everything merges namesakes first; that nobody is cut off by it
  beside the renames of the instance TLC checks (`crm`).
* `WorkProofs`, with its definitions in `WorkInvariants`. Two sets of facts serve any property of `Work`. `Good` follows each answer
  of each command: what it brings are well-formed requests of kinds the command had
  asked for, so that nobody removes, renames or replaces unless his job says so
  (`WorkThenIsGood`, `AlternativesAreGood`). `Outcome` follows each request to the portal:
  numbers are fresh, records keep their fields, contacts of projects are only added
  unless the request removes (`EffectOutcome`), also when it is applied twice.
  `StepMoves` joins them to what a step does to a session. `PeopleAreLinked` then needs
  one thing more: while a linking has not failed, everybody is linked or one of the
  requests it still has to send `Carries` the others, that is, whoever is missing on
  the portal now, not in the listing from before, is among the companies and authors
  it has left, or is the one it is about to link. `MessagesAreNotStale` compares the portal
  with the one of the start (`Keeps`): an invoice has the notes and the PDF it had, or no
  PDF, or one made since under a new number (`NewPDF`); that is why regenerating twice at
  once is harmless, although the second trailing space takes the first away. It needs
  that whoever puts an invoice back puts its own number (`PutsBack`), and then goes from
  request to request: the notes read are not those of the start or the PDF is new
  (`Touching`), it is new when it is fetched, and what is saved and attached is a copy made
  since (`Copied`). `MailIsFetched` follows each message of the start: it has been noted,
  that is read or passed over, or at least as many messages as the pages behind the walk
  hold are newer, so that the walk has it before it (`Walking`); after an answer the
  messages of the page come first and then the next page, or all are noted (`Reading`).
  As mails only come in (`MailsStay`) a message never moves to an earlier page, and one
  of a page that is not full is on it or was noted (`PageHolds`). `BoardStands` follows a sync from
  request to request: what the sync believes of the project is so (`BoardFits`: the ids
  of its milestones, the titles it takes for there), and each item of the board is on
  the portal, is what the next request of the sync makes, or is among the items that it
  has left (`Carry`), or the sync has failed. As nothing is taken away (`InWorkStays`),
  both stay true while others work. A sync looks up the milestone of a task in what it
  believes (board.go:131, 196), so that of each missing task is before it or known
  (`NestedIn`), which is how a file is read: tasks are listed under their milestone.
  That no task appears that no board lists (`NewListed`) needs that nobody makes tasks
  by hand, and that no other command makes any (`Asks`). `NoFileIsCutOff` has two parts
  (`WritersGoOn`). In what a session has left to send, each request that makes a local
  file is followed by the two that fetch its contents, for a path that the session's
  job names (`InTurn`); and for each file that is cut off, the next request of such a
  session is one of these two or the removal (`LookedAfter`). When one of them fails, or
  is refused because somebody deleted the portal's file, `DownloadFailed` puts the removal
  in front of the rest. Two downloads to one path are no exception: as long as the file
  is cut off, the one that made it last is not at its end. Each part is about paths and
  not about actors, so it holds for any number of them. `FilesArrive` follows the file
  for a task from request to request (`Forwards`), over up to five: the task, its project,
  the project's listing when it has no folder of its own, the upload, the number to the
  task. What is hard is that the file stays as it was sent until the command has ended
  and after. A request that changes a file has its number from the user, who can only
  name files of the start, or is the conversion that has made the file as its scratch copy
  (`Tame`, `Aims`); so a file that is new is safe from everybody (`Held`) from the moment
  of its upload, since its number was given to nobody else, also when the answer was
  lost and the upload repeated: then the later of the two is attached. `CopiesAreKept`
  says that clean-ups lose no document, any number of them beside uploads, copies,
  conversions and new folders (`CleanersAgree`). Each listing is old when it is used: the file
  it would keep may have been deleted by another clean-up. So the invariant (`Tidy`) is
  about what was listed and not about what is kept. A file in a listing is as it was, or
  it is gone and another of its name is there that is outside of trash folders or later
  (`Remembers`, `Spare`); each deletion still to be sent has such a file too
  (`Expendable`). A deletion can take that file away, but then there is a better one than
  it, for the order of places and times is one (`BetterOrder`, `SpareLasts`). Three things
  would break it, and `CleanersAgree` names them: an update makes the worse of two the better
  one after it was listed, two files of one time are each other's duplicate for two
  clean-ups, and a conversion deletes its scratch copy although it is the latest of its
  name. TLC checks the invariant (`Clearing`) on the instance too.

Only model-checked:

* liveness (`EveryCallReturns`, `EveryRunReturns`, `EveryOperationEnds`,
  `EveryCommandEnds`, `EveryReadReturns`, `SettlesWhenLeftAlone`): fairness is out of the
  prover's reach;
* `ReappliedSafely` of `Work` and `ContactsAreClean` of `CRM`: they compare the end of a
  command with its beginning, and rely on which commands the run puts beside each other;
* `NobodyIsCutOff` of `CRM` where contacts are renamed beside the clean-up;
* `CleanupKeepsACopy` where it speaks of one clean-up that nobody else's deletions or scratch
  copies meet, while files are updated (`CleansAlone`).

The library's induction theorems take an operator as a parameter and none of the
installed provers can instantiate one. Induction over lengths is done through the
least counterexample instead (`LeastNat`), for the folds and recursive functions of
`Catalog`, `CRM` and `Work` that need it.

## 7. Not modelled

* Elasticsearch queries, SQL text, JSON envelopes, environment variables, URL and
  header construction: pure functions of one request. `InvalidateToken` has no caller.
* `internal/docpipe` and `internal/docx`: external tools over temporary files, and
  transformations of one archive. The indexer's view, a text or an error, is modelled.
* Spreadsheet updates, links, CSV and Markdown contents, mail box, address book and
  card parsing: data. Only whether they succeed and what file they leave is modelled.
* Argument parsing and printing of `oo`, its read-only listings and its docx commands.
* Terminal UI: column cursor, mouse, geometry, navigation tree, bootstrap.
* `PacedTransport` has no machine integers: with `OO_RETRY_MAX` 0 the backoff of
  `retry.go:136` doubles until the `Duration` overflows, after some sixty attempts.
* `FolderUpsert` and `Documents` assume that the portal gives numbers only once.

## 8. Limits seen while modelling

Three are findings with a run: the fallback of the replacing upload, the clean-up of
invoice PDFs, and the deletion of files by number. The others are not properties, or
are kept out of the instances, because no sentence of the repository promises more
or because they are wording rather than control.

Transport and files.

* The gate is read once, before the wait for a token (ratelimit.go:85, 169), so a
  request may leave after another goroutine has closed it; docs/rate-limiting.md:14
  reads as if none did. `NoSlipUnlessExtended` says exactly when.
* `retryStoreOp` nests `DoRetry`: up to `Attempts` squared requests (retry.go:20,
  filestore_core.go:174). `RequestBudget` is that bound.
* `ensureToken` logs in under `context.Background()` (auth.go:165): a cancelled caller
  returns late.
* Errors of the SQL store are never transient, so no read falls back from it
  (filestore_facade.go:230-249).
* A failed folder lookup is kept as the empty title for the life of the client
  (files_path.go:45): `PathsAgree` relies on it, and names stay ids.
* client.go:30 calls `Client` sequential although the indexer and the UI share it.
* Two in-place writers of different formats delete each other's keeper
  (files_stem.go:205, 220); `folder_team` therefore speaks of runs that all succeed.
  With more writers than the instance's even those may leave no document, and a
  clean-up beside a replacing upload may take its body: hence `OneWriter` in the
  theorems.

Documents.

* `uploadLocal` finds a clash with the second file after the first is sent
  (cmd/oo/dav.go:276-277 says before anything is sent). `ensurePath` makes twins when
  two run at once, or when an answer is lost. `ReappliedSafely` speaks of one after the
  other in which no request fails, on a portal that holds a part of the path and of the
  board, as a run that broke off leaves it.
* `oo docs pdf` leaves its scratch file when presigning or conversion fails, and
  loses it when its folder is deduplicated meanwhile; the instance keeps the scratch
  folder outside of the project.
* `oo dav download` over a local file removes it when it fails. `oo docs pdf` does not
  (docs.go:159-167), so `DownloadsAreWhole` leaves out the paths that conversions write to.
  A body comes in one step, so two downloads that write into one path at a time, whose
  pieces the file system would mix, are not told apart.
* Of copies of one time a clean-up keeps the one listed first (files_dedupe.go:316); in the
  model all clean-ups keep the same one. The theorem assumes that times differ.
* A folder whose listing is refused counts as a file in `stat`.
* A deletion of several ids that is retried starts again at the first, which is gone.

CRM, projects, business.

* `UpdateOpportunityTitle` writes back what it has read (crm.go:545) and loses members
  that were linked meanwhile; `NobodyIsCutOff` speaks of the members from before, and
  of one clean-up at a time. Errors of `AddOpportunityMember` are dropped and the deal is
  deleted (crm_dedupe.go:155): `NobodyIsCutOff` excepts these
  (crm_dedupe.go:123 says that members are relinked first; TLC finds the loss at once when
  `~Dropped` is left out).
* The listing of deals asks for no order (crm.go:417); the model has them in the order of
  their numbers, and no property says that a pass sees every deal.
* A dry run of the board counts a title that is listed twice twice (board.go:123-124).
* A board keys tasks by their title in the project (board.go:170): one that is listed under
  two milestones, or in two boards, is made once, under the first that comes to it.
  `BoardIsThere` asks for one of them.
* `oo prj update` sends the text `<nil>` for an absent description and an empty title
  with `--responsible` only.
* `UpdateInvoice` leaves out the consignee. A failed deletion leaves the user blocked
  (users.go:134-142). `SendMail` insists on a recipient where the help shows none.
* The walk over a mail folder skips a mail when others are removed meanwhile.

Catalog.

* An address finds companies too (match.go:26), so a person's entry may get the id of
  a company, and the person may be made twice; `EveryTwinComesOfALostId` assumes
  `CompaniesHaveNoAddress`. A run that is stopped before it saves makes its contacts
  again, and so does the next run when the answer to a creation was lost; the
  transport sends such a request again by itself (http.go:213), which makes twins at
  once, also of a company. `TwinsComeOfLostIds` counts these in `past`.
  `EmployersAreLinked` speaks of runs in which every request succeeded in the end,
  repeated or not: when the read that `UpdatePerson` makes first fails, it sends no
  employer, which unlinks the person (crm.go:208). A merge without the old catalog
  among its inputs forgets ids and approvals. Edits of the file during a run are
  overwritten. Of two companies of one name a person gets the first the search shows,
  and of two entries of one person that name different employers the last wins;
  `EmployersAreLinked` excepts both.

Terminal UI.

* A filter that hides a row makes drawing panic (table.go:479, CHANGELOG.md:337).
* Infinite scroll of a mail folder ends early (mails.go:84, CHANGELOG.md:339).
* A page that arrives after the user has switched sections is appended to the other
  list (app.go:343, fetch/list.go:349).
* With the details of two rows under way and answered in the other order the pane
  stays on a row the cursor has left (app.go:351).
