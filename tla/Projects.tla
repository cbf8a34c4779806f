------------------------------- MODULE Projects -------------------------------
(***************************************************************************)
(* Projects of a portal and the commands that work on them: oo projects,   *)
(* oo tasks, the board (board.go) and the linking of people               *)
(* (cmd/oo/projects.go), with the client methods they call.                *)
(*                                                                         *)
(* What a request does to the portal is external to the repository.        *)
(***************************************************************************)
EXTENDS Scripts, FiniteSets, FiniteSetsExt, SequencesExt

None == 0
Absent == "absent"      \* a field the portal leaves out of its answer

-----------------------------------------------------------------------------
(* The portal.                                                             *)

NewProject(title, note, owner) ==
    [title |-> title, note |-> note, owner |-> owner, team |-> {}, contacts |-> {},
     folder |-> None, listed |-> <<>>]

\* An empty field of a PUT leaves the stored one.
Stored(old, new) == IF new = "" THEN old ELSE new
PutProject(old, body) ==
    [old EXCEPT !.title = Stored(@, body.title), !.note = Stored(@, body.note),
                !.owner = Stored(@, body.owner)]

DropProject(p, id) ==
    [p EXCEPT !.projects   = Drop(@, {id}),
              !.milestones = Drop(@, {m \in DOMAIN @ : @[m].project = id}),
              !.tasks      = Drop(@, {t \in DOMAIN @ : @[t].project = id})]

\* The tasks of a milestone that goes are of none then.
Unset(tasks, id) == [t \in DOMAIN tasks |-> [tasks[t] EXCEPT !.milestone = IF @ = id THEN None ELSE @]]

DropMilestone(p, id) == [p EXCEPT !.milestones = Drop(@, {id}), !.tasks = Unset(@, id)]

NewTask(project, title, milestone) ==
    [project |-> project, title |-> title, milestone |-> milestone, open |-> TRUE,
     parts |-> <<>>, files |-> {}]

ProjectsEffect(p, r) ==
    CASE r.op = "add project"    -> Add(p, "projects", r.val)
      [] r.op = "put project"    -> [p EXCEPT !.projects[r.at] = PutProject(@, r.val)]
      [] r.op = "drop project"   -> DropProject(p, r.at)
      [] r.op = "join"           -> [p EXCEPT !.projects[r.at].team = @ \cup {r.val}]
      [] r.op = "leave"          -> [p EXCEPT !.projects[r.at].team = @ \ {r.val}]
      [] r.op = "put team"       -> [p EXCEPT !.projects[r.at].team = r.val]
      [] r.op = "link"           -> [p EXCEPT !.projects[r.at].contacts = @ \cup {r.val}]
      [] r.op = "unlink"         -> [p EXCEPT !.projects[r.at].contacts = @ \ {r.val}]
      [] r.op = "add milestone"  -> Add(p, "milestones", [project |-> r.at, title |-> r.val])
      [] r.op = "drop milestone" -> DropMilestone(p, r.at)
      [] r.op = "add task"       -> Add(p, "tasks", NewTask(r.at, r.val.title, r.val.milestone))
      [] r.op = "add subtask"    -> [p EXCEPT !.tasks[r.at].parts = Append(@, r.val)]
      [] r.op = "status"         -> [p EXCEPT !.tasks[r.at].open = (r.val = "1")]
      [] r.op = "drop task"      -> [p EXCEPT !.tasks = Drop(@, {r.at})]
      [] OTHER                   -> p

InProject == {"project", "project files", "milestones", "tasks of", "contacts of", "team", "put project",
              "drop project", "join", "leave", "put team", "link", "unlink", "add milestone"}
AtTask    == {"task", "add subtask", "status", "drop task"}

ProjectsAccepts(p, r) ==
    CASE r.op \in InProject      -> r.at \in DOMAIN p.projects
      [] r.op \in AtTask         -> r.at \in DOMAIN p.tasks
      [] r.op = "add task"       -> /\ r.at \in DOMAIN p.projects
                                    /\ r.val.milestone \in DOMAIN p.milestones \cup {None}
      [] r.op = "drop milestone" -> r.at \in DOMAIN p.milestones
      [] OTHER                   -> r.op # "bad date"

ProjectsCreates == {"add project", "add milestone", "add task", "add subtask"}

-----------------------------------------------------------------------------
(* oo projects                                                             *)

\* Nobody is named as responsible: the portal's users are listed to find oneself.
PrjCreate(title, owner) ==
    (IF owner = "" THEN <<Must("users", 0, 0)>> ELSE Nothing)
      \o <<Must("add project", 0, NewProject(title, Absent, IF owner = "" THEN "self" ELSE owner))>>

UpdateProject(id, body) == <<Must("put project", id, body), Try("project", id, "")>>

\* Fields that are not named are filled in from the project, unless a responsible is named.
PrjUpdate(id, title, note, owner) ==
    LET body == [title |-> title, note |-> note, owner |-> owner]
    IN  IF owner = "" THEN <<For("update project", Must("project", id, body))>>
                      ELSE UpdateProject(id, body)

\* fmt.Sprint of a field that is not there.
Sprint(v) == IF v = Absent THEN "<nil>" ELSE v
Filled(new, old) == IF new = "" THEN Sprint(old) ELSE new

FillProject(cur, body) ==
    [title |-> Filled(body.title, cur.title), note |-> Filled(body.note, cur.note),
     owner |-> cur.owner]

PrjDelete(ids)          == ForEach(ids, LAMBDA id : Must("drop project", id, 0))
PrjTeamAdd(id, users)   == ForEach(users, LAMBDA u : Must("join", id, u))
PrjTeamRemove(id, users) == ForEach(users, LAMBDA u : Must("leave", id, u))
PrjTeamSet(id, users)   == <<Must("put team", id, users)>>
PrjContactsAdd(id, contacts)    == ForEach(contacts, LAMBDA c : Must("link", id, c))
PrjContactsRemove(id, contacts) == ForEach(contacts, LAMBDA c : Must("unlink", id, c))

PrjMilestoneCreate(id, title) == <<Must("self", 0, 0), Must("add milestone", id, title)>>
PrjMilestoneDelete(ids) == ForEach(ids, LAMBDA m : Must("drop milestone", m, 0))

\* Commands that read once and print.
PrjList           == <<Must("projects", 0, 0)>>
PrjGet(id)        == <<Must("project", id, "")>>
PrjMilestones(id) == <<Must("milestones", id, 0)>>
PrjTeamList(id)   == <<Must("team", id, 0)>>
PrjContactsList(id) == <<Must("contacts of", id, 0)>>
Shows(id) == {PrjList, PrjGet(id), PrjMilestones(id), PrjTeamList(id), PrjContactsList(id)}

-----------------------------------------------------------------------------
(* oo tasks                                                                *)

\* With a start day or a milestone the typed request is sent; else the form, for oneself.
TaskCreate(id, title, milestone, start) ==
    LET task == [title |-> title, milestone |-> milestone]
    IN  (IF start = "" /\ milestone = None THEN <<Must("self", 0, 0)>> ELSE Nothing)
          \o <<Must("add task", id, task)>>

SubtaskAdd(task, titles) == ForEach(titles, LAMBDA t : Must("add subtask", task, t))

StatusCode(status) == IF status = "open" THEN "1" ELSE "2"
TaskUpdate(id, status) == <<Must("status", id, StatusCode(status))>>
TaskDelete(ids) == ForEach(ids, LAMBDA id : Must("drop task", id, 0))

\* The listing, and with --verbose each task once more; a task that is gone stays as listed.
TaskList(id, verbose) == <<For(IF verbose THEN "each task" ELSE "", Must("tasks of", id, 0))>>
Details(p, id) ==
    {ForEach(SetToSeq({t \in DOMAIN p.tasks : p.tasks[t].project = id}), LAMBDA t : Try("task", t, 0))}

-----------------------------------------------------------------------------
(* The board: projects, milestones and tasks of a file, upserted by title. *)
(* An item is a milestone (its task is "") or a task under one.  state is  *)
(* what SyncBoard keeps while it works on a project: the items to come,    *)
(* haveMS, haveTask, whether the user's own id is cached, and the projects *)
(* to come.                                                                *)

Item(milestone, task, day) == [milestone |-> milestone, task |-> task, day |-> day]

SyncProjects(board, apply, self) ==
    IF board = <<>> THEN Nothing
    ELSE <<For("board", Must("milestones", Head(board).project,
             [items |-> Head(board).items, apply |-> apply, ms |-> <<>>, have |-> {},
              self |-> self, more |-> Tail(board)]))>>

SyncBoard(board, apply) == SyncProjects(board, apply, FALSE)

\* Titles to ids; of several milestones of a title the last one listed, which may be any.
BoardMilestoneIDs(p, id) ==
    LET rows == {m \in DOMAIN p.milestones : p.milestones[m].project = id}
    IN  {f \in [{p.milestones[m].title : m \in rows} -> rows] :
            \A t \in DOMAIN f : p.milestones[f[t]].title = t}

BoardTaskTitles(p, id) ==
    {p.tasks[t].title : t \in {u \in DOMAIN p.tasks : p.tasks[u].project = id}}

Tasks(r, ms) == <<For("board tasks", Must("tasks of", r.at, [r.val EXCEPT !.ms = ms]))>>

\* Mutant: one map for the titles of milestones and tasks.
OneMap(state, i) ==
    LET item == state.items[i]
    IN  (IF item.task = "" THEN item.milestone ELSE item.task) \in DOMAIN state.ms \cup state.have

IsThere(state, i) ==
    IF state.items[i].task = "" THEN state.items[i].milestone \in DOMAIN state.ms
                                ELSE state.items[i].task \in state.have

MissingItems(state) == {i \in DOMAIN state.items : ~IsThere(state, i)}

\* The first missing item is created; the others follow its answer.
Upsert(project, state) ==
    LET item == state.items[Min(MissingItems(state))]
        rest == [state EXCEPT !.items = SubSeq(@, Min(MissingItems(state)) + 1, Len(@))]
        Creating(r) == <<[For("upsert", r) EXCEPT !.extra = rest, !.counts = TRUE]>>
        next == SyncProjects(state.more, state.apply, state.self)
    IN  IF MissingItems(state) = {} THEN next
        ELSE IF ~state.apply
             THEN ForEach(SetToSeq(MissingItems(state)), LAMBDA i : Counted(Must("", 0, 0))) \o next
        ELSE IF item.day = "bad" THEN <<Must("bad date", 0, 0)>>
        ELSE IF item.task # ""
             THEN Creating(Must("add task", project,
                      [title |-> item.task, milestone |-> state.ms[item.milestone]]))
        ELSE IF ~state.self
             THEN <<For("own id", Must("self", project, [state EXCEPT !.self = TRUE]))>>
        ELSE Creating(Must("add milestone", project, item.milestone))

\* Mutant: the title of a task just created is not noted.
UpsertedMilestones(p, r) ==
    IF r.op = "add milestone" THEN [r.extra EXCEPT !.ms = Put(@, r.val, LastId(p))] ELSE r.extra

Upserted(p, r) ==
    IF r.op = "add milestone" THEN [r.extra EXCEPT !.ms = Put(@, r.val, LastId(p))]
                              ELSE [r.extra EXCEPT !.have = @ \cup {r.val.title}]

-----------------------------------------------------------------------------
(* Linking the companies given and the authors of a repository.  state is  *)
(* what linkProjectPeople keeps: the links it knows of and what is to do.  *)

\* Authors with enough commits, each address once, in the order of the log.
ParseShortlog(log, minCommits) ==
    LET Enough(a) == a.commits >= minCommits /\ a.email # ""
        First(i)  == ~\E j \in 1..(i - 1) : Enough(log[j]) /\ log[j].email = log[i].email
        kept      == {i \in DOMAIN log : Enough(log[i]) /\ First(i)}
    IN  ForEach(SetToSortSeq(kept, <), LAMBDA i : log[i].email)

LinkPeople(id, companies, authors, dryRun) ==
    <<For("links", Must("contacts of", id,
        [have |-> {}, companies |-> companies, authors |-> authors, dry |-> dryRun]))>>

AuthorNext(project, state) ==
    IF state.authors = <<>> THEN Nothing ELSE <<For("author", Must("people", project, state))>>

LinkOne(project, contact, rest) ==
    <<[For("linked", Must("link", project, contact)) EXCEPT !.extra = rest, !.counts = TRUE]>>

\* A company, then an author at a time; an author is looked up among all contacts.
LinkNext(project, state) ==
    LET missing == {i \in DOMAIN state.companies : state.companies[i] \notin state.have}
        i       == Min(missing)
    IN  IF missing # {} /\ state.dry
        THEN ForEach(SetToSeq(missing), LAMBDA x : Counted(Must("", 0, 0)))
               \o AuthorNext(project, [state EXCEPT !.companies = <<>>])
        ELSE IF missing # {}
        THEN LinkOne(project, state.companies[i],
                     [state EXCEPT !.companies = SubSeq(@, i + 1, Len(@))])
        ELSE AuthorNext(project, [state EXCEPT !.companies = <<>>])

\* Mutant: the first author that is no contact ends the linking.
AuthorOrEnd(p, r) ==
    LET email == Head(r.val.authors)
        rest  == [r.val EXCEPT !.authors = Tail(@)]
    IN  IF email \notin DOMAIN p.people THEN Nothing
        ELSE IF r.val.dry \/ p.people[email] \in r.val.have THEN AuthorNext(r.at, rest)
        ELSE LinkOne(r.at, p.people[email], rest)

\* Authors that are no contacts, or linked already, are passed over.
AuthorFound(p, r) ==
    LET email == Head(r.val.authors)
        rest  == [r.val EXCEPT !.authors = Tail(@)]
    IN  IF email \notin DOMAIN p.people \/ p.people[email] \in r.val.have
        THEN AuthorNext(r.at, rest)
        ELSE IF r.val.dry THEN <<Counted(r)>> \o AuthorNext(r.at, rest)
        ELSE LinkOne(r.at, p.people[email], rest)

-----------------------------------------------------------------------------
ProjectsThen(p, r) ==
    CASE r.use = "update project" -> {UpdateProject(r.at, FillProject(p.projects[r.at], r.val))}
      [] r.use = "each task"      -> Details(p, r.at)
      [] r.use = "board"          -> {Tasks(r, ms) : ms \in BoardMilestoneIDs(p, r.at)}
      [] r.use = "board tasks"    -> {Upsert(r.at, [r.val EXCEPT !.have = BoardTaskTitles(p, r.at)])}
      [] r.use = "own id"         -> {Upsert(r.at, r.val)}
      [] r.use = "upsert"         -> {Upsert(r.at, Upserted(p, r))}
      [] r.use = "links"          -> {LinkNext(r.at, [r.val EXCEPT !.have = p.projects[r.at].contacts])}
      [] r.use = "author"         -> {AuthorFound(p, r)}
      [] r.use = "linked"         -> {LinkNext(r.at, [r.extra EXCEPT !.have = @ \cup {r.val}])}
      [] OTHER                    -> {Nothing}
=============================================================================
