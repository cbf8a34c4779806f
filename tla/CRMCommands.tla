----------------------------- MODULE CRMCommands -----------------------------
(***************************************************************************)
(* The CRM commands of oo (cmd/oo/contacts.go, opportunities.go, cases.go, *)
(* crm_tasks.go) with the client methods they call (crm.go, invoices.go),  *)
(* and the audit of deals.  A request a command checks ends it when it     *)
(* fails; the extras of a creation (rows, members, the text about a        *)
(* company) are tried and their errors dropped.                            *)
(***************************************************************************)
EXTENDS CRMCleanup

\* A contact, deal and task as a creating request brings them about.
NewContact(company, name, org) ==
    [company |-> company, name |-> name, org |-> org, rows |-> {}, tags |-> {}]
NewDeal(kind, title) == [kind |-> kind, title |-> title, members |-> {}, chance |-> 1]
NewRow(key, primary) == [key |-> key, primary |-> primary]

-----------------------------------------------------------------------------
(* Contacts                                                                *)

DeleteContacts(ids) == ForEach(ids, LAMBDA id : Must("drop contact", id, 0))

ContactsMerge(from, into) == <<Either(Must("merge", into, from))>>

InfoAdd(id, key) == <<Must("add row", id, NewRow(key, FALSE))>>

\* E-mail and phone become the primary rows of their kind, a LinkedIn page does not.
PersonsCreate(name, org, email, linkedin) ==
    <<[Must("add contact", 0, NewContact(FALSE, name, org)) EXCEPT !.extra = <<email, linkedin>>]>>

CompaniesCreate(name, email, website) ==
    <<[Must("add contact", 0, NewContact(TRUE, name, NoOne)) EXCEPT !.extra = <<email, website>>]>>

\* The text about a new company is a request of its own; so is each row.
AfterCreate(p, r) ==
    {(IF r.val.company THEN <<Try("company", LastId(p), 0)>> ELSE <<>>)
       \o <<Try("add row", LastId(p), NewRow(r.extra[1], TRUE)),
            Try("add row", LastId(p), NewRow(r.extra[2], FALSE))>>}

\* Mutant of UpdatePerson: the present employer is not looked up.
PutAsNamed(id, name, org, counts) ==
    <<[Must("put person", id, [name |-> name, org |-> org, counts |-> counts])
         EXCEPT !.counts = counts]>>

\* Without an employer to set, the present one is read and sent along: a PUT without it unlinks.
\* The read is no condition for the PUT.
UpdatePerson(id, name, org, counts) ==
    LET body == [name |-> name, org |-> org, counts |-> counts]
    IN  IF org # NoOne
        THEN <<[Must("put person", id, body) EXCEPT !.counts = counts]>>
        ELSE <<For("employer", Must("contact", id, body))>>

PutPerson(r, org) ==
    <<[Must("put person", r.at, [r.val EXCEPT !.org = org]) EXCEPT !.counts = r.val.counts]>>

PersonsUpdate(id, name, org) ==
    <<For("person update", Must("contact", id, [name |-> name, org |-> org]))>>

\* All persons, or those of one company, as they were listed.
PersonsFixNames(companyID, dryRun) ==
    IF companyID = NoOne
    THEN <<List("contacts", IF dryRun THEN "names to fix" ELSE "fix names")>>
    ELSE <<For("fix names of", Must("company", companyID, 0))>>

FixNames(rows) ==
    {FlattenSeq(ForEach(InOrder({x \in rows : ~x.of.company /\ CleanPersonNames(x.of.name) # x.of.name}),
        LAMBDA x : UpdatePerson(x.id, CleanPersonNames(x.of.name), x.of.org, TRUE)))}

\* One pass of the clean-up on its own.
DedupeCommand(op, pass) == <<List(op, pass)>>

\* Commands that only read, and print.
ContactsShow(id) == <<Must("contact", id, 0)>>
OpportunitiesShow(id) == <<Must("deal", id, 0)>>

\* A tag that exists is as good as created.
Tags(tag, id) == {Must("add tag", 0, tag), Must("tag", id, tag), Must("untag", id, tag)}
TagCommands(tag, id) == {<<r>> : r \in Tags(tag, id)}

-----------------------------------------------------------------------------
(* Deals and cases                                                         *)

\* Nobody is named as responsible: the user's own id is looked up first.
OpportunitiesCreate(title, contacts) ==
    << Must("self", 0, 0),
       [Must("add deal", 0, NewDeal("deal", title)) EXCEPT !.extra = contacts] >>

AfterDeal(p, r) == {ForEach(r.extra, LAMBDA c : Try("add member", LastId(p), c))}

\* The deal is read and put back whole.
OpportunitiesUpdate(id, title) == <<For("update", Must("deal", id, title))>>

UpdateOpportunity(p, r) ==
    {<<Must("put deal", r.at, OpportunityUpdateBody(p.deals[r.at], r.val))>>}

OpportunityPasses ==
    {DedupeCommand("deals", pass) : pass \in {"opportunities", "positions", "opportunity-members",
                                              "fix-titles"}}

DeleteOpportunities(ids) == ForEach(ids, LAMBDA id : Must("drop deal", id, 0))
MemberAdd(id, contact) == <<Must("add member", id, contact)>>

CasesCreate(title)  == <<Must("add deal", 0, NewDeal("case", title))>>

-----------------------------------------------------------------------------
(* Tasks                                                                   *)

TasksCreate == <<Must("self", 0, 0), Must("add task", 0, [owner |-> "self"])>>

DeleteTasks(ids) == ForEach(ids, LAMBDA id : Must("drop task", id, 0))

\* Tasks without an owner are collected page by page, at most max of them, then reassigned.
ReassignSelf(apply) ==
    <<Must("self", 0, 0), List("tasks", IF apply THEN "reassign" ELSE "to reassign")>>

NeedsOwner(task) == task.owner = "removed"

Reassign(rows) ==
    {ForEach(InOrder({x \in rows : NeedsOwner(x.of)}), LAMBDA x :
        [Must("put task", x.id, [x.of EXCEPT !.owner = "self"]) EXCEPT !.counts = TRUE])}

-----------------------------------------------------------------------------
(* The audit: what a reader of the portal is told about its deals (their   *)
(* files and tasks are left out).                                          *)

AuditClass(p, d) ==
    LET Twin(e) == DealTitleKey(p.deals[e].title, FALSE) = DealTitleKey(p.deals[d].title, FALSE)
        deal == p.deals[d]
    IN  IF \E e \in DOMAIN Deals(p) \ {d} : Twin(e) THEN "dup"
        ELSE IF deal.members = {} THEN "empty"
        ELSE IF deal.title.lead \/ deal.title.role = "" THEN "junk-title"
        ELSE "ok"

-----------------------------------------------------------------------------
\* A dry run counts what it would send and sends nothing.
DryRun(scripts) ==
    {ForEach(s, Counted) : s \in scripts}

Employees(p, companyID) ==
    {[id |-> i, of |-> p.contacts[i]] : i \in {j \in DOMAIN p.contacts : p.contacts[j].org = companyID}}

CRMThen(p, r) ==
    CASE r.op = "add contact"         -> AfterCreate(p, r)
      [] r.op = "add deal"            -> AfterDeal(p, r)
      [] r.use = "person update"      -> {UpdatePerson(r.at, r.val.name, r.val.org, FALSE)}
      [] r.use = "employer"           -> {PutPerson(r, p.contacts[r.at].org)}
      [] r.use = "fix names"          -> Paged(p.contacts, r, FixNames)
      [] r.use = "fix names of"       -> FixNames(Employees(p, r.at))
      [] r.use = "names to fix"       -> Paged(p.contacts, r, LAMBDA x : DryRun(FixNames(x)))
      [] r.use = "update"             -> UpdateOpportunity(p, r)
      [] r.use = "reassign"           -> Paged(p.tasks, r, Reassign)
      [] r.use = "to reassign"        -> Paged(p.tasks, r, LAMBDA x : DryRun(Reassign(x)))
      [] OTHER                        -> CleanupThen(p, r)

\* What is tried when a read fails: the PUT without an employer.
CRMOtherwise(r) == IF r.use = "employer" THEN {PutPerson(r, NoOne)} ELSE {}
=============================================================================
