------------------------------ MODULE CRMPortal ------------------------------
(***************************************************************************)
(* The CRM part of a portal as the client sees it: contacts (companies and *)
(* persons, with rows of contact information), deals and cases with their  *)
(* members, tasks and tags.  What a request does to the portal is external *)
(* to the repository; the keys under which the client takes two records    *)
(* for the same are its own.                                               *)
(*                                                                         *)
(* A name is a stem and a note: "form" (a legal form or a slogan after a   *)
(* company), "org" (a company in brackets after a person) or "".  A title  *)
(* is a leading "@" or none, a role and a company.  Case and spacing are   *)
(* left out: every comparison in the code ignores them.                    *)
(***************************************************************************)
EXTENDS Scripts, FiniteSets, FiniteSetsExt, SequencesExt

NoOne == 0

-----------------------------------------------------------------------------
(* Keys                                                                    *)

\* Legal form and slogan do not count.
CompanyGroupingKey(name) == IF name.note = "form" THEN [name EXCEPT !.note = ""] ELSE name

\* First and last name as they are.
NormalizePersonKey(name) == name

\* A company in a person's last name is an annotation.
CleanPersonNames(name) == IF name.note = "org" THEN [name EXCEPT !.note = ""] ELSE name

\* "Role @ Company", or the role alone; a leading "@" stays in the key.
DealTitleKey(title, ignoreCompanySuffix) ==
    IF ignoreCompanySuffix /\ title.role # ""
    THEN [title EXCEPT !.role = "", !.company = title.role]
    ELSE title

FixDealTitle(title) == [title EXCEPT !.lead = FALSE]

\* Mutant of GroupContactInfoRows: no row of a group is kept.
RepeatedRows(rows) == {r.id : r \in {q \in rows : \E x \in rows \ {q} : x.key = q.key}}

\* Rows that repeat the type and value of another: the primary one stays, else the lowest id.
GroupContactInfoRows(rows) ==
    LET Same(r) == {q \in rows : q.key = r.key}
        Keep(r) == LET first == {q \in Same(r) : q.primary}
                   IN  Min({q.id : q \in IF first = {} THEN Same(r) ELSE first})
    IN  {r.id : r \in {q \in rows : q.id # Keep(q)}}

\* Members with the name of another one; the lowest id stays.
DedupeMembersByDisplayName(contacts, members) ==
    {m \in members : \E k \in members :
        /\ k < m
        /\ CompanyGroupingKey(contacts[k].name) = CompanyGroupingKey(contacts[m].name)}

-----------------------------------------------------------------------------
(* What a request that is applied does.                                    *)

\* A merged contact is gone for good; its rows, memberships and employees move.
Moved(from, to, i) == IF i = from THEN to ELSE i

MergedContact(p, from, to, c) ==
    [p.contacts[c] EXCEPT !.org  = Moved(from, to, @),
                          !.rows = IF c = to THEN @ \cup p.contacts[from].rows ELSE @]

MergedDeal(p, from, to, d) ==
    [p.deals[d] EXCEPT !.members = {Moved(from, to, m) : m \in @}]

MergeInto(p, from, to) ==
    [p EXCEPT !.contacts = [c \in DOMAIN @ \ {from} |-> MergedContact(p, from, to, c)],
              !.deals = [d \in DOMAIN @ |-> MergedDeal(p, from, to, d)],
              !.into = Put([i \in DOMAIN @ |-> Moved(from, to, @[i])], from, to)]

DropContact(p, id) ==
    [p EXCEPT
       !.contacts = [i \in DOMAIN @ \ {id} |-> [@[i] EXCEPT !.org = IF @ = id THEN NoOne ELSE @]],
       !.deals = [d \in DOMAIN @ |-> [@[d] EXCEPT !.members = @ \ {id}]]]

AddRow(p, id, row) ==
    [p EXCEPT !.contacts[id].rows = @ \cup {Put(row, "id", NewId(p))}, !.next = @ + 1]

\* The PUT of a whole deal.  An empty list of members is not sent; contacts that are gone
\* cannot become members.
PutDeal(p, id, deal) ==
    [p EXCEPT !.deals[id] =
        [deal EXCEPT !.members = IF @ = {} THEN p.deals[id].members ELSE @ \cap DOMAIN p.contacts]]

Effect(p, r) ==
    CASE r.op = "merge"         -> MergeInto(p, r.val, r.at)
      [] r.op = "drop contact"  -> DropContact(p, r.at)
      [] r.op = "drop row"      -> [p EXCEPT !.contacts[r.at].rows = {q \in @ : q.id # r.val}]
      [] r.op = "drop deal"     -> [p EXCEPT !.deals = Drop(@, {r.at})]
      [] r.op = "drop task"     -> [p EXCEPT !.tasks = Drop(@, {r.at})]
      [] r.op = "add contact"   -> Add(p, "contacts", r.val)
      [] r.op = "add deal"      -> Add(p, "deals", r.val)
      [] r.op = "add task"      -> Add(p, "tasks", r.val)
      [] r.op = "add row"       -> AddRow(p, r.at, r.val)
      [] r.op = "add member"    -> [p EXCEPT !.deals[r.at].members = @ \cup {r.val}]
      [] r.op = "remove member" -> [p EXCEPT !.deals[r.at].members = @ \ {r.val}]
      [] r.op = "put deal"      -> PutDeal(p, r.at, r.val)
      [] r.op = "put person"    -> [p EXCEPT !.contacts[r.at].name = r.val.name,
                                             !.contacts[r.at].org = r.val.org]
      [] r.op = "put task"      -> [p EXCEPT !.tasks[r.at] = r.val]
      [] r.op = "add tag"       -> [p EXCEPT !.tags = @ \cup {r.val}]
      [] r.op = "tag"           -> [p EXCEPT !.contacts[r.at].tags = @ \cup {r.val}]
      [] r.op = "untag"         -> [p EXCEPT !.contacts[r.at].tags = @ \ {r.val}]
      [] OTHER                  -> p

Reads   == {"contacts", "contact", "deals", "deal", "tasks", "self", "company"}
OnContacts == {"contact", "drop contact", "drop row", "add row", "tag", "untag"}
OnDeals    == {"deal", "drop deal", "add member", "remove member", "put deal"}
OnTasks    == {"drop task", "put task"}

\* The records a request names exist, and so does an employer it names.
Accepts(p, r) ==
    /\ r.op \in OnContacts => r.at \in DOMAIN p.contacts
    /\ r.op \in OnDeals    => r.at \in DOMAIN p.deals
    /\ r.op \in OnTasks    => r.at \in DOMAIN p.tasks
    /\ r.op = "merge"      => {r.at, r.val} \subseteq DOMAIN p.contacts
    /\ r.op = "drop row"   => \E q \in p.contacts[r.at].rows : q.id = r.val
    /\ r.op = "add member" => r.val \in DOMAIN p.contacts
    /\ r.op = "remove member" => r.val \in p.deals[r.at].members
    /\ r.op = "put person" => {r.at, r.val.org} \subseteq DOMAIN p.contacts \cup {NoOne}

Creates(r) == r.op \in {"add contact", "add deal", "add task", "add row"}
=============================================================================
