------------------------------ MODULE CRMCleanup ------------------------------
(***************************************************************************)
(* CleanupCRM (crm_dedupe.go, crm_dedupe_plan.go): seven passes over the   *)
(* CRM.  Each lists its records afresh, groups them by a key, and works    *)
(* off the groups with the ids of that listing.  Errors are counted and    *)
(* the pass goes on; only a listing that fails ends the run.               *)
(***************************************************************************)
EXTENDS CRMPortal

CONSTANTS ContactsPage    \* contacts and deals in one page of a listing (100 in the code)

-----------------------------------------------------------------------------
(* Listings: pages in the order of ids, until an offset passes the total.  *)

List(op, use) == For(use, Must(op, 0, {}))

SortedIds(ids) == [k \in 1..Cardinality(ids) |-> CHOOSE i \in ids : Cardinality({j \in ids : j <= i}) = k]

\* Contacts are asked for in the order of their numbers; of the deals the code asks no order
\* (crm.go:417), so that one may be on two pages or on none: no property says that a pass sees
\* every deal.
Page(ids, start) ==
    {SortedIds(ids)[i] : i \in {j \in 1..Cardinality(ids) : start < j /\ j <= start + ContactsPage}}

\* Mutant of NextStart: the offset stays where it is.
SameStart(start) == start

\* Where the next page starts.
NextStart(start) == start + ContactsPage

\* The rest of a paged listing, or what All makes of the rows it has brought.
\* r.at is the offset of the page r has fetched, r.val the rows before it.
Paged(records, r, All(_)) ==
    LET ids   == DOMAIN records
        chunk == {[id |-> i, of |-> records[i]] : i \in Page(ids, r.at)}
        rows  == r.val \cup chunk
    IN  IF NextStart(r.at) >= Cardinality(ids) \/ chunk = {}
        THEN All(rows)
        ELSE {<<[r EXCEPT !.at = NextStart(@), !.val = rows]>>}

\* Rows one after the other, by id.
InOrder(rows) == ForEach(SortedIds({x.id : x \in rows}), LAMBDA id : CHOOSE x \in rows : x.id = id)

-----------------------------------------------------------------------------
(* Merging contacts.                                                       *)

PickCanonicalID(ids) == Min(ids)

\* Groups of two and more rows with the same key, as sets of ids.
Groups(rows, Key(_)) ==
    {g \in {{q.id : q \in {x \in rows : Key(x.of) = k}} : k \in {Key(x.of) : x \in rows}} :
        Cardinality(g) > 1}

\* The form request first, then the one with a JSON body.
MergeContacts(primary, secondary) == Either(Tally("merge", primary, secondary))

MergePlan(group) ==
    ForEach(SortedIds(group \ {PickCanonicalID(group)}),
            LAMBDA sec : MergeContacts(PickCanonicalID(group), sec))

\* The groups come out of a Go map: in any order.
InAnyOrder(groups, Plan(_)) ==
    {FlattenSeq(ForEach(order, Plan)) : order \in SetToSeqs(groups)}

DedupeCompanies(rows) ==
    InAnyOrder(Groups({x \in rows : x.of.company}, LAMBDA c : CompanyGroupingKey(c.name)), MergePlan)

DedupePersons(rows) ==
    InAnyOrder(Groups({x \in rows : ~x.of.company}, LAMBDA c : NormalizePersonKey(c.name)), MergePlan)

DedupeCompanyPersons(rows) ==
    InAnyOrder(Groups({x \in rows : ~x.of.company /\ x.of.org # NoOne},
                      LAMBDA c : <<c.org, NormalizePersonKey(c.name)>>), MergePlan)

-----------------------------------------------------------------------------
(* Contact information, members, deals, titles.                            *)

\* Every contact is read again, then its repeated rows are deleted one by one.
DedupeContactInfo(rows) ==
    {ForEach(InOrder(rows), LAMBDA x :
        For("rows", Request("contact", x.id, 0, "count")))}

DropRows(p, id) ==
    {ForEach(order, LAMBDA row : Tally("drop row", id, row)) :
        order \in SetToSeqs(GroupContactInfoRows(p.contacts[id].rows))}

DedupeOpportunityMembers(rows) ==
    {ForEach(InOrder(rows), LAMBDA x :
        For("members", Request("deal", x.id, 0, "count")))}

RemoveMembers(p, id) ==
    {ForEach(order, LAMBDA m : Tally("remove member", id, m)) :
        order \in SetToSeqs(DedupeMembersByDisplayName(p.contacts, p.deals[id].members))}

\* Each secondary deal is read, its members are added to the primary one, and it is deleted.
DedupeOpportunities(rows, ignoreCompanySuffix) ==
    LET Relink(group) ==
            ForEach(SortedIds(group \ {PickCanonicalID(group)}), LAMBDA sec :
                For("relink", Request("deal", sec, PickCanonicalID(group), "count")))
    IN  InAnyOrder(Groups(rows, LAMBDA d : DealTitleKey(d.title, ignoreCompanySuffix)), Relink)

\* Mutant of RelinkMembers: the secondary deal is deleted before its members are read.
RelinkNobody(p, secondary, primary) == {<<Tally("drop deal", secondary, 0)>>}

RelinkMembers(p, secondary, primary) ==
    {ForEach(SortedIds(p.deals[secondary].members), LAMBDA m : Try("add member", primary, m))
        \o <<Tally("drop deal", secondary, 0)>>}

\* The listing's title decides whether a deal is renamed, and to what.
FixOpportunityTitles(rows) ==
    {ForEach(InOrder({x \in rows : FixDealTitle(x.of.title) # x.of.title}), LAMBDA x :
        For("rename", Request("deal", x.id, FixDealTitle(x.of.title), "count")))}

\* The deal as it was read, with the new title; the chance of success is set back to 1.
OpportunityUpdateBody(deal, title) == [deal EXCEPT !.title = title, !.chance = 1]

UpdateOpportunityTitle(p, id, title) ==
    {<<Tally("put deal", id, OpportunityUpdateBody(p.deals[id], title))>>}

-----------------------------------------------------------------------------
\* Mutant of CleanupCRM: contact information before the contacts are merged.
InfoFirst(ignoreCompanySuffix) ==
    << List("contacts", "contact-info"), List("contacts", "companies"),
       List("contacts", "persons"), List("contacts", "company-persons"),
       List("deals", "opportunity-members"), List("deals", "opportunities"),
       List("deals", "fix-titles") >>

CleanupCRM(ignoreCompanySuffix) ==
    << List("contacts", "companies"),
       List("contacts", "persons"),
       List("contacts", "company-persons"),
       List("contacts", "contact-info"),
       List("deals", "opportunity-members"),
       List("deals", IF ignoreCompanySuffix THEN "positions" ELSE "opportunities"),
       List("deals", "fix-titles") >>

Deals(p) == Restrict(p.deals, {d \in DOMAIN p.deals : p.deals[d].kind = "deal"})

\* What follows a listing, or the answer to one of the reads above.
CleanupThen(p, r) ==
    CASE r.use = "companies"           -> Paged(p.contacts, r, DedupeCompanies)
      [] r.use = "persons"             -> Paged(p.contacts, r, DedupePersons)
      [] r.use = "company-persons"     -> Paged(p.contacts, r, DedupeCompanyPersons)
      [] r.use = "contact-info"        -> Paged(p.contacts, r, DedupeContactInfo)
      [] r.use = "opportunity-members" -> Paged(Deals(p), r, DedupeOpportunityMembers)
      [] r.use = "opportunities"       -> Paged(Deals(p), r, LAMBDA x : DedupeOpportunities(x, FALSE))
      [] r.use = "positions"           -> Paged(Deals(p), r, LAMBDA x : DedupeOpportunities(x, TRUE))
      [] r.use = "fix-titles"          -> Paged(Deals(p), r, FixOpportunityTitles)
      [] r.use = "rows"                -> DropRows(p, r.at)
      [] r.use = "members"             -> RemoveMembers(p, r.at)
      [] r.use = "relink"              -> RelinkMembers(p, r.at, r.val)
      [] r.use = "rename"              -> UpdateOpportunityTitle(p, r.at, r.val)
      [] OTHER                         -> {Nothing}
=============================================================================
