--------------------------------- MODULE CRM ---------------------------------
(***************************************************************************)
(* The CRM under the commands that work on it: the clean-up of duplicates  *)
(* beside any other command, or beside a second clean-up.                  *)
(***************************************************************************)
EXTENDS CRMCommands

CONSTANTS Actors, Jobs, Portals, MaxFaults

ASSUME FaultsAssumption == MaxFaults \in Nat

-----------------------------------------------------------------------------
(* What a portal holds, and what a command may ask of it.                  *)

ContactFields == {"company", "name", "org", "rows", "tags"}
DealFields    == {"kind", "title", "members", "chance"}
TitleFields   == {"lead", "role", "company"}
RequestFields == {"op", "at", "val", "use", "extra", "onErr", "counts", "ways"}

Given(p) == 1 .. p.next - 1
RowsOf(p, c) == p.contacts[c].rows

IsRow(q, ids) == DOMAIN q = {"id", "key", "primary"} /\ q.id \in ids /\ q.primary \in BOOLEAN

\* Every record and every row of contact information has a number of its own.
HasNumbers(p) == /\ DOMAIN p = {"contacts", "deals", "tasks", "tags", "into", "next"}
                 /\ p.next \in Nat \ {0}
                 /\ DOMAIN p.contacts \subseteq Given(p)
                 /\ DOMAIN p.deals \subseteq Given(p)
                 /\ DOMAIN p.tasks \subseteq Given(p)

HasContacts(p) ==
    /\ \A c \in DOMAIN p.contacts : /\ DOMAIN p.contacts[c] = ContactFields
                                    /\ \A q \in RowsOf(p, c) : IsRow(q, Given(p))
    /\ \A c, d \in DOMAIN p.contacts : \A q \in RowsOf(p, c), x \in RowsOf(p, d) :
          q.id = x.id => c = d /\ q = x
    /\ DOMAIN p.into \subseteq Given(p) \ DOMAIN p.contacts

HasDeals(p) == \A d \in DOMAIN p.deals : /\ DOMAIN p.deals[d] = DealFields
                                         /\ p.deals[d].members \subseteq Given(p)

IsPortal(p) == HasNumbers(p) /\ HasContacts(p) /\ HasDeals(p)

\* The members of a deal are contacts of the portal, and its title has three parts.
IsLinked(p) == \A d \in DOMAIN p.deals : /\ p.deals[d].members \subseteq DOMAIN p.contacts
                                         /\ DOMAIN p.deals[d].title = TitleFields

\* The requests whose answer is a page of a listing, a contact, or a deal.
Listings == {"companies", "persons", "company-persons", "contact-info", "opportunity-members",
             "opportunities", "positions", "fix-titles", "fix names", "names to fix",
             "reassign", "to reassign"}
OfContact == {"rows", "employer", "person update"}
OfDeal    == {"members", "relink", "rename", "update"}

IsList(s) == Len(s) \in Nat /\ s = [i \in 1 .. Len(s) |-> s[i]]

\* Creating requests bring records without rows and members: those are requests of their own.
IsRequest(r) ==
    /\ DOMAIN r = RequestFields
    /\ r.use \in Listings  => /\ r.op \in {"contacts", "deals", "tasks"}
                              /\ IsFiniteSet(r.val)
                              /\ \A x \in r.val : x.id \in Nat
    /\ r.use \in OfContact => r.op = "contact"
    /\ r.use \in OfDeal    => r.op = "deal"
    /\ r.use = "employer"  => "org" \in DOMAIN r.val
    /\ r.use = "fix names of" => r.op = "company"
    /\ r.op = "add contact" => DOMAIN r.val = ContactFields /\ r.val.rows = {}
    /\ r.op = "add row" => DOMAIN r.val = {"key", "primary"} /\ r.val.primary \in BOOLEAN
    /\ r.op = "add deal" => /\ DOMAIN r.val = DealFields /\ r.val.members = {}
                            /\ DOMAIN r.val.title = TitleFields
                            /\ IsList(r.extra)
    /\ r.op = "put deal" => DOMAIN r.val = DealFields

\* The passes of a clean-up that merge contacts, and those that change deals.
ContactPasses == {"companies", "persons", "company-persons"}
DealPasses    == {"opportunity-members", "opportunities", "positions", "fix-titles"}
Passes        == ContactPasses \cup DealPasses

ASSUME PortalsAssumption == \A p \in Portals : IsPortal(p) /\ IsLinked(p) /\ p.into = <<>>

\* A listing begins with no rows, and a clean-up, or a pass of one, with nothing but listings.
\* A command that sends a person along with an employer sends one; a deal is sent whole only
\* after it has been read.
ASSUME JobsAssumption ==
    \A j \in Jobs : \A a \in Actors :
        /\ IsList(j[a])
        /\ \A i \in DOMAIN j[a] :
              /\ IsRequest(j[a][i])
              /\ j[a][i].op # "put deal"
              /\ j[a][i].op = "put person" => j[a][i].val.org # NoOne
              /\ j[a][i].use \in Listings => j[a][i].val = {}
              /\ j[a][i].use \in Passes \cup {"contact-info"} =>
                    \A k \in DOMAIN j[a] : j[a][k].op \in {"contacts", "deals"}

-----------------------------------------------------------------------------
VARIABLES portal, session, faults, jobs, start

INSTANCE Sessions WITH Then <- CRMThen, Otherwise <- CRMOtherwise

-----------------------------------------------------------------------------
\* Only the clean-up of everything looks for repeated contact information.
CleanupsOf(a) == Cardinality({i \in DOMAIN jobs[a] : jobs[a][i].use = "contact-info"})
Alone(a) == \A b \in Actors \ {a} : jobs[b] = Nothing

\* Nobody but the clean-ups deletes or merges records, or gives a deal another title.
Deletes == {"drop contact", "drop deal", "drop row", "remove member", "merge", "deal"}
OnlyCleanupsDelete ==
    \A a \in Actors : CleanupsOf(a) = 0 => \A i \in DOMAIN jobs[a] : jobs[a][i].op \notin Deletes

\* Where a contact has gone.
Heir(c) == IF c \in DOMAIN portal.into THEN portal.into[c] ELSE c

\* Two clean-ups, or passes of one, work beside each other.
Tidies(a) == \E i \in DOMAIN jobs[a] : jobs[a][i].use \in Passes
TwoCleanups == \E a \in Actors : \E b \in Actors \ {a} : Tidies(a) /\ Tidies(b)

\* Nobody gives a contact another name.  (Members are removed by the names that were read:
\* one whose namesake has been renamed since goes all the same.)
Renames == {"person update", "employer", "fix names", "fix names of"}
NobodyRenames == \A a \in Actors : \A i \in DOMAIN jobs[a] :
                    jobs[a][i].op # "put person" /\ jobs[a][i].use \notin Renames

Dropped == \E a \in Actors : session[a].dropped > 0

-----------------------------------------------------------------------------
\* Whoever was on a deal is on a deal of the same title: himself, the contact he was merged
\* into, or a namesake.
EverybodyIsOnADeal ==
    \A d \in DOMAIN start.deals : \A m \in start.deals[d].members :
        \E e \in DOMAIN portal.deals :
            /\ \E ignore \in BOOLEAN :
                  DealTitleKey(FixDealTitle(portal.deals[e].title), ignore)
                    = DealTitleKey(FixDealTitle(start.deals[d].title), ignore)
            /\ \E n \in portal.deals[e].members :
                  \/ n = Heir(m)
                  \/ CompanyGroupingKey(portal.contacts[n].name)
                       = CompanyGroupingKey(start.contacts[m].name)

\* crm_dedupe.go:131: deals are merged and deleted, contacts merged, members removed by name.
\* Whoever was on a deal is on one of the same title when all is done.  (An error of
\* AddOpportunityMember that the code drops is the exception.)
NobodyIsCutOff == AllEnded /\ OnlyCleanupsDelete /\ ~Dropped /\ ~TwoCleanups => EverybodyIsOnADeal

\* crm_dedupe.go:97: rows are deleted by ids read earlier, while another clean-up merges
\* contacts and deletes rows.  Every piece of contact information of a contact stays on
\* the contact he has become.
InfoSurvives ==
    OnlyCleanupsDelete =>
        \A c \in DOMAIN start.contacts : \A q \in start.contacts[c].rows :
            \E r \in portal.contacts[Heir(c)].rows : r.key = q.key

\* crm_dedupe.go:218: errors are counted and the passes go on, so a run may leave work behind,
\* which the next one finds.  After clean-ups of which one met no fault, with nobody else at
\* work, no two companies and no two persons go by the same name, and no contact has a row twice.
ContactsAreClean ==
    \A a \in Actors : Ended(a) /\ ~session[a].failed /\ Alone(a) /\ faults < CleanupsOf(a) =>
        LET rows == {[id |-> i, of |-> portal.contacts[i]] : i \in DOMAIN portal.contacts}
        IN  /\ DedupeCompanies(rows) = {Nothing}
            /\ DedupePersons(rows) = {Nothing}
            /\ \A c \in DOMAIN portal.contacts : GroupContactInfoRows(portal.contacts[c].rows) = {}

\* crm.go:213: the employer is sent along because a PUT without it unlinks.  A person who
\* had an employer still has one, or the employer is gone, or the read before the PUT failed.
EmployerKept ==
    (faults = 0 /\ OnlyCleanupsDelete) =>
        \A c \in DOMAIN portal.contacts :
            c \in DOMAIN start.contacts /\ start.contacts[c].org # NoOne
                => portal.contacts[c].org # NoOne
=============================================================================
