-------------------------------- MODULE MCCRM --------------------------------
EXTENDS CRM

N(stem)       == [stem |-> stem, note |-> ""]
Form(stem)    == [stem |-> stem, note |-> "form"]
Org(stem)     == [stem |-> stem, note |-> "org"]
Title(lead, role, company) == [lead |-> lead, role |-> role, company |-> company]
Row(id, key, primary) == [id |-> id, key |-> key, primary |-> primary]
Contact(company, name, org, rows) == [NewContact(company, name, org) EXCEPT !.rows = rows]
Deal(title, members) == [NewDeal("deal", title) EXCEPT !.members = members, !.chance = 2]

\* Two spellings of a company, each with an employee of the same name, and two deals.
Doubles ==
    [contacts |-> <<Contact(TRUE, N("Acme"), NoOne, {Row(11, "mail", FALSE)}),
                    Contact(TRUE, Form("Acme"), NoOne, {Row(12, "mail", TRUE), Row(13, "mail", FALSE)}),
                    Contact(FALSE, N("Ann"), 1, {Row(14, "phone", FALSE)}),
                    Contact(FALSE, N("Ann"), 2, {})>>,
     deals    |-> [i \in {5, 6} |-> IF i = 5 THEN Deal(Title(FALSE, "Dev", "Acme"), {1, 2})
                                             ELSE Deal(Title(FALSE, "Dev", "Acme"), {4})],
     tasks    |-> [i \in {7, 8} |-> [owner |-> IF i = 7 THEN "removed" ELSE "other"]],
     tags     |-> {}, into |-> <<>>, next |-> 20]

\* Annotated names, malformed titles, a deal that only differs by company.
Messy ==
    [contacts |-> <<Contact(TRUE, N("Acme"), NoOne, {}),
                    Contact(FALSE, Org("Ann"), 1, {}),
                    Contact(FALSE, N("Ann"), 1, {Row(12, "mail", FALSE)})>>,
     deals    |-> [i \in {5, 6} |-> IF i = 5 THEN Deal(Title(TRUE, "Dev", "Acme"), {1, 3})
                                             ELSE Deal(Title(TRUE, "Dev", "Bolt"), {2})],
     tasks    |-> <<>>, tags |-> {}, into |-> <<>>, next |-> 20]

MCPortals == {Doubles, Messy}
MCActors  == {"cleaner", "user"}

Beside == { Nothing, CleanupCRM(FALSE),
            DeleteContacts(<<4, 2>>), ContactsMerge(3, 4), InfoAdd(3, "mail"),
            PersonsCreate(N("Bob"), 1, "mail", "link"), CompaniesCreate(Form("Bolt"), "mail", "web"),
            PersonsUpdate(3, N("Eve"), NoOne), PersonsUpdate(3, N("Eve"), 1),
            PersonsFixNames(NoOne, FALSE), PersonsFixNames(NoOne, TRUE), PersonsFixNames(1, FALSE),
            ContactsShow(2), OpportunitiesShow(6), OpportunitiesCreate(Title(FALSE, "Dev", "Acme"), <<3, 4>>),
            OpportunitiesUpdate(6, Title(FALSE, "Ops", "Acme")), DeleteOpportunities(<<6, 5>>),
            MemberAdd(6, 3), CasesCreate(Title(FALSE, "", "Case")), TasksCreate,
            DeleteTasks(<<7, 8>>), ReassignSelf(TRUE), ReassignSelf(FALSE) }
    \cup TagCommands("vip", 3) \cup OpportunityPasses

MCJobs == {[a \in MCActors |-> IF a = "cleaner" THEN c ELSE u] :
              c \in {CleanupCRM(FALSE), CleanupCRM(TRUE)}, u \in Beside}
   \cup {[a \in MCActors |-> IF a = "cleaner" THEN CleanupCRM(FALSE) \o CleanupCRM(FALSE) ELSE Nothing]}
=============================================================================
