----------------------------- MODULE MCCatalog -----------------------------
EXTENDS Catalog

N(stem) == [stem |-> stem, note |-> ""]
Card(from, name, org, emails) == [from |-> from, name |-> name, org |-> org, emails |-> emails]

(* A card with an organisation in the name, the same address in the mail   *)
(* next to that of a machine, and two spellings of the organisation.       *)
MCDisk == << Card("vcf", [stem |-> "Ada", note |-> "org"], "Acme", <<"ada@acme", "ada@home">>),
             Card("dir", N("Acme"), "", <<>>),
             Card("git", [stem |-> "Acme", note |-> "form"], "", <<>>),
             Card("mbox", NoName, "", <<"bot@acme">>),
             Card("mab", NoName, "", <<"ada@acme">>) >>
MCNoisy == {"bot@acme"}
MCLocalPart == [e \in {"ada@acme", "ada@home"} |-> "Ada"]

\* Both addresses of the card lead to a contact, until one of the two is deleted.
MCContacts == { <<>>,
                <<Contact(TRUE, [stem |-> "Acme", note |-> "form"], {}, None, NoEntry),
                  Contact(FALSE, N("Ada"), {"ada@home"}, None, NoEntry),
                  Contact(FALSE, N("Eve"), {"ada@acme"}, None, NoEntry)>> }
=============================================================================
