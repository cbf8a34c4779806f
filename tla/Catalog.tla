------------------------------ MODULE Catalog ------------------------------
(***************************************************************************)
(* The catalog of clients and contacts (catalog/, cmd/oo/catalog.go): a    *)
(* YAML file on disk, merged from what scans find, matched against the     *)
(* CRM, approved by hand and applied to it.  A command works on its own    *)
(* copy of the file and saves it at the end, so what a run has learned is  *)
(* lost when it is stopped; what it has made in the CRM stays.             *)
(*                                                                         *)
(* An entry has the id of its card, kind, name, organisation, addresses    *)
(* and what later commands add: oo (its contact), approve, status.  Names  *)
(* and their keys are those of CRMPortal.  One request of an entry at a    *)
(* time is sent.  A writing request that fails may have been applied, and  *)
(* one that makes a contact more than once, for the transport repeats it   *)
(* when the answer is lost (http.go:213).  The addresses of a contact are  *)
(* a set, so that one added twice is there once.                           *)
(***************************************************************************)
EXTENDS Integers, FiniteSets, SequencesExt

Keys == INSTANCE CRMPortal

CONSTANTS Disk,             \* what the scans find: a sequence of cards
          Noisy,            \* addresses of machines and role accounts
          LocalPart,        \* the name in an address
          InitialContacts,  \* what the CRM may hold, sequences of contacts
          MaxRuns,          \* bound: commands
          MaxFaults,        \* bound: requests that go wrong
          MaxCopies,        \* bound: contacts one request makes
          MaxStops,         \* bound: runs stopped half-way
          MaxRemovals       \* bound: contacts other users delete

(* The scans of projects find folders, which have no addresses; nothing in *)
(* the CRM was made by the catalog before it exists.                       *)
ASSUME DiskAssumption ==
  /\ Disk \in Seq(ToSet(Disk))
  /\ \A card \in ToSet(Disk) : /\ card.emails \in Seq(ToSet(card.emails))
                               /\ card.from \in {"git", "dir"} => card.emails = <<>>

ASSUME CopiesAssumption == MaxCopies \in Nat

VARIABLES contacts,  \* contacts of the CRM by id; deleted ones are gone
          listed,    \* does the list of contacts carry addresses
          file,      \* the catalog on disk
          run,       \* the command that runs, on its copy of the file
          past       \* what bounds and properties count

vars == <<contacts, listed, file, run, past>>

None == 0
NoEntry == [kind |-> "", email |-> "", name |-> [stem |-> "", note |-> ""]]

Contact(company, name, emails, employer, of) ==
  [company |-> company, name |-> name, emails |-> emails, employer |-> employer, of |-> of, gone |-> FALSE]

ASSUME ContactsAssumption ==
  \A all \in InitialContacts :
    /\ all \in Seq(ToSet(all))
    /\ \A c \in ToSet(all) : c = Contact(c.company, c.name, c.emails, c.employer, NoEntry)

AtRest == [cmd |-> "none", phase |-> "", doc |-> <<>>, left |-> <<>>, made |-> {}, ok |-> {},
           hit |-> None, org |-> None, todo |-> {}, failed |-> FALSE]

Init == /\ contacts \in InitialContacts
        /\ listed \in BOOLEAN
        /\ file = <<>>
        /\ run = AtRest
        /\ past = [runs |-> 0, faults |-> 0, removals |-> 0, stopped |-> {}, lost |-> {}, repeated |-> {}]

Live == {c \in DOMAIN contacts : ~contacts[c].gone}
Least(S) == IF S = {} THEN None ELSE CHOOSE x \in S : \A y \in S : x <= y
Greatest(S) == IF S = {} THEN None ELSE CHOOSE x \in S : \A y \in S : x >= y

(* The numbers of a set, least first, and the elements of a sequence there. *)
InOrder(S) == [k \in 1 .. Cardinality(S) |-> CHOOSE i \in S : Cardinality({j \in S : j <= i}) = k]
At(s, places) == LET order == InOrder(places) IN [k \in DOMAIN order |-> s[order[k]]]

Fault == /\ past.faults < MaxFaults
         /\ past' = [past EXCEPT !.faults = @ + 1]

----------------------------------------------------------------------------
(* The scans: an entry for each card, folder, address or project.          *)

NoName == [stem |-> "", note |-> ""]

EntryID(kind, emails, name) ==
  IF emails = <<>> THEN [kind |-> kind, email |-> "", name |-> name]
                   ELSE [kind |-> kind, email |-> emails[1], name |-> NoName]

NewEntry(kind, name, org, emails) ==
  [id |-> EntryID(kind, emails, name), kind |-> kind, name |-> name, org |-> org, emails |-> emails,
   oo |-> None, approve |-> FALSE, status |-> "new"]

EntriesOf(kind, from) ==
  LET cards == At(Disk, {i \in DOMAIN Disk : Disk[i].from = from})
  IN  [i \in DOMAIN cards |-> NewEntry(kind, cards[i].name, cards[i].org, cards[i].emails)]

(* Cards and hints anywhere, then a stub for every folder at the top. *)
ScanContactsRoot == EntriesOf("person", "vcf") \o EntriesOf("person", "hint") \o EntriesOf("person", "folder")

(* Repositories, then the folders at the top, whether repositories or not. *)
ScanProjectsRoot == EntriesOf("company", "git") \o EntriesOf("company", "dir")

(* Address books and Gloda, and the headers of the mail when asked for. *)
ScanThunderbirdRoot(mbox) ==
  LET found == EntriesOf("person", "mab") \o (IF mbox THEN EntriesOf("person", "mbox") ELSE <<>>)
  IN  At(found, {i \in DOMAIN found : found[i].emails[1] \notin Noisy})

----------------------------------------------------------------------------
(* merge: the union of documents by the id of the entries.                 *)

uniqueEmails(s) == At(s, {i \in DOMAIN s : \A j \in DOMAIN s : j < i => s[j] # s[i]})

mergeEntry(dst, src) ==
  [dst EXCEPT !.emails = uniqueEmails(@ \o src.emails),
              !.name = IF @ = NoName THEN src.name ELSE @,
              !.org = IF @ = "" THEN src.org ELSE @,
              !.approve = @ \/ src.approve,
              !.oo = IF @ = None THEN src.oo ELSE @]

MergeOne(out, e) ==
  LET same == {i \in DOMAIN out : out[i].id = e.id}
  IN  IF same = {} THEN Append(out, e)
      ELSE [i \in DOMAIN out |-> IF i \in same THEN mergeEntry(out[i], e) ELSE out[i]]

MergeDocs(entries) ==
  LET merged[n \in 0 .. Len(entries)] ==
        IF n = 0 THEN <<>> ELSE MergeOne(merged[n - 1], entries[n])
  IN  merged[Len(entries)]

Begin(cmd, phase, doc) ==
  /\ run.cmd = "none" /\ past.runs < MaxRuns
  /\ run' = [AtRest EXCEPT !.cmd = cmd, !.phase = phase, !.doc = doc]
  /\ past' = [past EXCEPT !.runs = @ + 1]

(* The scans first, the catalog with them from then on. *)
Merge ==
  /\ \E mbox \in BOOLEAN :
       LET found == ScanContactsRoot \o ScanProjectsRoot \o ScanThunderbirdRoot(mbox)
       IN  \/ Begin("merge", "save", MergeDocs(file \o found))
           \/ Begin("merge", "save", MergeDocs(found \o file))
  /\ UNCHANGED <<contacts, listed, file>>

(* SaveYAML. *)
Save == /\ run.phase = "save"
        /\ file' = run.doc
        /\ run' = AtRest
        /\ UNCHANGED <<contacts, listed, past>>

(* The user ticks an entry, or a row of the catalog is taken back. *)
Approve == /\ run.cmd = "none"
           /\ \E i \in DOMAIN file : file' = [file EXCEPT ![i].approve = ~@]
           /\ UNCHANGED <<contacts, listed, run, past>>

----------------------------------------------------------------------------
(* match                                                                   *)

Emails(c) == IF listed THEN contacts[c].emails ELSE {}

(* By address any contact will do, the last one listed; by name one of the kind. *)
ByEmail(email) == Greatest({c \in Live : email \in Emails(c)})
Key(company, name) == IF company THEN Keys!CompanyGroupingKey(name) ELSE name
ByName(e) ==
  Greatest({c \in Live : /\ contacts[c].company = (e.kind = "company")
                         /\ e.name # NoName
                         /\ Key(contacts[c].company, contacts[c].name) = Key(e.kind = "company", e.name)})

(* The addresses of an entry that lead to contacts. *)
Hits(e) == {i \in DOMAIN e.emails : ByEmail(e.emails[i]) # None}
LastHit(e) == ByEmail(e.emails[Greatest(Hits(e))])

(* Mutant: what this list does not show is new. *)
MatchedOrNew(e) ==
  IF Hits(e) # {} THEN [e EXCEPT !.status = "exists", !.oo = LastHit(e)]
  ELSE [e EXCEPT !.status = IF ByName(e) # None THEN "exists" ELSE "new", !.oo = ByName(e)]
(* Addresses that lead to two contacts are a conflict; an id once known stays. *)
Matched(e) ==
  IF \E i \in Hits(e) : ByEmail(e.emails[i]) # LastHit(e)
    THEN [e EXCEPT !.status = "conflict", !.oo = LastHit(e)]
  ELSE IF Hits(e) # {} THEN [e EXCEPT !.status = "exists", !.oo = LastHit(e)]
  ELSE IF ByName(e) # None THEN [e EXCEPT !.status = "exists", !.oo = ByName(e)]
  ELSE [e EXCEPT !.status = IF e.oo = None THEN "new" ELSE "exists"]

Match == /\ file # <<>> /\ Begin("match", "list", file)
         /\ UNCHANGED <<contacts, listed, file>>

MatchAgainstOO ==
  /\ run.phase = "list"
  /\ \/ /\ run' = [run EXCEPT !.phase = "save", !.doc = [i \in DOMAIN @ |-> Matched(@[i])]]
        /\ UNCHANGED past
     \/ Fault /\ run' = AtRest
  /\ UNCHANGED <<contacts, listed, file>>

----------------------------------------------------------------------------
(* apply                                                                   *)

(* Mutant: the entries in the order of the file. *)
FileOrder(doc) == [i \in DOMAIN doc |-> i]
(* Companies come before persons, so that a person finds its employer. *)
ApplyOrder(doc) ==
  LET Those(kind) == InOrder({i \in DOMAIN doc : doc[i].kind = kind})
  IN  Those("company") \o Those("person")

Apply == /\ file # <<>> /\ run.cmd = "none" /\ past.runs < MaxRuns
         /\ run' = [AtRest EXCEPT !.cmd = "apply", !.phase = "next", !.doc = file, !.left = ApplyOrder(file)]
         /\ past' = [past EXCEPT !.runs = @ + 1]
         /\ UNCHANGED <<contacts, listed, file>>

It == Head(run.left)
Entry == run.doc[It]
IsCompany == Entry.kind = "company"

(* An entry with nothing but an address is named after it. *)
Name == IF IsCompany THEN Entry.name
        ELSE IF Entry.name = NoName THEN [stem |-> LocalPart[Entry.emails[1]], note |-> ""]
        ELSE Keys!CleanPersonNames(Entry.name)

Goto(phase) == run' = [run EXCEPT !.phase = phase]

(* An error is noted, and the next entry is applied. *)
Note == run' = [run EXCEPT !.phase = "next", !.left = Tail(@), !.hit = None, !.failed = TRUE]
NoteError == Fault /\ Note
NotThere == run' = [run EXCEPT !.phase = "next", !.left = Tail(@), !.hit = None]

ApplyApproved ==
  /\ run.phase = "next"
  /\ IF run.left = <<>> THEN Goto("save")
     ELSE IF ~Entry.approve \/ Entry.status = "conflict" THEN run' = [run EXCEPT !.left = Tail(@)]
     ELSE run' = [run EXCEPT !.phase = "find", !.doc[It].name = Name]
  /\ UNCHANGED <<contacts, listed, file, past>>

(* Mutant: companies by their full names. *)
FindByName(name) == Least({c \in Live : contacts[c].company /\ contacts[c].name = name})
(* Legal forms and slogans do not count. *)
FindCompany(name) ==
  Least({c \in Live : contacts[c].company /\ Keys!CompanyGroupingKey(contacts[c].name) = Keys!CompanyGroupingKey(name)})
FindPersonByEmail(email) == Least({c \in Live : ~contacts[c].company /\ email \in Emails(c)})
FindPerson(name) == Least({c \in Live : ~contacts[c].company /\ contacts[c].name = name})

Lookup == IF IsCompany THEN FindCompany(Name)
          ELSE IF Entry.emails # <<>> THEN FindPersonByEmail(Entry.emails[1])
          ELSE FindPerson(Name)

Find ==
  /\ run.phase = "find"
  /\ \/ /\ Entry.oo # None /\ Entry.oo \notin Live
        /\ NotThere
        /\ UNCHANGED past
     \/ /\ Entry.oo = None \/ Entry.oo \in Live
        /\ run' = [run EXCEPT !.hit = IF Entry.oo = None THEN Lookup ELSE Entry.oo,
                              !.phase = IF IsCompany THEN "write" ELSE "org"]
        /\ UNCHANGED past
     \/ NoteError
  /\ UNCHANGED <<contacts, listed, file>>

(* A company that cannot be looked up is no error: the person has none. *)
FindOrg ==
  /\ run.phase = "org"
  /\ \/ /\ run' = [run EXCEPT !.phase = "write",
                              !.org = IF Entry.org = "" THEN None ELSE FindCompany([stem |-> Entry.org, note |-> ""])]
        /\ UNCHANGED past
     \/ Entry.org # "" /\ Fault /\ run' = [run EXCEPT !.phase = "write", !.org = None, !.failed = TRUE]
  /\ UNCHANGED <<contacts, listed, file>>

(* The contact an entry stands for is written: the entry keeps its id. *)
WithContact(e, c) == [e EXCEPT !.oo = c]
Keep == run' = [run EXCEPT !.phase = "ensure", !.hit = None, !.org = None, !.doc[It] = WithContact(@, run.hit)]

(* One request makes n contacts; the id in the last answer, if it comes, is kept. *)
Requested == Contact(IsCompany, Name, {}, run.org, Entry.id)
Make(n) == contacts' = contacts \o [k \in 1 .. n |-> Requested]

AnswersLost(n, kept) ==
  /\ past.faults < MaxFaults
  /\ past' = [past EXCEPT !.faults = @ + 1,
                          !.lost = IF n > kept THEN @ \cup {Entry.id} ELSE @,
                          !.repeated = IF n > 1 THEN @ \cup {Entry.id} ELSE @]

Create(n) == /\ Make(n)
             /\ run' = [run EXCEPT !.phase = "ensure", !.org = None, !.made = @ \cup {Entry.id},
                                   !.doc[It] = WithContact(@, Len(contacts) + n)]

(* UpdatePerson sends the employer along: that of the entry, or else the   *)
(* one it reads first.  When that read fails it sends none, which unlinks. *)
Update(employer) == contacts' = [contacts EXCEPT ![run.hit].name = Name, ![run.hit].employer = employer]
Employer == IF run.org = None THEN contacts[run.hit].employer ELSE run.org

WriteCompany == IsCompany /\ Keep /\ UNCHANGED <<contacts, past>>

WritePerson ==
  /\ ~IsCompany
  /\ \/ run.hit \in Live /\ Update(Employer) /\ Keep /\ UNCHANGED past
     \/ /\ run.hit \in Live /\ run.org = None /\ Fault
        /\ Update(None)
        /\ run' = [run EXCEPT !.phase = "ensure", !.hit = None, !.doc[It] = WithContact(@, run.hit), !.failed = TRUE]
     \/ NoteError /\ UNCHANGED contacts
     \/ run.hit \in Live /\ NoteError /\ Update(Employer)
     \/ run.hit \notin Live /\ NotThere /\ UNCHANGED <<contacts, past>>

Write ==
  /\ run.phase = "write"
  /\ \/ run.hit = None /\ Create(1) /\ UNCHANGED past
     \/ run.hit = None /\ \E n \in 2 .. MaxCopies : Create(n) /\ AnswersLost(n, 1)
     \/ run.hit = None /\ \E n \in 0 .. MaxCopies : Make(n) /\ AnswersLost(n, 0) /\ Note
     \/ run.hit # None /\ (WriteCompany \/ WritePerson)
  /\ UNCHANGED <<listed, file>>

(* ensureContactInfos reads the contact and adds the addresses it lacks. *)
Ensure ==
  /\ run.phase = "ensure"
  /\ \/ /\ Entry.oo \in Live
        /\ run' = [run EXCEPT !.phase = "add", !.todo = ToSet(Entry.emails) \ contacts[Entry.oo].emails]
        /\ UNCHANGED past
     \/ Entry.oo \notin Live /\ NotThere /\ UNCHANGED past
     \/ NoteError
  /\ UNCHANGED <<contacts, listed, file>>

Missing == Entry.emails[Least({i \in DOMAIN Entry.emails : Entry.emails[i] \in run.todo})]

Add ==
  /\ run.phase = "add"
  /\ \/ /\ run.todo = {}
        /\ run' = [run EXCEPT !.phase = "next", !.left = Tail(@), !.doc[It].status = "applied",
                              !.ok = @ \cup {Entry.id}]
        /\ UNCHANGED <<contacts, past>>
     \/ /\ run.todo # {} /\ Entry.oo \in Live
        /\ contacts' = [contacts EXCEPT ![Entry.oo].emails = @ \cup {Missing}]
        /\ \/ run' = [run EXCEPT !.todo = @ \ {Missing}] /\ UNCHANGED past
           \/ NoteError
     \/ run.todo # {} /\ Entry.oo \notin Live /\ NotThere /\ UNCHANGED <<contacts, past>>
     \/ run.todo # {} /\ NoteError /\ UNCHANGED contacts
  /\ UNCHANGED <<listed, file>>

----------------------------------------------------------------------------
(* Around the commands. *)

(* The run is stopped before it saves. *)
Stop == /\ run.cmd = "apply" /\ run.phase # "save" /\ Cardinality(past.stopped) < MaxStops
        /\ past' = [past EXCEPT !.stopped = @ \cup run.made]
        /\ run' = AtRest
        /\ UNCHANGED <<contacts, listed, file>>

(* Another user deletes a contact. *)
TakeAway == /\ past.removals < MaxRemovals
            /\ \E c \in Live :
                 contacts' = [i \in DOMAIN contacts |->
                                IF i = c THEN [contacts[i] EXCEPT !.gone = TRUE]
                                ELSE [contacts[i] EXCEPT !.employer = IF @ = c THEN None ELSE @]]
            /\ past' = [past EXCEPT !.removals = @ + 1]
            /\ UNCHANGED <<listed, file, run>>

Next == \/ Merge \/ Save \/ Approve \/ Match \/ MatchAgainstOO
        \/ Apply \/ ApplyApproved \/ Find \/ FindOrg \/ Write \/ Ensure \/ Add
        \/ Stop \/ TakeAway

Spec == Init /\ [][Next]_vars

----------------------------------------------------------------------------
(* However often the catalog is applied, with requests that fail and other *)
(* users at work: a second contact is made of an entry only when the id of *)
(* the first was lost.  For a person, with a run stopped before it saved   *)
(* or with the answer to the request that made it; a company, looked for   *)
(* by its name, has a twin only when one request made both, because the    *)
(* transport sent it again (apply.go:55, 80, 97, 117, http.go:213).        *)
MadeOnce ==
  \A i, j \in DOMAIN contacts : i < j /\ contacts[i].of = contacts[j].of /\ contacts[j].of # NoEntry =>
    \/ contacts[i].gone
    \/ contacts[j].of \in past.repeated
    \/ contacts[j].of \in past.stopped \cup past.lost /\ ~contacts[j].company
CompaniesAreOnce ==
  \A i, j \in Live : i < j /\ contacts[j].of # NoEntry /\ contacts[i].company /\ contacts[j].company =>
    \/ Keys!CompanyGroupingKey(contacts[i].name) # Keys!CompanyGroupingKey(contacts[j].name)
    \/ contacts[i].of = contacts[j].of /\ contacts[j].of \in past.repeated
TwinsComeOfLostIds == MadeOnce /\ CompaniesAreOnce

(* The employer a person's entry names is the company of another entry,    *)
(* and in the CRM no other company has that one's name.                    *)
WorksFor(p, c) == /\ p.kind = "person" /\ c.kind = "company" /\ p.org # ""
                  /\ Keys!CompanyGroupingKey([stem |-> p.org, note |-> ""]) = Keys!CompanyGroupingKey(c.name)
OnlyOne(c) == \A d \in Live :
                contacts[d].company /\ Keys!CompanyGroupingKey(contacts[d].name) = Keys!CompanyGroupingKey(c.name)
                  => d = c.oo

(* Companies are applied before persons (apply.go:22).  A run in which no  *)
(* request failed and nothing was taken away leaves each person it applied *)
(* with the employer that it applied as well, if there is no other of that *)
(* name and no other entry of his that names another employer.             *)
EmployersAreLinked ==
  run.cmd = "apply" /\ run.phase = "save" /\ ~run.failed /\ past.removals = 0 =>
    \A p, c \in ToSet(run.doc) :
      /\ {p.id, c.id} \subseteq run.ok /\ WorksFor(p, c) /\ OnlyOne(c)
      /\ \A q \in ToSet(run.doc) : q.id \in run.ok /\ q.oo = p.oo => q.org \in {"", p.org}
      => contacts[p.oo].employer = c.oo

(* The contact an entry stands for is not forgotten by a later command     *)
(* (match.go:95, types.go:185).                                            *)
Known(doc) == {e.id : e \in {x \in ToSet(doc) : x.oo # None}}
IdsAreKept == [][Known(file) \subseteq Known(file')]_file
=============================================================================
