------------------------------- MODULE Business -------------------------------
(***************************************************************************)
(* Invoices and their PDF copies, mail, users and the calendar, with the   *)
(* commands that work on them (cmd/oo/invoices.go, mails.go, users.go,     *)
(* calendar.go) and the client methods they call.                          *)
(*                                                                         *)
(* A number is a sequence of characters that begins with "P" (for "P-").   *)
(* rev counts what the web interface changes in an invoice's layout; a     *)
(* copy has the rev it was made from.  spaced: the notes end in a space.   *)
(***************************************************************************)
EXTENDS Scripts, FiniteSets, FiniteSetsExt, SequencesExt

NoFile == 0

CONSTANTS MailPage        \* messages in a page of a mail folder (25 in the code)

ASSUME MailAssumption == MailPage \in Nat \ {0}

-----------------------------------------------------------------------------
(* The portal.                                                             *)

NewInvoice(number, contact, deal, consignee) ==
    [number |-> number, contact |-> contact, deal |-> deal, consignee |-> consignee,
     note |-> "", spaced |-> FALSE, status |-> "draft", rev |-> 1, pdf |-> NoFile]

CanEdit(inv) == inv.status = "draft"

\* A PUT replaces the invoice.  When its notes change, the cached PDF is forgotten.
PutInvoice(old, body) ==
    [body EXCEPT !.rev = old.rev, !.status = old.status,
                 !.pdf = IF body.note # old.note \/ body.spaced # old.spaced
                         THEN NoFile ELSE old.pdf]

\* The PDF of an invoice is made when there is none, on the cards of its contact and deal.
MakePDF(p, id) ==
    LET inv  == p.invoices[id]
        copy == [title |-> inv.number, on |-> {inv.contact, inv.deal}, rev |-> inv.rev]
    IN  IF inv.pdf # NoFile THEN p
        ELSE [Add(p, "copies", copy) EXCEPT !.invoices[id].pdf = NewId(p)]

SaveDraft(p, r) ==
    IF r.at # 0 THEN [p EXCEPT !.mails[r.at].to = r.val]
    ELSE Add(p, "mails", [to |-> r.val, folder |-> "drafts", parts |-> {}])

BusinessEffect(p, r) ==
    CASE r.op = "add invoice"  -> Add(p, "invoices", r.val)
      [] r.op = "put invoice"  -> [p EXCEPT !.invoices[r.at] = PutInvoice(@, r.val)]
      [] r.op = "set status"   -> [p EXCEPT !.invoices = [i \in DOMAIN @ |->
                                     IF i \in r.val THEN [@[i] EXCEPT !.status = r.at] ELSE @[i]]]
      [] r.op = "drop invoice" -> [p EXCEPT !.invoices = Drop(@, {r.at})]
      [] r.op = "pdf"          -> MakePDF(p, r.at)
      [] r.op = "drop copies"  -> [p EXCEPT !.copies = Drop(@, r.val)]
      [] r.op = "save draft"   -> SaveDraft(p, r)
      [] r.op = "attach"       -> [p EXCEPT !.mails[r.at].parts = @ \cup {p.copies[r.val]}]
      [] r.op = "send"         -> Add(p, "mails", [to |-> r.val, folder |-> "sent", parts |-> {}])
      [] r.op = "remove mails" -> [p EXCEPT !.mails = Drop(@, r.val)]
      [] r.op = "add user"     -> Add(p, "users", [active |-> TRUE, name |-> r.val])
      [] r.op = "put user"     -> [p EXCEPT !.users[r.at].name = r.val]
      [] r.op = "activate"     -> [p EXCEPT !.users[r.at].active = r.val]
      [] r.op = "drop user"    -> [p EXCEPT !.users = Drop(@, {r.at})]
      [] r.op = "add event"    -> Add(p, "events", r.val)
      [] r.op = "drop event"   -> [p EXCEPT !.events = Drop(@, {r.at})]
      \* Not of a command: the layout is changed in the web interface, a message comes in.
      [] r.op = "layout"       -> [p EXCEPT !.invoices[r.at].rev = @ + 1]
      [] r.op = "arrive"       -> Add(p, "mails", [to |-> r.val, folder |-> "inbox", parts |-> {}])
      [] OTHER                 -> p

AtInvoice == {"invoice", "put invoice", "drop invoice", "pdf", "layout"}
AtUser    == {"user", "put user", "activate", "drop user", "password"}

\* An active user is not deleted, an invoice that was billed is not changed.
BusinessAccepts(p, r) ==
    CASE r.op \in AtInvoice  -> /\ r.at \in DOMAIN p.invoices
                                /\ r.op = "put invoice" => CanEdit(p.invoices[r.at])
      [] r.op = "drop copies" -> r.val \subseteq DOMAIN p.copies
      [] r.op = "save draft" -> r.at \in DOMAIN p.mails \cup {0}
      [] r.op = "attach"     -> r.at \in DOMAIN p.mails /\ r.val \in DOMAIN p.copies
      [] r.op = "message"    -> r.at \in DOMAIN p.mails
      [] r.op \in AtUser     -> /\ r.at \in DOMAIN p.users
                                /\ r.op = "drop user" => ~p.users[r.at].active
      [] r.op = "drop event" -> r.at \in DOMAIN p.events
      [] OTHER               -> TRUE

\* A draft without a number is a new one.
BusinessCreates(r) == \/ r.op \in {"add invoice", "add user", "add event", "send"}
                      \/ r.op = "save draft" /\ r.at = 0

-----------------------------------------------------------------------------
(* Invoices                                                                *)

InvoicesCreate(number, contact, deal, consignee) ==
    <<Must("add invoice", 0, NewInvoice(number, contact, deal, consignee))>>

\* The invoice is read and put back whole, but for its consignee.
InvoicesUpdate(id, note, spaced) ==
    <<For("update invoice", Must("invoice", id, [note |-> note, spaced |-> spaced]))>>

UpdateInvoice(p, r) ==
    <<Must("put invoice", r.at, [p.invoices[r.at] EXCEPT
        !.note = r.val.note, !.spaced = r.val.spaced, !.consignee = NoFile])>>

SetInvoiceStatus(status, ids) == <<Must("set status", status, ids)>>
InvoicesDelete(ids) == ForEach(ids, LAMBDA id : Must("drop invoice", id, 0))

InvoicePDFFile(id) == <<Must("pdf", id, 0)>>

\* A draft's notes get or lose a trailing space, which makes the portal forget the PDF.
\* use says what the PDF is wanted for, val to whom it goes.
ForceRegenerateInvoicePDF(id, use, val) ==
    <<[For("touch", Must("invoice", id, val)) EXCEPT !.extra = use]>>

\* Mutant: the PDF is asked for, and the notes stay as they are.
PlainPDF(p, r) == <<For(r.extra, Must("pdf", r.at, r.val))>>

Touch(p, r) ==
    LET inv == p.invoices[r.at]
    IN  (IF CanEdit(inv) THEN InvoicesUpdate(r.at, inv.note, ~inv.spaced) ELSE Nothing)
          \o <<For(r.extra, Must("pdf", r.at, r.val))>>

InvoicesPDF(id, force) ==
    IF force THEN ForceRegenerateInvoicePDF(id, "", "") ELSE InvoicePDFFile(id)

\* The number without trailing letters "b".
PDFBase(number) ==
    LET ends == {i \in DOMAIN number : \A j \in i..Len(number) : number[j] = "b"}
        base == IF ends = {} THEN number ELSE SubSeq(number, 1, Min(ends) - 1)
    IN  IF base = <<>> THEN <<"P">> ELSE base

\* state: the invoice as it was read, and the copies found so far.
PurgeStaleInvoicePDFs(id) == <<For("purge", Must("invoice", id, 0))>>

ListCards(p, r) ==
    LET inv  == p.invoices[r.at]
        Look(card) == <<For("candidates", Must("card files", card, inv))>>
        found == [inv |-> inv, files |-> {}]
    IN  IF inv.contact # 0 THEN <<For("contact files", Must("card files", inv.contact, found))>>
        ELSE IF inv.deal # 0 THEN <<For("deal files", Must("card files", inv.deal, found))>>
        ELSE Nothing

\* Every file on the card whose title begins with the number, but for the current PDF.
StaleCopies(p, card, inv) ==
    {f \in DOMAIN p.copies \ {inv.pdf} : /\ card \in p.copies[f].on
                                         /\ IsPrefix(<<"P">>, p.copies[f].title)
                                         /\ IsPrefix(PDFBase(inv.number), p.copies[f].title)}

AddFiles(p, r) == [r.val EXCEPT !.files = @ \cup StaleCopies(p, r.at, r.val.inv)]

\* One request deletes them all; unlinking them is only tried.
DeleteCopies(files) ==
    IF files = {} THEN Nothing
    ELSE <<Must("drop copies", 0, files)>> \o ForEach(SetToSeq(files), LAMBDA f : Try("unlink copy", f, 0))

AfterContact(found) ==
    IF found.inv.deal # 0 THEN <<For("deal files", Must("card files", found.inv.deal, found))>>
    ELSE DeleteCopies(found.files)

-----------------------------------------------------------------------------
(* Mail                                                                    *)

\* The sender is looked up when none is named.
SaveMailDraft(id, to, from) ==
    (IF from = "" THEN <<Must("accounts", 0, 0)>> ELSE Nothing) \o <<Must("save draft", id, to)>>

AttachMailDocument(id, file) == <<Must("attach", id, file)>>

\* The PDF made anew, the invoice for its text, a draft, and the PDF attached to it.
MailsDraftInvoice(id, to) == ForceRegenerateInvoicePDF(id, "draft invoice", to)

DraftInvoice(p, r) ==
    <<Must("invoice", r.at, 0), Must("accounts", 0, 0),
      [For("draft", Must("save draft", 0, r.val)) EXCEPT !.extra = p.invoices[r.at].pdf]>>

SendMail(to, from) ==
    (IF from = "" THEN <<Must("accounts", 0, 0)>> ELSE Nothing) \o <<Must("send", 0, to)>>

RemoveMailMessages(ids) == <<Must("remove mails", 0, ids)>>

\* Messages newest first, page by page until a short one.
FetchMailFolder(folder, skip, limit) ==
    <<For("mail page", Must("messages", 1,
        [folder |-> folder, skip |-> skip, limit |-> limit]))>>

Newest(p, folder) ==
    LET all == {m \in DOMAIN p.mails : p.mails[m].folder = folder}
    IN  [i \in 1..Cardinality(all) |-> CHOOSE m \in all : Cardinality({n \in all : n > m}) = i - 1]

MailsPage(p, folder, page) ==
    LET all == Newest(p, folder)
    IN  SubSeq(all, (page - 1) * MailPage + 1, Min({page * MailPage, Len(all)}))

\* Mutant: a full page is taken for the last one.
ShortOrFull(batch) == Len(batch) <= MailPage

LastPage(batch) == Len(batch) < MailPage

\* Each message of the page is read for its attachments (the code saves the request when the
\* list has them), or passed over; then the next page.  Both are noted.
ReadMail(m) == [Must("message", m, 0) EXCEPT !.counts = TRUE]

Hydrate(p, r) ==
    LET batch == MailsPage(p, r.val.folder, r.at)
        upto  == r.val.skip + r.val.limit
        full  == r.val.limit > 0 /\ upto <= Len(batch)
        seen  == IF full THEN SubSeq(batch, 1, upto) ELSE batch
        taken == Max({Len(seen) - r.val.skip, 0})
        rest  == [r.val EXCEPT !.skip = Max({@ - Len(batch), 0}),
                               !.limit = IF @ = 0 THEN 0 ELSE @ - taken]
    IN  [i \in DOMAIN seen |-> IF i <= r.val.skip THEN Counted(ReadMail(seen[i])) ELSE ReadMail(seen[i])]
          \o (IF full \/ LastPage(batch) THEN Nothing ELSE <<[r EXCEPT !.at = @ + 1, !.val = rest]>>)

-----------------------------------------------------------------------------
(* Users and the calendar                                                  *)

UsersCreate(name) == <<Must("add user", 0, name)>>
UsersUpdate(id, name) == <<Must("put user", id, name)>>
BlockUser(id)   == Must("activate", id, FALSE)
UnblockUser(id) == Must("activate", id, TRUE)

\* When the portal refuses, the user is blocked and deleted in a second request.
DeleteUser(id) == For("delete user", Must("drop user", id, 0))
DeleteBlocked(r) == <<BlockUser(r.at), Must("drop user", r.at, 0)>>
UsersDelete(ids) == ForEach(ids, DeleteUser)

CalAdd(event) == <<Must("add event", 0, event)>>
CalDelete(ids) == ForEach(ids, LAMBDA id : Must("drop event", id, 0))

-----------------------------------------------------------------------------
BusinessThen(p, r) ==
    CASE r.use = "update invoice" -> {UpdateInvoice(p, r)}
      [] r.use = "touch"          -> {Touch(p, r)}
      [] r.use = "purge"          -> {ListCards(p, r)}
      [] r.use = "contact files"  -> {AfterContact(AddFiles(p, r))}
      [] r.use = "deal files"     -> {DeleteCopies(AddFiles(p, r).files)}
      [] r.use = "draft invoice"  -> {DraftInvoice(p, r)}
      [] r.use = "draft"          -> {AttachMailDocument(LastId(p), r.extra)}
      [] r.use = "mail page"      -> {Hydrate(p, r)}
      [] OTHER                    -> {Nothing}

BusinessOtherwise(r) == IF r.use = "delete user" THEN {DeleteBlocked(r)} ELSE {}
=============================================================================
