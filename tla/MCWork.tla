-------------------------------- MODULE MCWork --------------------------------
EXTENDS Work

MCActors == {"one", "two"}

\* A project with a milestone and two tasks, two invoices of one customer whose numbers begin
\* alike, each with its PDF, and a folder of two pages and a half.
Office ==
    [projects   |-> [i \in {1} |-> [NewProject("geo", Absent, "ann") EXCEPT !.contacts = {31}, !.folder = 60, !.listed = <<60, 61, 62>>]],
     milestones |-> [i \in {2} |-> [project |-> 1, title |-> "m1"]],
     tasks      |-> [i \in {3, 4} |-> NewTask(1, IF i = 3 THEN "t1" ELSE "old", 2)],
     people     |-> [e \in {"ann", "bob"} |-> IF e = "ann" THEN 31 ELSE 32],
     invoices   |-> [i \in {5, 6} |-> [NewInvoice(IF i = 5 THEN <<"P", "1", "b">> ELSE <<"P", "1", "2">>,
                                                  21, 22, 0) EXCEPT !.rev = 2, !.pdf = i + 2]],
     copies     |-> [i \in {7, 8, 9} |->
                       [title |-> IF i = 8 THEN <<"P", "1", "2">> ELSE <<"P", "1", "b">>,
                        on |-> {21, 22}, rev |-> 1]],
     mails      |-> [i \in 10..12 |-> [to |-> "me", folder |-> "inbox", parts |-> {}]],
     users      |-> [i \in {13, 14} |-> [active |-> (i = 13), name |-> "eve"]],
     events     |-> <<>>,
     folders    |-> [i \in {60, 61, 62, 63} |->
                       [Docs!NewFolder(CASE i = 61 -> "a" [] i = 62 -> "_trash" [] OTHER -> "top", IF i \in {61, 62} THEN 60 ELSE 0)
                          EXCEPT !.trash = (i = 62)]],
     files      |-> [i \in 60..63 |-> CASE i = 60 -> Docs!NewFile("x", 60, "old", 5)
                                       [] i = 61 -> Docs!NewFile("x", 60, "new", 6)
                                       [] i = 62 -> Docs!NewFile("x", 62, "bin", 9)
                                       [] OTHER  -> Docs!NewFile("y", 61, "other", 0)],
     disk       |-> <<>>, next |-> 70]

Board == <<[project |-> 1, items |-> <<Item("m1", "", "ok"), Item("m1", "t1", "ok"), Item("m2", "", "ok"),
                                       Item("m2", "t2", "ok"), Item("m2", "t2", "ok"), Item("m2", "m1", "ok")>>],
           [project |-> 1, items |-> <<Item("m2", "", "ok"), Item("m2", "t3", "ok")>>]>>
BadBoard == <<[project |-> 1, items |-> <<Item("m3", "", "bad"), Item("m3", "t3", "ok")>>]>>
Sync  == SyncBoard(Board, TRUE)
Log   == ParseShortlog(<<[commits |-> 9, email |-> "nil"], [commits |-> 5, email |-> "bob"],
                         [commits |-> 4, email |-> "bob"], [commits |-> 4, email |-> "ann"],
                         [commits |-> 1, email |-> "eve"]>>, 3)
Link(dry) == LinkPeople(1, <<33, 31, 33>>, Log, dry)

ProjectJobs == { Sync, Link(FALSE), Link(TRUE), PrjCreate("sea", ""), PrjUpdate(1, "", "", "bob"),
                 PrjUpdate(1, "sky", "", ""), PrjDelete(<<1>>), PrjTeamAdd(1, <<"ann", "bob">>),
                 PrjTeamRemove(1, <<"ann">>), PrjTeamSet(1, {"bob"}), PrjContactsAdd(1, <<32, 33>>),
                 PrjContactsRemove(1, <<31, 33>>), PrjMilestoneCreate(1, "m2"), PrjMilestoneDelete(<<2>>),
                 TaskCreate(1, "t2", 0, ""), TaskCreate(1, "t2", 2, "day"), SubtaskAdd(3, <<"a", "b">>),
                 TaskUpdate(3, "closed"), TaskDelete(<<3, 4>>), TaskList(1, TRUE) }
            \cup Shows(1)
DryOrBad == {SyncBoard(Board, FALSE), SyncBoard(BadBoard, TRUE), Sync \o Sync}

Drafts == {MailsDraftInvoice(5, "you"), InvoicesPDF(5, TRUE)}
BusinessJobs == Drafts \cup
    { InvoicesPDF(6, FALSE), InvoicesUpdate(5, "hi", FALSE), PurgeStaleInvoicePDFs(5),
      SetInvoiceStatus("billed", {5, 6}), InvoicesDelete(<<5>>),
      InvoicesCreate(<<"P", "3">>, 21, 0, 0), <<Must("layout", 5, 0)>>, SaveMailDraft(0, "you", "") }
MailJobs == { Nothing, <<Must("arrive", 0, "me"), Must("arrive", 0, "me")>>, SendMail("you", ""),
              RemoveMailMessages({11}), SaveMailDraft(10, "you", "me") }
OwnJobs == { UsersCreate("bob"), UsersUpdate(13, "bob"), UsersDelete(<<13, 14>>),
             <<BlockUser(13), UnblockUser(14)>>, CalAdd("talk"), CalDelete(<<71>>) }

Mine == Docs!Doc("x", "mine")
Dedupes == {Docs!DedupeProject(1, FALSE, TRUE), Docs!DedupeProject(1, TRUE, TRUE)}
Path == <<"a", "b">>
Ensures == {Docs!DavEnsurePath(60, Path), Docs!DavEnsurePath(60, Path) \o Docs!EnsurePath(60, Path)}
FileJobs == Dedupes \cup Ensures \cup
    { Nothing, Docs!UploadToFolderReplacing(60, Mine), Docs!UploadLocal(60, <<Docs!Doc("z", "1"), Mine>>, FALSE),
      Docs!ToProject(1, Mine, "upload"), Docs!UploadProjectDoc(1, 0, Mine, TRUE),
      Docs!UploadProjectDoc(1, 0, Docs!Doc("z", "1"), FALSE), Docs!UploadProjectDoc(1, 61, Mine, FALSE),
      Docs!ReplaceIn(60, Mine), Docs!PrjFilesUpdate(60, "mine"), Docs!DavMkdir(60, "a"),
      Docs!DavMove(61, <<61, 63>>), Docs!DavCopy(61, <<60, 62>>), Docs!DavRemove(<<61>>, <<62>>),
      Docs!DavRename(63, "x"), Docs!PrjFilesDelete(<<60>>) }
ToDisk == {Docs!DavDownload(61, "here"), Docs!DocsAsMD(63, "here"), Docs!DocsCSV(62, "here"),
              Docs!DocsPDF(63, Mine, "here"), Docs!DocsPDF(63, Docs!Doc("z", "1"), "here"),
              Docs!DocsPDFOf(61, "unreadable", "here"), Docs!DedupeProject(1, TRUE, FALSE)}
Attaches == {Docs!UploadTaskFile(3, Mine)}

Pair(x, y) == [a \in MCActors |-> IF a = "one" THEN x ELSE y]
MCJobs == {Pair(x, y) : x \in {Sync, Link(FALSE)}, y \in ProjectJobs \cup {Nothing}}
     \cup {Pair(x, Nothing) : x \in DryOrBad}
     \cup {Pair(x, y) : x \in Drafts, y \in BusinessJobs}
     \cup {Pair(FetchMailFolder("inbox", s, l), y) : s \in {0, 1}, l \in {0, 2}, y \in MailJobs}
     \cup {Pair(x, y) : x \in {UsersDelete(<<13, 14>>), CalAdd("talk")}, y \in OwnJobs}
     \cup {Pair(x, y) : x \in Dedupes \cup Ensures, y \in FileJobs}
     \cup {Pair(x, y) : x \in ToDisk \cup Attaches, y \in FileJobs}
     \cup {Pair(x, Docs!DavDownload(60, "here")) : x \in ToDisk \cup Dedupes}
     \cup {Pair(x, y) : x \in Attaches, y \in ToDisk \cup Attaches}

Cleanup == {Pair(PurgeStaleInvoicePDFs(5), Nothing)}
Deletes == {Pair(Docs!PrjFilesDelete(<<60>>), Nothing)}
MCPortals == {Office}
=============================================================================
