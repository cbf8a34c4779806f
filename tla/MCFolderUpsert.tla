--------------------------- MODULE MCFolderUpsert ---------------------------
(* Values for the constants of FolderUpsert.                               *)
EXTENDS FolderUpsert, TLC

CONSTANTS r1, r2, n1, d1

OoxmlExt  == [c \in Clients |-> "ooxml"]
MixedExt  == [c \in Clients |-> IF c = r1 THEN "legacy" ELSE "ooxml"]
Modes     == [c \in Clients |-> CASE c \in {r1, r2} -> "replace"
                                  [] c = n1         -> "noClobber"
                                  [] c = d1         -> "dedupe"]

Old(id, ext) ==
    [id |-> id, ext |-> ext, fmt |-> ext, by |-> "before", mtime |-> id]

\* Every folder of at most three files; ids grow with the modification time.
AnyFolder ==
    {{}} \cup {{Old(1, a)} : a \in Exts}
         \cup {{Old(1, a), Old(2, b)} : a, b \in Exts}
         \cup {{Old(1, a), Old(2, b), Old(3, d)} : a, b, d \in Exts}

\* At most two files, none of another kind.
SmallFolder ==
    {{}} \cup {{Old(1, a)} : a \in {"legacy", "ooxml"}}
         \cup {{Old(1, a), Old(2, b)} : a, b \in {"legacy", "ooxml"}}

OneOoxml  == {{Old(1, "ooxml")}}
=============================================================================
