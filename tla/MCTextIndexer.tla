--------------------------- MODULE MCTextIndexer ---------------------------
(* Values for the constants of TextIndexer.                                *)
EXTENDS TextIndexer

CONSTANTS MaxMixed, MaxFiles

pdf    == [kind |-> "file",   wanted |-> TRUE]
other  == [kind |-> "file",   wanted |-> FALSE]
folder == [kind |-> "folder", wanted |-> FALSE]

\* Every list of at most MaxMixed entries, and one of MaxFiles wanted files,
\* which are more than the workers.
Lists == UNION {[1 .. n -> {pdf, other, folder}] : n \in 0 .. MaxMixed}
           \cup {[i \in 1 .. MaxFiles |-> pdf]}
=============================================================================
