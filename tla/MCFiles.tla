------------------------------ MODULE MCFiles ------------------------------
(* Two goroutines that read and a search that names two folders. *)
EXTENDS Files

MCReaders == {"reader", "search"}
MCFolders == {"inbox", "archive"}
=============================================================================
