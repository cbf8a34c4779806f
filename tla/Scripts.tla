------------------------------- MODULE Scripts -------------------------------
(***************************************************************************)
(* The requests of a command.  op is the request, at the record it is sent *)
(* to, val what it carries, use what the command does with the answer,     *)
(* extra what it will send after that.                                     *)
(* onErr says what an error does to the command: "stop" (it returns the    *)
(* error), "count" (it notes the error and goes on) or "drop" (the error   *)
(* is ignored).  counts: a success brings its record to the report.        *)
(* ways: how many endpoints the client tries for it, one after the other.  *)
(*                                                                         *)
(* A portal is a record of collections, each a function from ids to        *)
(* records; next is the id the next new record gets.                       *)
(***************************************************************************)
EXTENDS Naturals, Sequences, Functions

Request(op, at, val, onErr) ==
    [op |-> op, at |-> at, val |-> val, use |-> "", extra |-> <<>>, onErr |-> onErr,
     counts |-> FALSE, ways |-> 1]

Must(op, at, val)  == Request(op, at, val, "stop")
Try(op, at, val)   == Request(op, at, val, "drop")
Tally(op, at, val) == [Request(op, at, val, "count") EXCEPT !.counts = TRUE]

\* What the answer is used for.
For(use, r)   == [r EXCEPT !.use = use]
Either(r)     == [r EXCEPT !.ways = 2]

\* What a dry run counts instead of sending it.
Counted(r) == [r EXCEPT !.op = "nothing", !.use = "", !.counts = TRUE]
\* What is not a request to the portal cannot get lost on the way.
Local == {"nothing", "give up", "open", "write", "remove"}
Sent(r) == r.op \notin Local

\* One request for each element of a sequence.
ForEach(seq, R(_)) == [i \in DOMAIN seq |-> R(seq[i])]

Nothing == <<>>

-----------------------------------------------------------------------------
Put(f, id, value) == [i \in DOMAIN f \cup {id} |-> IF i = id THEN value ELSE f[i]]
Drop(f, ids) == Restrict(f, DOMAIN f \ ids)

NewId(p) == p.next
\* The id in the answer to the last creating request.
LastId(p) == p.next - 1

Add(p, kind, record) == [p EXCEPT ![kind] = Put(@, NewId(p), record), !.next = @ + 1]
=============================================================================
