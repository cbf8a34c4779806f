---------------------------- MODULE MCOfficeTUI ----------------------------
(* Values for the constants of OfficeTUI.                                  *)
EXTENDS OfficeTUI

CONSTANTS inbox, tasks, m1, m2, n1, t1

AllKeys == {"tab", "open", "move", "sort", "select", "view", "filter", "esc",
            "refresh", "resize", "save", "delete"}

\* A folder of one page, and a list of one record.
ShortFolder == [s \in Sections |-> IF s = inbox THEN <<m1, m2>> ELSE <<t1>>]

\* By the sort column, the portal's order is wrong throughout.
RankOf == [id \in Ids |-> CASE id \in {m1} -> 3 [] id \in {m2, t1} -> 2 [] OTHER -> 1]

\* One mail may arrive.
OneMail == n1 :> inbox
=============================================================================
