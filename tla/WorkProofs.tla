------------------------------ MODULE WorkProofs ------------------------------
(***************************************************************************)
(* What holds of the commands on projects, documents and business for      *)
(* every portal, any number of users and any commands.                     *)
(*                                                                         *)
(* The first part is about lists.  The second says what an answer may      *)
(* bring: no command sends what it was not asked to.  The third follows    *)
(* each request to the portal, the fourth the sessions.  The parts after   *)
(* that each follow one command from its beginning to its success.         *)
(***************************************************************************)
EXTENDS WorkInvariants, FiniteSetTheorems, FunctionTheorems, SequenceTheorems,

        WellFoundedInduction, TLAPS

-----------------------------------------------------------------------------
(* Lists                                                                   *)

LEMMA ListShape ==
  ASSUME NEW s, IsList(s)
  PROVE  /\ Len(s) \in Nat /\ DOMAIN s = 1 .. Len(s)
         /\ s \in Seq(ToSet(s))
         /\ s = <<>> <=> Len(s) = 0
  BY EmptySeq DEF IsList, ToSet

LEMMA ShapeIsList ==
  ASSUME NEW n \in Nat, NEW S, NEW s \in [1 .. n -> S]
  PROVE  IsList(s) /\ Len(s) = n /\ DOMAIN s = 1 .. n
  BY DEF IsList

LEMMA FunctionIsList ==
  ASSUME NEW n \in Nat, NEW s, s = [i \in 1 .. n |-> s[i]]
  PROVE  IsList(s) /\ Len(s) = n /\ DOMAIN s = 1 .. n
  <1> DEFINE S == {s[i] : i \in 1 .. n}
  <1>1. \A i \in 1 .. n : s[i] \in S
    OBVIOUS
  <1> HIDE DEF S
  <1>2. s \in [1 .. n -> S]
    BY <1>1
  <1> QED BY <1>2, ShapeIsList

LEMMA SeqIsList ==
  ASSUME NEW S, NEW s \in Seq(S)
  PROVE  IsList(s) /\ \A i \in DOMAIN s : s[i] \in S
  <1>1. Len(s) \in Nat /\ s \in [1 .. Len(s) -> S]
    BY LenProperties
  <1> QED BY <1>1, ShapeIsList

LEMMA ConcatList ==
  ASSUME NEW s, IsList(s), NEW t, IsList(t)
  PROVE  LET u == s \o t
         IN  /\ IsList(u)
             /\ \A i \in DOMAIN u : u[i] \in ToSet(s) \cup ToSet(t)
  BY ListShape, SeqMonotonic, ConcatProperties, SeqIsList

LEMMA TailList ==
  ASSUME NEW s, IsList(s), s # <<>>
  PROVE  /\ 1 \in DOMAIN s /\ Head(s) = s[1]
         /\ IsList(Tail(s))
         /\ \A i \in DOMAIN Tail(s) : i + 1 \in DOMAIN s /\ Tail(s)[i] = s[i + 1]
  <1> DEFINE S == ToSet(s)
             t == Tail(s)
  <1>1. /\ s \in Seq(S) /\ Len(s) \in Nat /\ DOMAIN s = 1 .. Len(s)
        /\ Len(s) # 0
    BY ListShape
  <1> HIDE DEF S
  <1>2. /\ Head(s) = s[1] /\ t \in Seq(S) /\ Len(t) = Len(s) - 1
        /\ \A i \in 1 .. Len(t) : t[i] = s[i + 1]
    BY <1>1, HeadTailProperties
  <1> HIDE DEF t
  <1>3. IsList(t)
    BY <1>2, SeqIsList
  <1>4. DOMAIN t = 1 .. Len(t)
    BY <1>3, ListShape
  <1>5. \A i \in 1 .. Len(t) : i + 1 \in 1 .. Len(s)
    BY <1>1, <1>2
  <1> QED BY <1>1, <1>2, <1>3, <1>4, <1>5 DEF t

LEMMA OneElement ==
  ASSUME NEW e
  PROVE  /\ IsList(<<e>>) /\ DOMAIN <<e>> = {1} /\ <<e>>[1] = e
         /\ IsList(<<>>) /\ DOMAIN <<>> = {}
  <1>1. <<e>> \in Seq({e}) /\ <<>> \in Seq({e}) /\ Len(<<e>>) = 1 /\ Len(<<>>) = 0
    OBVIOUS
  <1>2. IsList(<<e>>) /\ IsList(<<>>)
    BY <1>1, SeqIsList
  <1>3. DOMAIN <<e>> = 1 .. 1 /\ DOMAIN <<>> = 1 .. 0
    BY <1>1, <1>2, ListShape
  <1> QED BY <1>2, <1>3

LEMMA SubSeqList ==
  ASSUME NEW s, NEW m \in Int, NEW n \in Int
  PROVE  LET t == SubSeq(s, m, n)
         IN  /\ IsList(t)
             /\ Len(t) = IF m <= n THEN n - m + 1 ELSE 0
             /\ DOMAIN t = 1 .. n - m + 1
             /\ \A i \in 1 .. n - m + 1 : t[i] = s[m + i - 1]
  <1> DEFINE S == {s[i] : i \in m .. n}
             t == SubSeq(s, m, n)
  <1>1. \A i \in m .. n : s[i] \in S
    OBVIOUS
  <1> HIDE DEF S
  <1>2. /\ t \in Seq(S) /\ Len(t) = IF m <= n THEN n - m + 1 ELSE 0
        /\ \A i \in 1 .. n - m + 1 : t[i] = s[m + i - 1]
    BY <1>1, SubSeqProperties
  <1> HIDE DEF t
  <1>3. IsList(t) /\ DOMAIN t = 1 .. Len(t)
    BY <1>2, SeqIsList, ListShape
  <1>4. 1 .. Len(t) = 1 .. n - m + 1
    BY <1>2
  <1> QED BY <1>2, <1>3, <1>4 DEF t

LEMMA AppendList ==
  ASSUME NEW s, IsList(s), NEW e
  PROVE  IsList(Append(s, e))
  <1> DEFINE S == ToSet(s) \cup {e}
             t == Append(s, e)
  <1>1. s \in Seq(ToSet(s)) /\ ToSet(s) \subseteq S /\ e \in S
    BY ListShape
  <1> HIDE DEF S
  <1>2. s \in Seq(S)
    BY <1>1, SeqMonotonic
  <1>3. t \in Seq(S)
    BY <1>1, <1>2, AppendProperties
  <1> HIDE DEF t
  <1>4. IsList(t)
    BY <1>3, SeqIsList
  <1> QED BY <1>4 DEF t

\* The elements of a finite set one after the other.
LEMMA SetList ==
  ASSUME NEW S, IsFiniteSet(S)
  PROVE  /\ IsList(SetToSeq(S)) /\ Len(SetToSeq(S)) = Cardinality(S)
         /\ ToSet(SetToSeq(S)) = S
         /\ \A i, j \in DOMAIN SetToSeq(S) : SetToSeq(S)[i] = SetToSeq(S)[j] => i = j
  <1> DEFINE n == Cardinality(S)
             s == SetToSeq(S)
  <1>1. n \in Nat /\ \E f \in Bijection(1 .. n, S) : TRUE
    BY FS_CardinalityType DEF ExistsBijection
  <1>2. PICK f \in Bijection(1 .. n, S) : TRUE
    BY <1>1
  <1>3. f \in [1 .. n -> S] /\ IsInjective(f)
    BY <1>2 DEF Bijection, Injection, IsInjective
  <1>4. s \in [1 .. n -> S] /\ IsInjective(s)
    BY <1>3 DEF SetToSeq
  <1> HIDE DEF n, s
  <1>5. IsList(s) /\ Len(s) = n /\ DOMAIN s = 1 .. n
    BY <1>1, <1>4, ShapeIsList
  <1>6. \A i, j \in DOMAIN s : s[i] = s[j] => i = j
    BY <1>4 DEF IsInjective
  <1>7. ToSet(s) = S
    <2>1. s \in Injection(1 .. n, S)
      BY <1>4, <1>5, <1>6 DEF Injection
    <2>2. IsFiniteSet(1 .. n) /\ Cardinality(1 .. n) = n
      BY <1>1, FS_Interval
    <2>3. s \in Surjection(1 .. n, S)
      BY <1>1, <2>1, <2>2, FS_Injection DEF n
    <2> QED BY <1>5, <2>3 DEF Surjection, ToSet
  <1> QED BY <1>5, <1>6, <1>7 DEF n, s
-----------------------------------------------------------------------------
(* Requests and scripts.  asked are the operations a user has asked for.   *)

LEMMA NoScript ==
  ASSUME NEW asked
  PROVE  GoodScript(asked, <<>>)
  BY OneElement DEF GoodScript, ToSet

LEMMA OneRequest ==
  ASSUME NEW asked, NEW r, Good(asked, r)
  PROVE  GoodScript(asked, <<r>>)
  BY OneElement DEF ToSet, GoodScript

\* One good request for each element of a list.
LEMMA GoodForEach ==
  ASSUME NEW asked, NEW list, IsList(list),
         NEW s, s = [i \in DOMAIN list |-> s[i]],
         \A i \in DOMAIN list : Good(asked, s[i])
  PROVE  GoodScript(asked, s)
  BY ListShape, FunctionIsList DEF ToSet, GoodScript

LEMMA ConcatElements ==
  ASSUME NEW s, IsList(s), NEW t, IsList(t)
  PROVE  IsList(s \o t) /\ ToSet(s \o t) = ToSet(s) \cup ToSet(t)
  <1> DEFINE S == ToSet(s) \cup ToSet(t)
             u == s \o t
  <1>1. IsList(u) /\ \A i \in DOMAIN u : u[i] \in S
    BY ConcatList
  <1>2. s \in Seq(S) /\ t \in Seq(S)
    BY ListShape, SeqMonotonic
  <1>3. /\ Len(u) = Len(s) + Len(t)
        /\ \A i \in 1 .. Len(s) + Len(t) : u[i] = IF i <= Len(s) THEN s[i] ELSE t[i - Len(s)]
    <2> HIDE DEF S
    <2> QED BY <1>2, ConcatProperties
  <1> HIDE DEF u
  <1>4. /\ Len(s) \in Nat /\ DOMAIN s = 1 .. Len(s) /\ Len(t) \in Nat /\ DOMAIN t = 1 .. Len(t)
        /\ DOMAIN u = 1 .. Len(u)
    BY <1>1, ListShape
  <1>5. ToSet(u) \subseteq S
    BY <1>1 DEF ToSet
  <1>6. ASSUME NEW i \in DOMAIN s PROVE s[i] \in ToSet(u)
    BY <1>4, <1>3 DEF ToSet
  <1>7. ASSUME NEW i \in DOMAIN t PROVE t[i] \in ToSet(u)
    <2>1. i + Len(s) \in 1 .. Len(s) + Len(t) /\ ~(i + Len(s) <= Len(s)) /\ i + Len(s) - Len(s) = i
      BY <1>4
    <2> QED BY <1>3, <1>4, <2>1 DEF ToSet
  <1> QED BY <1>1, <1>5, <1>6, <1>7 DEF u, ToSet

LEMMA GoodConcat ==
  ASSUME NEW asked, NEW s, GoodScript(asked, s), NEW t, GoodScript(asked, t)
  PROVE  GoodScript(asked, s \o t)
  BY ConcatElements DEF GoodScript

LEMMA FirstAndRest ==
  ASSUME NEW s, IsList(s), s # <<>>
  PROVE  IsList(Tail(s)) /\ ToSet(s) = {Head(s)} \cup ToSet(Tail(s))
  <1> DEFINE t == Tail(s)
  <1>1. /\ 1 \in DOMAIN s /\ Head(s) = s[1] /\ IsList(t)
        /\ \A i \in DOMAIN t : i + 1 \in DOMAIN s /\ t[i] = s[i + 1]
    BY TailList
  <1>2. /\ Len(s) \in Nat /\ DOMAIN s = 1 .. Len(s)
        /\ s \in Seq(ToSet(s)) /\ Len(t) = Len(s) - 1
    BY ListShape, HeadTailProperties
  <1> HIDE DEF t
  <1>3. DOMAIN t = 1 .. Len(s) - 1
    BY <1>1, <1>2, ListShape
  <1>4. ToSet(t) \cup {Head(s)} \subseteq ToSet(s)
    BY <1>1 DEF ToSet
  <1>5. ASSUME NEW i \in DOMAIN s PROVE s[i] \in {Head(s)} \cup ToSet(t)
    <2>1. CASE i = 1
      BY <1>1, <2>1
    <2>2. CASE i # 1
      <3>1. i - 1 \in DOMAIN t /\ i - 1 + 1 = i
        BY <1>2, <1>3, <2>2
      <3>2. t[i - 1] = s[i]
        BY <1>1, <3>1
      <3> QED BY <3>1, <3>2 DEF ToSet
    <2> QED BY <2>1, <2>2
  <1> QED BY <1>1, <1>4, <1>5 DEF t, ToSet

\* The first request of a script, and what is left of it.
LEMMA GoodRest ==
  ASSUME NEW asked, NEW s, GoodScript(asked, s), s # <<>>
  PROVE  Good(asked, Head(s)) /\ GoodScript(asked, Tail(s))
  BY FirstAndRest DEF GoodScript
-----------------------------------------------------------------------------
(* Requests as the commands make them                                      *)

LEMMA RequestShapes ==
  ASSUME NEW op, NEW at, NEW val, NEW onErr, NEW use, NEW extra
  PROVE  /\ Is(Request(op, at, val, onErr), op, at, val, "", <<>>)
         /\ Is(Must(op, at, val), op, at, val, "", <<>>)
         /\ Is(Try(op, at, val), op, at, val, "", <<>>)
         /\ Is(For(use, Must(op, at, val)), op, at, val, use, <<>>)
         /\ Is([For(use, Must(op, at, val)) EXCEPT !.extra = extra], op, at, val, use, extra)
         /\ Is([For(use, Must(op, at, val)) EXCEPT !.extra = extra, !.counts = TRUE], op, at, val, use, extra)
         /\ Is([Must(op, at, val) EXCEPT !.counts = TRUE], op, at, val, "", <<>>)
         /\ Is(Counted(Must(op, at, val)), "nothing", at, val, "", <<>>)
  BY DEF Is, Request, Must, Try, For, Counted, RequestFields

LEMMA DocsShapes ==
  ASSUME NEW op, NEW at, NEW val, NEW onErr, NEW use, NEW extra
  PROVE  /\ Is(Docs!Must(op, at, val), op, at, val, "", <<>>)
         /\ Is(Docs!Try(op, at, val), op, at, val, "", <<>>)
         /\ Is(Docs!Either(Docs!Must(op, at, val)), op, at, val, "", <<>>)
         /\ Is(Docs!For(use, Docs!Must(op, at, val)), op, at, val, use, <<>>)
         /\ Is([Docs!For(use, Docs!Must(op, at, val)) EXCEPT !.extra = extra], op, at, val, use, extra)
         /\ Is([Docs!For(use, Docs!Either(Docs!Must(op, at, val))) EXCEPT !.extra = extra], op, at, val, use, extra)
         /\ Is([Docs!For(use, Docs!Must(op, at, val)) EXCEPT !.ways = 4, !.extra = extra], op, at, val, use, extra)
  BY DEF Is, Docs!Request, Docs!Must, Docs!Try, Docs!For, Docs!Either, RequestFields

LEMMA PlainIsGood ==
  ASSUME NEW asked, NEW r, NEW op, NEW at, NEW val, NEW use, NEW extra, Is(r, op, at, val, use, extra),
         op \notin OnlyAsked \/ op \in asked, op \notin Carrying, use \notin Particular,
         op = "save draft" => at = 0
  PROVE  Good(asked, r)
  BY DEF Is, IsRequest, Fits, Particular, Carrying, Asks, Good

\* A script of one plain request.
LEMMA PlainScript ==
  ASSUME NEW asked, NEW r, NEW op, NEW at, NEW val, NEW use, NEW extra, Is(r, op, at, val, use, extra),
         op \notin OnlyAsked \/ op \in asked, op \notin Carrying, use \notin Particular,
         op = "save draft" => at = 0
  PROVE  GoodScript(asked, <<r>>)
  BY PlainIsGood, OneRequest

\* The least of the numbers of a list that are picked out.
LEMMA LeastNat ==
  ASSUME NEW S, S \subseteq Nat, S # {}
  PROVE  Min(S) \in S /\ \A m \in S : Min(S) <= m
  <1> DEFINE LessThan == {pair \in Nat \X Nat : pair[1] < pair[2]}
  <1>1. OpToRel(<, Nat) = LessThan
    BY DEF OpToRel
  <1>2. IsWellFoundedOn(LessThan, Nat)
    BY <1>1, NatLessThanWellFounded
  <1> HIDE DEF LessThan
  <1>3. PICK n \in S : \A m \in S : <<m, n>> \notin LessThan
    BY <1>2, WFMin
  <1>0. S \subseteq Int /\ n \in S
    BY <1>3
  <1>4. ASSUME NEW m \in S PROVE n <= m
    <2> DEFINE pair == <<m, n>>
    <2>1. pair \in Nat \X Nat /\ pair[1] = m /\ pair[2] = n
      OBVIOUS
    <2>2. pair \notin LessThan
      BY <1>3
    <2> HIDE DEF pair
    <2>3. ~(m < n)
      BY <2>1, <2>2 DEF LessThan
    <2> QED BY <2>3
  <1>5. \E x \in S : \A y \in S : x =< y
    BY <1>3, <1>4, Zenon
  <1> QED BY <1>5 DEF Min
-----------------------------------------------------------------------------
(* Collections                                                             *)

\* A collection is finite, and so is every part of it.
LEMMA Collections ==
  ASSUME NEW p, IsPortal(p), NEW kind \in Kinds, NEW S, S \subseteq DOMAIN p[kind]
  PROVE  IsFiniteSet(S) /\ S \subseteq Nat
  <1>1. p.next - 1 \in Int /\ S \subseteq 1 .. p.next - 1
    BY DEF IsPortal
  <1>2. IsFiniteSet(1 .. p.next - 1)
    BY <1>1, FS_Interval
  <1>3. 1 .. p.next - 1 \subseteq Nat
    BY <1>1
  <1> QED BY <1>1, <1>2, <1>3, FS_Subset
-----------------------------------------------------------------------------
(* What the answers of projects bring                                      *)

LEMMA GoodUpdate ==
  ASSUME NEW asked, NEW id, NEW body
  PROVE  GoodScript(asked, UpdateProject(id, body))
  <1> DEFINE a == Must("put project", id, body)
             b == Try("project", id, "")
  <1>1. Is(a, "put project", id, body, "", <<>>) /\ Is(b, "project", id, "", "", <<>>)
    BY RequestShapes
  <1> HIDE DEF a, b
  <1>2. Good(asked, a) /\ Good(asked, b)
    BY <1>1, PlainIsGood DEF OnlyAsked, Removals, Carrying, Particular
  <1>3. GoodScript(asked, <<a, b>>)
    <2> DEFINE s == <<a, b>>
    <2>1. s \in Seq({a, b}) /\ \A i \in DOMAIN s : s[i] \in {a, b}
      OBVIOUS
    <2> HIDE DEF s
    <2>2. IsList(s)
      BY <2>1, SeqIsList
    <2>3. GoodScript(asked, s)
      BY <1>2, <2>1, <2>2 DEF GoodScript, ToSet
    <2> QED BY <2>3 DEF s
  <1> QED BY <1>3 DEF UpdateProject, a, b

LEMMA GoodDetails ==
  ASSUME NEW asked, NEW p, IsPortal(p), NEW id, NEW s \in Details(p, id)
  PROVE  GoodScript(asked, s)
  <1> DEFINE S == {t \in DOMAIN p.tasks : p.tasks[t].project = id}
             list == SetToSeq(S)
  <1>1. IsFiniteSet(S)
    BY Collections DEF Kinds
  <1>2. s = [i \in DOMAIN list |-> Try("task", list[i], 0)]
    BY DEF Details, ForEach
  <1> HIDE DEF S
  <1>3. IsList(list)
    BY <1>1, SetList
  <1> HIDE DEF list
  <1>4. ASSUME NEW i \in DOMAIN list PROVE Good(asked, s[i])
    <2> DEFINE q == s[i]
               t == list[i]
    <2>1. Is(q, "task", t, 0, "", <<>>)
      BY <1>2, RequestShapes
    <2> HIDE DEF q, t
    <2>2. Good(asked, q)
      BY <2>1, PlainIsGood DEF OnlyAsked, Removals, Carrying, Particular
    <2> QED BY <2>2 DEF q
  <1>5. s = [i \in DOMAIN list |-> s[i]]
    BY <1>2
  <1> QED BY <1>3, <1>4, <1>5, GoodForEach

\* A request of a board asks for nothing but what a board needs.
LEMMA BoardIsGood ==
  ASSUME NEW asked, MayAddTasks(asked), NEW r, NEW op, NEW at, NEW val, NEW use, NEW extra,
         Is(r, op, at, val, use, extra),
         op \in {"milestones", "tasks of", "self"}, use \in {"board", "board tasks", "own id"}, IsBoard(val)
  PROVE  GoodScript(asked, <<r>>)
  BY OneRequest DEF Is, IsRequest, Fits, Asks, OnlyAsked, Removals, Good, MayAddTasks

LEMMA UpsertIsGood ==
  ASSUME NEW asked, MayAddTasks(asked), NEW r, NEW op, NEW at, NEW val, NEW extra,
         Is(r, op, at, val, "upsert", extra),
         op \in {"add task", "add milestone"}, IsBoard(extra)
  PROVE  GoodScript(asked, <<r>>)
  BY OneRequest DEF Is, IsRequest, Fits, Asks, OnlyAsked, Removals, Good, MayAddTasks

LEMMA GoodProjects ==
  ASSUME NEW asked, MayAddTasks(asked), NEW more, IsMore(more), NEW apply, NEW self
  PROVE  GoodScript(asked, SyncProjects(more, apply, self))
  <1>1. CASE more = <<>>
    BY <1>1, NoScript DEF SyncProjects, Nothing
  <1>2. CASE more # <<>>
    <2> DEFINE val == [items |-> Head(more).items, apply |-> apply, ms |-> <<>>, have |-> {},
                       self |-> self, more |-> Tail(more)]
               at == Head(more).project
               r == For("board", Must("milestones", at, val))
               rest == Tail(more)
               none == <<>>
    <2>1. /\ 1 \in DOMAIN more /\ Head(more) = more[1] /\ IsList(rest)
          /\ \A k \in DOMAIN rest : k + 1 \in DOMAIN more /\ rest[k] = more[k + 1]
      BY <1>2, TailList DEF IsMore
    <2>2. IsList(Head(more).items) /\ \A k \in DOMAIN rest : IsList(rest[k].items)
      BY <2>1 DEF IsMore
    <2>3. IsBoard(val)
      BY <2>1, <2>2 DEF IsBoard
    <2>4. Is(r, "milestones", at, val, "board", none)
      BY RequestShapes
    <2>5. SyncProjects(more, apply, self) = <<r>>
      BY <1>2 DEF SyncProjects
    <2> HIDE DEF val, at, r, none
    <2>6. GoodScript(asked, <<r>>)
      BY <2>3, <2>4, BoardIsGood
    <2> QED BY <2>5, <2>6
  <1> QED BY <1>1, <1>2

LEMMA GoodUpsert ==
  ASSUME NEW asked, MayAddTasks(asked), NEW project, NEW state, IsBoard(state)
  PROVE  GoodScript(asked, Upsert(project, state))
  <1> DEFINE M == MissingItems(state)
             item == state.items[Min(M)]
             rest == [state EXCEPT !.items = SubSeq(@, Min(M) + 1, Len(@))]
             Creating(r) == <<[For("upsert", r) EXCEPT !.extra = rest, !.counts = TRUE]>>
             next == SyncProjects(state.more, state.apply, state.self)
             T == Must("add task", project, [title |-> item.task, milestone |-> state.ms[item.milestone]])
             O == For("own id", Must("self", project, [state EXCEPT !.self = TRUE]))
             A == Must("add milestone", project, item.milestone)
             dry == ForEach(SetToSeq(M), LAMBDA i : Counted(Must("", 0, 0)))
             bad == Must("bad date", 0, 0)
  <1>1. Len(state.items) \in Nat /\ DOMAIN state.items = 1 .. Len(state.items)
    BY ListShape DEF IsBoard
  <1>2. IsFiniteSet(M) /\ M \subseteq Nat
    <2>1. M \subseteq 1 .. Len(state.items)
      BY <1>1 DEF MissingItems
    <2> HIDE DEF M
    <2>2. IsFiniteSet(1 .. Len(state.items))
      BY <1>1, FS_Interval
    <2>3. 1 .. Len(state.items) \subseteq Nat
      BY <1>1
    <2> QED BY <2>1, <2>2, <2>3, FS_Subset
  <1>3. GoodScript(asked, next)
    BY GoodProjects DEF IsBoard, IsMore
  <1>4. Upsert(project, state) =
           IF M = {} THEN next
           ELSE IF ~state.apply THEN dry \o next
           ELSE IF item.day = "bad" THEN <<bad>>
           ELSE IF item.task # "" THEN Creating(T)
           ELSE IF ~state.self THEN <<O>>
           ELSE Creating(A)
    BY DEF Upsert
  <1> HIDE DEF next
  <1>5. GoodScript(asked, dry)
    <2> DEFINE list == SetToSeq(M)
    <2>0. dry = [i \in DOMAIN list |-> Counted(Must("", 0, 0))]
      BY DEF ForEach
    <2> HIDE DEF M
    <2>1. IsList(list)
      BY <1>2, SetList
    <2> HIDE DEF list, dry
    <2>2. ASSUME NEW i \in DOMAIN list PROVE Good(asked, dry[i])
      <3> DEFINE q == dry[i]
      <3>1. Is(q, "nothing", 0, 0, "", <<>>)
        BY <2>0, RequestShapes
      <3> HIDE DEF q
      <3>2. Good(asked, q)
        BY <3>1, PlainIsGood DEF OnlyAsked, Removals, Carrying, Particular
      <3> QED BY <3>2 DEF q
    <2>3. dry = [i \in DOMAIN list |-> dry[i]]
      BY <2>0
    <2> QED BY <2>1, <2>2, <2>3, GoodForEach
  <1>6. GoodScript(asked, dry \o next)
    <2> HIDE DEF dry
    <2> QED BY <1>3, <1>5, GoodConcat
  <1>7. GoodScript(asked, <<bad>>)
    <2>1. Is(bad, "bad date", 0, 0, "", <<>>)
      BY RequestShapes
    <2> HIDE DEF bad
    <2> QED BY <2>1, PlainScript DEF OnlyAsked, Removals, Carrying, Particular
  <1>8. M # {} => IsBoard(rest)
    <2> DEFINE m == Min(M)
               list == SubSeq(state.items, m + 1, Len(state.items))
    <2> SUFFICES ASSUME M # {} PROVE IsBoard(rest)
      OBVIOUS
    <2>1. m \in Nat
      <3> HIDE DEF M
      <3> QED BY <1>2, LeastNat
    <2> HIDE DEF m
    <2>2. IsList(list)
      BY <1>1, <2>1, SubSeqList
    <2>3. rest = [state EXCEPT !.items = list]
      BY DEF m
    <2> HIDE DEF list, rest
    <2> QED BY <2>2, <2>3 DEF IsBoard
  <1>9. M # {} => GoodScript(asked, Creating(T))
    BY <1>8, RequestShapes, UpsertIsGood
  <1>10. M # {} => GoodScript(asked, Creating(A))
    BY <1>8, RequestShapes, UpsertIsGood
  <1>11. GoodScript(asked, <<O>>)
    <2> DEFINE val == [state EXCEPT !.self = TRUE]
               none == <<>>
    <2>0. O = For("own id", Must("self", project, val))
      OBVIOUS
    <2>1. IsBoard(val)
      BY DEF IsBoard
    <2> HIDE DEF val, O
    <2>2. Is(O, "self", project, val, "own id", none)
      BY <2>0, RequestShapes
    <2> HIDE DEF none
    <2> QED BY <2>1, <2>2, BoardIsGood
  <1> HIDE DEF M, rest, T, O, A, dry, bad, Creating
  <1> QED BY <1>3, <1>4, <1>6, <1>7, <1>9, <1>10, <1>11

LEMMA LinkingIsGood ==
  ASSUME NEW asked, NEW r, NEW at, NEW val, IsLinking(val), val.authors # <<>>,
         Is(r, "people", at, val, "author", <<>>)
  PROVE  GoodScript(asked, <<r>>)
  BY OneRequest DEF Is, IsRequest, Fits, Asks, OnlyAsked, Removals, Good

LEMMA GoodAuthorNext ==
  ASSUME NEW asked, NEW project, NEW state, IsLinking(state)
  PROVE  GoodScript(asked, AuthorNext(project, state))
  BY NoScript, RequestShapes, LinkingIsGood DEF AuthorNext, Nothing

LEMMA GoodLinkOne ==
  ASSUME NEW asked, NEW project, NEW contact, NEW rest, IsLinking(rest)
  PROVE  GoodScript(asked, LinkOne(project, contact, rest))
  <1> DEFINE r == [For("linked", Must("link", project, contact)) EXCEPT !.extra = rest, !.counts = TRUE]
  <1>1. Is(r, "link", project, contact, "linked", rest)
    BY RequestShapes
  <1> HIDE DEF r
  <1>2. IsRequest(r)
    BY <1>1 DEF Is, IsRequest, Fits
  <1>3. Asks(r) = {"link"}
    BY <1>1 DEF Is, Asks
  <1>4. "link" \notin OnlyAsked
    BY DEF OnlyAsked, Removals
  <1>5. GoodScript(asked, <<r>>)
    BY <1>2, <1>3, <1>4, OneRequest DEF Good
  <1> QED BY <1>5 DEF LinkOne, r

LEMMA MissingCompaniesAreNumbers ==
  ASSUME NEW state, IsLinking(state)
  PROVE  LET M == MissingCompanies(state)
         IN  /\ IsFiniteSet(M) /\ M \subseteq Nat /\ Len(state.companies) \in Nat
             /\ M # {} => /\ Min(M) \in M
                          /\ \A k \in DOMAIN state.companies : k < Min(M) => state.companies[k] \in state.have
  <1> DEFINE M == MissingCompanies(state)
  <1>1. Len(state.companies) \in Nat /\ DOMAIN state.companies = 1 .. Len(state.companies)
    BY ListShape DEF IsLinking
  <1>2. M \subseteq 1 .. Len(state.companies)
    BY <1>1 DEF MissingCompanies
  <1>3. IsFiniteSet(1 .. Len(state.companies)) /\ 1 .. Len(state.companies) \subseteq Nat
    BY <1>1, FS_Interval
  <1>4. IsFiniteSet(M) /\ M \subseteq Nat
    <2> HIDE DEF M
    <2> QED BY <1>2, <1>3, FS_Subset
  <1>5. M # {} => Min(M) \in M /\ \A m \in M : Min(M) <= m
    <2> HIDE DEF M
    <2> QED BY <1>4, LeastNat
  <1>6. ASSUME M # {}, NEW k \in DOMAIN state.companies, k < Min(M) PROVE state.companies[k] \in state.have
    BY <1>4, <1>5, <1>6 DEF MissingCompanies
  <1> QED BY <1>1, <1>4, <1>5, <1>6

LEMMA PastIsLinking ==
  ASSUME NEW state, IsLinking(state)
  PROVE  /\ IsLinking(Linked(state))
         /\ MissingCompanies(state) # {} => IsLinking(Past(state))
  <1>1. IsLinking(Linked(state))
    BY OneElement DEF IsLinking, Linked
  <1>2. ASSUME MissingCompanies(state) # {} PROVE IsLinking(Past(state))
    <2> DEFINE m == Min(MissingCompanies(state))
               list == SubSeq(state.companies, m + 1, Len(state.companies))
    <2>1. m + 1 \in Int /\ Len(state.companies) \in Int
      BY <1>2, MissingCompaniesAreNumbers
    <2>2. Past(state) = [state EXCEPT !.companies = list]
      BY DEF Past
    <2> HIDE DEF m
    <2>3. IsList(list)
      BY <2>1, SubSeqList
    <2> HIDE DEF list
    <2> QED BY <2>2, <2>3 DEF IsLinking
  <1> QED BY <1>1, <1>2

LEMMA LinkNextCases ==
  ASSUME NEW project, NEW state
  PROVE  LET M == MissingCompanies(state)
             next == AuthorNext(project, Linked(state))
         IN  LinkNext(project, state) =
                IF M # {} /\ state.dry THEN ForEach(SetToSeq(M), LAMBDA x : Counted(Must("", 0, 0))) \o next
                ELSE IF M # {} THEN LinkOne(project, state.companies[Min(M)], Past(state))
                ELSE next
  BY DEF LinkNext, MissingCompanies, Linked, Past

LEMMA GoodLinkNext ==
  ASSUME NEW asked, NEW project, NEW state, IsLinking(state)
  PROVE  GoodScript(asked, LinkNext(project, state))
  <1> DEFINE M == MissingCompanies(state)
             next == AuthorNext(project, Linked(state))
             one == LinkOne(project, state.companies[Min(M)], Past(state))
             dry == ForEach(SetToSeq(M), LAMBDA x : Counted(Must("", 0, 0)))
  <1>1. IsFiniteSet(M)
    BY MissingCompaniesAreNumbers
  <1>2. LinkNext(project, state) = IF M # {} /\ state.dry THEN dry \o next ELSE IF M # {} THEN one ELSE next
    BY LinkNextCases
  <1>3. GoodScript(asked, next)
    BY PastIsLinking, GoodAuthorNext
  <1>4. M # {} => GoodScript(asked, one)
    BY PastIsLinking, GoodLinkOne
  <1> HIDE DEF M, next, one
  <1>5. GoodScript(asked, dry)
    <2> DEFINE list == SetToSeq(M)
    <2>0. dry = [i \in DOMAIN list |-> Counted(Must("", 0, 0))]
      BY DEF ForEach
    <2>1. IsList(list)
      BY <1>1, SetList
    <2> HIDE DEF list, dry
    <2>2. ASSUME NEW i \in DOMAIN list PROVE Good(asked, dry[i])
      <3> DEFINE q == dry[i]
      <3>1. Is(q, "nothing", 0, 0, "", <<>>)
        BY <2>0, RequestShapes
      <3> HIDE DEF q
      <3>2. Good(asked, q)
        BY <3>1, PlainIsGood DEF OnlyAsked, Removals, Carrying, Particular
      <3> QED BY <3>2 DEF q
    <2>3. dry = [i \in DOMAIN list |-> dry[i]]
      BY <2>0
    <2> QED BY <2>1, <2>2, <2>3, GoodForEach
  <1>6. GoodScript(asked, dry \o next)
    <2> HIDE DEF dry
    <2> QED BY <1>3, <1>5, GoodConcat
  <1> HIDE DEF dry
  <1> QED BY <1>2, <1>3, <1>4, <1>6

LEMMA NextAuthorsAreLinking ==
  ASSUME NEW state, IsLinking(state), state.authors # <<>>
  PROVE  IsLinking(NextAuthors(state))
  BY TailList DEF IsLinking, NextAuthors

LEMMA GoodAuthorFound ==
  ASSUME NEW asked, NEW p, NEW r, IsRequest(r), r.use = "author"
  PROVE  GoodScript(asked, AuthorFound(p, r))
  <1> DEFINE rest == NextAuthors(r.val)
             next == AuthorNext(r.at, rest)
             one == LinkOne(r.at, p.people[Head(r.val.authors)], rest)
             c == Counted(r)
  <1>1. IsLinking(r.val) /\ r.val.authors # <<>>
    BY DEF IsRequest, Fits
  <1>2. IsLinking(rest)
    BY <1>1, NextAuthorsAreLinking
  <1>3. AuthorFound(p, r) \in {next, <<c>> \o next, one}
    BY DEF AuthorFound, NextAuthors
  <1>4. DOMAIN c = RequestFields /\ c.op = "nothing" /\ c.use = ""
    BY DEF IsRequest, Fits, RequestFields, Counted
  <1> HIDE DEF rest, c
  <1>5. GoodScript(asked, next) /\ GoodScript(asked, one)
    BY <1>2, GoodAuthorNext, GoodLinkOne
  <1>6. GoodScript(asked, <<c>>)
    BY <1>4, OneRequest DEF IsRequest, Fits, Asks, Good, OnlyAsked, Removals
  <1> HIDE DEF next, one
  <1>7. GoodScript(asked, <<c>> \o next)
    BY <1>5, <1>6, GoodConcat
  <1> QED BY <1>3, <1>5, <1>7

LEMMA GoodTasks ==
  ASSUME NEW asked, MayAddTasks(asked), NEW r, IsRequest(r), r.use = "board", NEW ms
  PROVE  GoodScript(asked, Tasks(r, ms))
  <1> DEFINE val == [r.val EXCEPT !.ms = ms]
             q == For("board tasks", Must("tasks of", r.at, val))
  <1>1. IsBoard(val)
    BY DEF IsRequest, Fits, IsBoard
  <1>2. Is(q, "tasks of", r.at, val, "board tasks", <<>>)
    BY RequestShapes
  <1>3. Tasks(r, ms) = <<q>>
    BY DEF Tasks
  <1> HIDE DEF val, q
  <1> QED BY <1>1, <1>2, <1>3, BoardIsGood

LEMMA ProjectsThenIsGood ==
  ASSUME NEW asked, NEW p, IsPortal(p), NEW r, Good(asked, r), NEW s \in ProjectsThen(p, r)
  PROVE  GoodScript(asked, s)
  <1>a. IsRequest(r)
    BY DEF Good
  <1>b. ASSUME r.use \in {"board", "board tasks", "own id", "upsert"} PROVE MayAddTasks(asked)
    BY <1>b DEF Good, Asks, OnlyAsked, MayAddTasks
  <1>1. CASE r.use = "update project"
    BY <1>1, GoodUpdate DEF ProjectsThen
  <1>2. CASE r.use = "each task"
    BY <1>2, GoodDetails DEF ProjectsThen
  <1>3. CASE r.use = "board"
    BY <1>3, <1>a, <1>b, GoodTasks DEF ProjectsThen
  <1>4. CASE r.use = "board tasks"
    <2> DEFINE state == [r.val EXCEPT !.have = BoardTaskTitles(p, r.at)]
    <2>1. IsBoard(state)
      BY <1>4, <1>a DEF IsRequest, Fits, IsBoard
    <2>2. s = Upsert(r.at, state)
      BY <1>4 DEF ProjectsThen
    <2> HIDE DEF state
    <2> QED BY <1>b, <1>4, <2>1, <2>2, GoodUpsert
  <1>5. CASE r.use = "own id"
    BY <1>5, <1>a, <1>b, GoodUpsert DEF ProjectsThen, IsRequest, Fits
  <1>6. CASE r.use = "upsert"
    <2>1. IsBoard(r.extra) /\ s = Upsert(r.at, Upserted(p, r))
      BY <1>6, <1>a DEF ProjectsThen, IsRequest, Fits
    <2>2. IsBoard(Upserted(p, r))
      BY <2>1 DEF Upserted, IsBoard
    <2> QED BY <1>b, <1>6, <2>1, <2>2, GoodUpsert
  <1>7. CASE r.use = "links"
    <2> DEFINE state == [r.val EXCEPT !.have = p.projects[r.at].contacts]
    <2>1. IsLinking(state)
      BY <1>7, <1>a DEF IsRequest, Fits, IsLinking
    <2>2. s = LinkNext(r.at, state)
      BY <1>7 DEF ProjectsThen
    <2> HIDE DEF state
    <2> QED BY <2>1, <2>2, GoodLinkNext
  <1>8. CASE r.use = "author"
    BY <1>8, <1>a, GoodAuthorFound DEF ProjectsThen
  <1>9. CASE r.use = "linked"
    <2> DEFINE state == [r.extra EXCEPT !.have = @ \cup {r.val}]
    <2>1. IsLinking(state)
      BY <1>9, <1>a DEF IsRequest, Fits, IsLinking
    <2>2. s = LinkNext(r.at, state)
      BY <1>9 DEF ProjectsThen
    <2> HIDE DEF state
    <2> QED BY <2>1, <2>2, GoodLinkNext
  <1>10. CASE r.use \notin {"update project", "each task", "board", "board tasks", "own id", "upsert",
                            "links", "author", "linked"}
    <2>1. s = <<>>
      BY <1>10 DEF ProjectsThen, Nothing
    <2> QED BY <2>1, NoScript
  <1> QED BY <1>1, <1>2, <1>3, <1>4, <1>5, <1>6, <1>7, <1>8, <1>9, <1>10
-----------------------------------------------------------------------------
(* What the answers about invoices, mail and users bring                   *)

LEMMA TwoRequests ==
  ASSUME NEW asked, NEW a, NEW b, Good(asked, a), Good(asked, b)
  PROVE  GoodScript(asked, <<a, b>>)
  <1> DEFINE s == <<a, b>>
  <1>1. s \in Seq({a, b}) /\ \A i \in DOMAIN s : s[i] \in {a, b}
    OBVIOUS
  <1> HIDE DEF s
  <1>2. IsList(s)
    BY <1>1, SeqIsList
  <1>3. GoodScript(asked, s)
    BY <1>1, <1>2 DEF GoodScript, ToSet
  <1> QED BY <1>3 DEF s

LEMMA ThreeRequests ==
  ASSUME NEW asked, NEW a, NEW b, NEW c, Good(asked, a), Good(asked, b), Good(asked, c)
  PROVE  GoodScript(asked, <<a, b, c>>)
  <1> DEFINE s == <<a, b, c>>
  <1>1. s \in Seq({a, b, c}) /\ \A i \in DOMAIN s : s[i] \in {a, b, c}
    OBVIOUS
  <1> HIDE DEF s
  <1>2. IsList(s)
    BY <1>1, SeqIsList
  <1>3. GoodScript(asked, s)
    BY <1>1, <1>2 DEF GoodScript, ToSet
  <1> QED BY <1>3 DEF s

\* A plain request for each element of a finite set.
LEMMA EachOfASet ==
  ASSUME NEW asked, NEW S, IsFiniteSet(S), NEW op, op \notin OnlyAsked \/ op \in asked, op \notin Carrying,
         op # "save draft", NEW val, NEW s, s = [i \in DOMAIN SetToSeq(S) |-> s[i]],
         \A i \in DOMAIN SetToSeq(S) : Is(s[i], op, SetToSeq(S)[i], val, "", <<>>)
  PROVE  GoodScript(asked, s)
  <1> DEFINE list == SetToSeq(S)
  <1>1. IsList(list)
    BY SetList
  <1>2. s = [i \in DOMAIN list |-> s[i]] /\ \A i \in DOMAIN list : Is(s[i], op, list[i], val, "", <<>>)
    OBVIOUS
  <1> HIDE DEF list
  <1>3. ASSUME NEW i \in DOMAIN list PROVE Good(asked, s[i])
    BY <1>2, PlainIsGood DEF Particular
  <1> QED BY <1>1, <1>2, <1>3, GoodForEach

LEMMA GoodUpdateInvoice ==
  ASSUME NEW asked, "put invoice" \in asked, NEW p, IsPortal(p), NEW r, r.at \in DOMAIN p.invoices
  PROVE  GoodScript(asked, UpdateInvoice(p, r))
  <1> DEFINE val == [p.invoices[r.at] EXCEPT !.note = r.val.note, !.spaced = r.val.spaced, !.consignee = NoFile]
             q == Must("put invoice", r.at, val)
  <1>1. DOMAIN val = InvoiceFields
    BY DEF IsPortal, Kinds, IsRecord
  <1> HIDE DEF val
  <1>2. Is(q, "put invoice", r.at, val, "", <<>>)
    BY RequestShapes
  <1>3. UpdateInvoice(p, r) = <<q>>
    BY DEF UpdateInvoice, val
  <1> HIDE DEF q
  <1>4. IsRequest(q) /\ Asks(q) = {"put invoice"}
    BY <1>1, <1>2 DEF Is, IsRequest, Fits, Asks
  <1> QED BY <1>3, <1>4, OneRequest DEF Good, OnlyAsked, Removals

LEMMA GoodTouch ==
  ASSUME NEW asked, "put invoice" \in asked, NEW p, NEW r, IsRequest(r), r.use = "touch"
  PROVE  GoodScript(asked, Touch(p, r))
  <1> DEFINE inv == p.invoices[r.at]
             val == [note |-> inv.note, spaced |-> ~inv.spaced]
             u == For("update invoice", Must("invoice", r.at, val))
             q == For(r.extra, Must("pdf", r.at, r.val))
  <1>0. r.extra \in {"", "draft invoice"}
    BY DEF IsRequest, Fits
  <1>1. Touch(p, r) = (IF CanEdit(inv) THEN <<u>> ELSE <<>>) \o <<q>>
    BY DEF Touch, InvoicesUpdate, Nothing
  <1> HIDE DEF val, inv
  <1>2. Is(u, "invoice", r.at, val, "update invoice", <<>>) /\ Is(q, "pdf", r.at, r.val, r.extra, <<>>)
    BY RequestShapes
  <1> HIDE DEF u, q
  <1>3. IsRequest(u) /\ Asks(u) = {"invoice", "put invoice"}
    BY <1>2 DEF Is, IsRequest, Fits, Asks
  <1>4. IsRequest(q) /\ Asks(q) = {"pdf"}
    BY <1>0, <1>2 DEF Is, IsRequest, Fits, Asks
  <1>5. GoodScript(asked, <<u>>) /\ GoodScript(asked, <<q>>)
    BY <1>3, <1>4, OneRequest DEF Good, OnlyAsked, Removals
  <1>6. GoodScript(asked, <<u>> \o <<q>>) /\ GoodScript(asked, <<>> \o <<q>>)
    BY <1>5, NoScript, GoodConcat
  <1> QED BY <1>1, <1>6

LEMMA SearchIsGood ==
  ASSUME NEW asked, NEW r, NEW at, NEW val, IsSearch(val), NEW use \in {"contact files", "deal files"},
         Is(r, "card files", at, val, use, <<>>)
  PROVE  GoodScript(asked, <<r>>)
  BY OneRequest DEF Is, IsRequest, Fits, Asks, Good, OnlyAsked, Removals

LEMMA GoodListCards ==
  ASSUME NEW asked, NEW p, NEW r
  PROVE  GoodScript(asked, ListCards(p, r))
  BY FS_EmptySet, RequestShapes, SearchIsGood, NoScript DEF ListCards, Nothing, IsSearch

LEMMA GoodDeleteCopies ==
  ASSUME NEW asked, NEW files, IsFiniteSet(files)
  PROVE  GoodScript(asked, DeleteCopies(files))
  <1> DEFINE list == SetToSeq(files)
             s == ForEach(list, LAMBDA f : Try("unlink copy", f, 0))
             d == Must("drop copies", 0, files)
  <1>1. DeleteCopies(files) \in {<<>>, <<d>> \o s}
    BY DEF DeleteCopies, Nothing
  <1>2. s = [i \in DOMAIN list |-> Try("unlink copy", list[i], 0)]
    BY DEF ForEach
  <1> HIDE DEF s
  <1>3. GoodScript(asked, s)
    <2>1. s = [i \in DOMAIN list |-> s[i]] /\ \A i \in DOMAIN list : Is(s[i], "unlink copy", list[i], 0, "", <<>>)
      BY <1>2, RequestShapes
    <2>2. "unlink copy" \notin OnlyAsked /\ "unlink copy" \notin Carrying
      BY DEF OnlyAsked, Removals, Carrying
    <2> QED BY <2>1, <2>2, EachOfASet
  <1>4. GoodScript(asked, <<d>>)
    <2>1. Is(d, "drop copies", 0, files, "", <<>>)
      BY RequestShapes
    <2> HIDE DEF d
    <2> QED BY <2>1, PlainScript DEF OnlyAsked, Removals, Carrying, Particular
  <1> HIDE DEF d
  <1>5. GoodScript(asked, <<d>> \o s)
    BY <1>3, <1>4, GoodConcat
  <1> QED BY <1>1, <1>5, NoScript

LEMMA FilesAdded ==
  ASSUME NEW p, IsPortal(p), NEW r, IsSearch(r.val)
  PROVE  IsSearch(AddFiles(p, r)) /\ AddFiles(p, r).inv = r.val.inv
  BY Collections, FS_Union DEF StaleCopies, Kinds, IsSearch, AddFiles

LEMMA GoodAfterContact ==
  ASSUME NEW asked, NEW found, IsSearch(found)
  PROVE  GoodScript(asked, AfterContact(found))
  BY RequestShapes, SearchIsGood, GoodDeleteCopies DEF AfterContact, IsSearch

LEMMA GoodDraftInvoice ==
  ASSUME NEW asked, NEW p, NEW r
  PROVE  GoodScript(asked, DraftInvoice(p, r))
  <1> DEFINE pdf == p.invoices[r.at].pdf
             a == Must("invoice", r.at, 0)
             b == Must("accounts", 0, 0)
             c == [For("draft", Must("save draft", 0, r.val)) EXCEPT !.extra = pdf]
  <1>1. DraftInvoice(p, r) = <<a, b, c>>
    BY DEF DraftInvoice
  <1> HIDE DEF pdf
  <1>2. /\ Is(a, "invoice", r.at, 0, "", <<>>) /\ Is(b, "accounts", 0, 0, "", <<>>)
        /\ Is(c, "save draft", 0, r.val, "draft", pdf)
    BY RequestShapes
  <1> HIDE DEF a, b, c
  <1>3. /\ IsRequest(a) /\ Asks(a) = {"invoice"} /\ IsRequest(b) /\ Asks(b) = {"accounts"}
        /\ IsRequest(c) /\ Asks(c) = {}
    BY <1>2 DEF Is, IsRequest, Fits, Asks
  <1> QED BY <1>1, <1>3, ThreeRequests DEF Good, OnlyAsked, Removals

LEMMA MailsPageIsList ==
  ASSUME NEW p, IsPortal(p), NEW folder, NEW page \in Nat \ {0}
  PROVE  LET batch == MailsPage(p, folder, page)
         IN  IsList(batch) /\ Len(batch) \in Nat
  <1> DEFINE S == {m \in DOMAIN p.mails : p.mails[m].folder = folder}
             all == Newest(p, folder)
             last == Min({page * MailPage, Len(all)})
             batch == MailsPage(p, folder, page)
  <1>1. Len(all) \in Nat
    BY Collections, FS_CardinalityType, FunctionIsList DEF Kinds, Newest
  <1> HIDE DEF all
  <1>2. page * MailPage \in Nat /\ (page - 1) * MailPage + 1 \in Int
    BY MailAssumption
  <1>3. last \in Int
    BY <1>1, <1>2, LeastNat
  <1>4. batch = SubSeq(all, (page - 1) * MailPage + 1, last)
    BY DEF MailsPage, all
  <1> HIDE DEF last, batch
  <1>5. IsList(batch)
    BY <1>2, <1>3, <1>4, SubSeqList
  <1> QED BY <1>5, ListShape DEF batch

LEMMA WalkIsGood ==
  ASSUME NEW asked, NEW r, IsRequest(r), r.use = "mail page", Asks(r) \cap OnlyAsked \subseteq asked,
         NEW at \in Nat \ {0}, NEW rest, IsWalk(rest)
  PROVE  GoodScript(asked, <<[r EXCEPT !.at = at, !.val = rest]>>)
  <1> DEFINE q == [r EXCEPT !.at = at, !.val = rest]
  <1>1. /\ DOMAIN q = RequestFields /\ q.op = r.op /\ q.use = "mail page" /\ q.at = at /\ q.val = rest
        /\ q.extra = r.extra
    BY DEF IsRequest, Fits, RequestFields
  <1> HIDE DEF q
  <1>2. r.op \notin Carrying
    BY DEF IsRequest, Fits, IsWalk, Carrying, ProjectFields, InvoiceFields
  <1>3. IsRequest(q)
    BY <1>1, <1>2 DEF IsRequest, Fits, Carrying
  <1>4. Asks(q) = Asks(r)
    <2>1. r.at # 0 /\ at # 0
      BY DEF IsRequest, Fits
    <2> QED BY <1>1, <2>1 DEF Asks
  <1>5. GoodScript(asked, <<q>>)
    BY <1>3, <1>4, OneRequest DEF Good
  <1> QED BY <1>5 DEF q

\* The larger of a number and 0.
LEMMA AtLeastNone ==
  ASSUME NEW i \in Int
  PROVE  Max({i, 0}) = IF i >= 0 THEN i ELSE 0
  <1> DEFINE most == IF i >= 0 THEN i ELSE 0
             Is1(x) == x \in {i, 0} /\ \A y \in {i, 0} : x >= y
  <1>1. Is1(most) /\ \A x : Is1(x) => x = most
    OBVIOUS
  <1>2. Max({i, 0}) = CHOOSE x : Is1(x)
    BY DEF Max
  <1> HIDE DEF most, Is1
  <1>3. Max({i, 0}) = most
    BY <1>1, <1>2
  <1> QED BY <1>3 DEF most

LEMMA GoodRead ==
  ASSUME NEW asked, NEW m
  PROVE  Good(asked, ReadMail(m)) /\ Good(asked, Counted(ReadMail(m)))
  <1> DEFINE q == ReadMail(m)
             n == Counted(q)
  <1>1. Is(q, "message", m, 0, "", <<>>)
    BY RequestShapes DEF ReadMail
  <1>2. Is(n, "nothing", m, 0, "", <<>>)
    BY DEF ReadMail, Is, Must, Request, Counted, RequestFields
  <1> HIDE DEF q, n
  <1>3. Good(asked, q) /\ Good(asked, n)
    BY <1>1, <1>2, PlainIsGood DEF OnlyAsked, Removals, Carrying, Particular
  <1> QED BY <1>3 DEF q, n

\* What of a page of that size is seen, what is left to pass over and to take, and the next page.
LEMMA PageParts ==
  ASSUME NEW skip \in Nat, NEW limit \in Nat, NEW batch, IsList(batch), NEW page \in Nat \ {0}
  PROVE  /\ IsList(SubSeq(batch, 1, skip + limit))
         /\ Max({skip - Len(batch), 0}) \in Nat
         /\ ~(limit > 0 /\ skip + limit <= Len(batch))
              => (IF limit = 0 THEN 0 ELSE limit - Max({Len(batch) - skip, 0})) \in Nat
         /\ page + 1 \in Nat \ {0}
  <1>1. Len(batch) \in Nat /\ skip + limit \in Int
    BY ListShape
  <1>2. IsList(SubSeq(batch, 1, skip + limit))
    <2> DEFINE upto == skip + limit
    <2> HIDE DEF upto
    <2> QED BY <1>1, SubSeqList DEF upto
  <1> DEFINE size == Len(batch)
  <1> HIDE DEF size
  <1>3. Max({skip - size, 0}) = (IF skip - size >= 0 THEN skip - size ELSE 0)
        /\ Max({size - skip, 0}) = (IF size - skip >= 0 THEN size - skip ELSE 0)
    <2>1. skip - size \in Int /\ size - skip \in Int
      BY <1>1 DEF size
    <2> QED BY <2>1, AtLeastNone
  <1> QED BY <1>1, <1>2, <1>3 DEF size

LEMMA GoodHydrate ==
  ASSUME NEW asked, NEW p, IsPortal(p), NEW r, Good(asked, r), r.use = "mail page"
  PROVE  GoodScript(asked, Hydrate(p, r))
  <1> DEFINE skip  == r.val.skip
             limit == r.val.limit
             batch == MailsPage(p, r.val.folder, r.at)
             size  == Len(batch)
             upto  == skip + limit
             full  == limit > 0 /\ upto <= size
             part  == SubSeq(batch, 1, upto)
             seen  == IF full THEN part ELSE batch
             taken == Max({Len(seen) - skip, 0})
             past  == Max({skip - size, 0})
             left  == IF limit = 0 THEN 0 ELSE limit - taken
             rest  == [r.val EXCEPT !.skip = past, !.limit = left]
             read  == [i \in DOMAIN seen |-> IF i <= skip THEN Counted(ReadMail(seen[i])) ELSE ReadMail(seen[i])]
             stop  == full \/ LastPage(batch)
             at    == r.at + 1
             onward == [r EXCEPT !.at = at, !.val = rest]
  <1>1. Hydrate(p, r) = read \o (IF stop THEN <<>> ELSE <<onward>>)
    BY DEF Hydrate, Nothing
  <1>2. r.at \in Nat \ {0} /\ IsWalk(r.val)
    BY DEF Good, IsRequest, Fits
  <1>3. IsList(batch)
    BY <1>2, MailsPageIsList
  <1>4. skip \in Nat /\ limit \in Nat /\ DOMAIN r.val = {"folder", "skip", "limit"}
    BY <1>2 DEF IsWalk
  <1>5. DOMAIN rest = {"folder", "skip", "limit"} /\ rest.skip = past /\ rest.limit = left
    BY <1>4
  <1> HIDE DEF batch, skip, limit, rest
  <1>6. /\ IsList(part) /\ past \in Nat /\ at \in Nat \ {0}
        /\ ~full => (IF limit = 0 THEN 0 ELSE limit - Max({size - skip, 0})) \in Nat
    BY <1>2, <1>3, <1>4, PageParts
  <1>7. IsList(seen)
    BY <1>3, <1>6
  <1>9. GoodScript(asked, read)
    <2> HIDE DEF seen
    <2>1. \A i \in DOMAIN seen : Good(asked, read[i])
      BY GoodRead
    <2>2. read = [i \in DOMAIN seen |-> read[i]]
      OBVIOUS
    <2> HIDE DEF read
    <2> QED BY <1>7, <2>1, <2>2, GoodForEach
  <1>10. ~full => left = IF limit = 0 THEN 0 ELSE limit - Max({size - skip, 0})
    OBVIOUS
  <1>11. full => stop
    OBVIOUS
  <1> HIDE DEF read, past, at, left, full, stop, size, upto
  <1>12. ~full => GoodScript(asked, <<onward>>)
    <2>1. ~full => IsWalk(rest)
      BY <1>5, <1>6, <1>10 DEF IsWalk
    <2> QED BY <1>6, <2>1, WalkIsGood DEF Good
  <1> HIDE DEF onward
  <1>13. GoodScript(asked, read \o <<>>)
    BY <1>9, NoScript, GoodConcat
  <1>14. ~stop => GoodScript(asked, read \o <<onward>>)
    BY <1>9, <1>11, <1>12, GoodConcat
  <1> QED BY <1>1, <1>13, <1>14

LEMMA BusinessThenIsGood ==
  ASSUME NEW asked, NEW p, IsPortal(p), NEW r, Good(asked, r), r.op = "invoice" => r.at \in DOMAIN p.invoices,
         NEW s \in BusinessThen(p, r)
  PROVE  GoodScript(asked, s)
  <1>0. /\ IsRequest(r)
        /\ r.use \in {"update invoice", "touch"} => "put invoice" \in asked
    BY DEF Good, Asks, OnlyAsked
  <1>1. CASE r.use = "update invoice"
    BY <1>0, <1>1, GoodUpdateInvoice DEF IsRequest, Fits, BusinessThen
  <1>2. CASE r.use = "touch"
    BY <1>0, <1>2, GoodTouch DEF BusinessThen
  <1>3. CASE r.use = "purge"
    BY <1>3, GoodListCards DEF BusinessThen
  <1>4. CASE r.use = "contact files"
    BY <1>0, <1>4, FilesAdded, GoodAfterContact DEF BusinessThen, IsRequest, Fits
  <1>5. CASE r.use = "deal files"
    <2>1. s = DeleteCopies(AddFiles(p, r).files) /\ IsSearch(r.val)
      BY <1>0, <1>5 DEF BusinessThen, IsRequest, Fits
    <2>2. IsFiniteSet(AddFiles(p, r).files)
      BY <2>1, FilesAdded DEF IsSearch
    <2> QED BY <2>1, <2>2, GoodDeleteCopies
  <1>6. CASE r.use = "draft invoice"
    BY <1>6, GoodDraftInvoice DEF BusinessThen
  <1>7. CASE r.use = "draft"
    <2> DEFINE q == Must("attach", LastId(p), r.extra)
    <2>1. s = <<q>>
      BY <1>7 DEF BusinessThen, AttachMailDocument
    <2>2. Is(q, "attach", LastId(p), r.extra, "", <<>>)
      BY RequestShapes
    <2> HIDE DEF q
    <2>3. IsRequest(q) /\ Asks(q) = {"attach"}
      BY <2>2 DEF Is, IsRequest, Fits, Asks
    <2> QED BY <2>1, <2>3, OneRequest DEF Good, OnlyAsked, Removals
  <1>8. CASE r.use = "mail page"
    BY <1>8, GoodHydrate DEF BusinessThen
  <1>9. CASE r.use \notin {"update invoice", "touch", "purge", "contact files", "deal files", "draft invoice",
                           "draft", "mail page"}
    <2>1. s = <<>>
      BY <1>9 DEF BusinessThen, Nothing
    <2> QED BY <2>1, NoScript
  <1> QED BY <1>1, <1>2, <1>3, <1>4, <1>5, <1>6, <1>7, <1>8, <1>9
-----------------------------------------------------------------------------
(* What the answers about documents bring                                  *)

LEMMA DocsSetToSeq ==
  ASSUME NEW S
  PROVE  Docs!SetToSeq(S) = SetToSeq(S)
  BY DEF Cardinality, Docs!Cardinality, IsFiniteSet, Docs!IsFiniteSet, SetToSeq, Docs!SetToSeq,
     IsInjective, Docs!IsInjective

\* A script of one plain request of documents.
LEMMA NoFiles ==
  ASSUME NEW asked
  PROVE  GoodScript(asked, Docs!Nothing) /\ GoodScript(asked, <<Docs!GiveUp>>)
  <1> DEFINE g == Docs!GiveUp
  <1>1. Is(g, "give up", 0, 0, "", <<>>)
    BY DocsShapes DEF Docs!GiveUp
  <1> HIDE DEF g
  <1>2. IsRequest(g) /\ Asks(g) = {"give up"}
    BY <1>1 DEF Is, IsRequest, Fits, Asks
  <1>3. GoodScript(asked, <<g>>)
    BY <1>2, OneRequest DEF Good, OnlyAsked, Removals
  <1> QED BY <1>3, NoScript DEF g, Docs!Nothing

LEMMA GoodDeleteFiles ==
  ASSUME NEW asked, "drop file" \in asked, NEW list, IsList(list)
  PROVE  GoodScript(asked, Docs!DeleteFiles(list))
  <1> DEFINE s == Docs!DeleteFiles(list)
  <1>1. s = [i \in DOMAIN list |-> Docs!Must("drop file", list[i], 0)]
    BY DEF Docs!DeleteFiles, Docs!ForEach
  <1> HIDE DEF s
  <1>2. ASSUME NEW i \in DOMAIN list PROVE Good(asked, s[i])
    <2> DEFINE q == s[i]
               at == list[i]
    <2>1. Is(q, "drop file", at, 0, "", <<>>)
      BY <1>1, DocsShapes
    <2> HIDE DEF q, at
    <2>2. Good(asked, q)
      BY <2>1, PlainIsGood DEF Carrying, Particular
    <2> QED BY <2>2 DEF q
  <1>3. s = [i \in DOMAIN list |-> s[i]]
    BY <1>1
  <1>4. GoodScript(asked, s)
    BY <1>2, <1>3, GoodForEach
  <1> QED BY <1>4 DEF s

LEMMA GoodUpload ==
  ASSUME NEW asked, NEW folder, NEW doc
  PROVE  GoodScript(asked, Docs!UploadToFolder(folder, doc))
  <1> DEFINE q == Docs!Either(Docs!Must("upload", folder, doc))
  <1>1. Is(q, "upload", folder, doc, "", <<>>)
    BY DocsShapes
  <1>2. Docs!UploadToFolder(folder, doc) = <<q>>
    BY DEF Docs!UploadToFolder
  <1> HIDE DEF q
  <1> QED BY <1>1, <1>2, PlainScript DEF OnlyAsked, Removals, Carrying, Particular

LEMMA MatchingAreFiles ==
  ASSUME NEW p, IsPortal(p), NEW folder, NEW doc, NEW S, S \subseteq Docs!Matching(p, folder, doc)
  PROVE  IsFiniteSet(S) /\ IsList(Docs!SetToSeq(S))
  BY Collections, SetList, DocsSetToSeq DEF Docs!Matching, Docs!FilesIn, Kinds

LEMMA GoodDeleteThenUpload ==
  ASSUME NEW asked, "drop file" \in asked, NEW p, IsPortal(p), NEW r
  PROVE  GoodScript(asked, Docs!DeleteThenUpload(p, r))
  BY MatchingAreFiles, GoodDeleteFiles, GoodUpload, GoodConcat DEF Docs!DeleteThenUpload

LEMMA GoodReplace ==
  ASSUME NEW asked, {"drop file", "update"} \subseteq asked, NEW p, IsPortal(p), NEW r, NEW s \in Docs!Replace(p, r)
  PROVE  GoodScript(asked, s)
  <1> DEFINE found == Docs!Matching(p, r.at, r.val)
             val == [name |-> r.val.name, body |-> r.val.body, folder |-> r.at]
             others(keep) == Docs!SetToSeq(found \ {keep})
             q(keep) == [Docs!For("updated", Docs!Must("update", keep, val)) EXCEPT !.ways = 4, !.extra = others(keep)]
  <1>1. \/ s = Docs!UploadToFolder(r.at, r.val)
        \/ s = Docs!DeleteThenUpload(p, r)
        \/ \E keep : s = <<q(keep)>>
    BY DEF Docs!Replace
  <1>2. ASSUME NEW keep PROVE GoodScript(asked, <<q(keep)>>)
    <2> DEFINE list == others(keep)
               x == q(keep)
    <2>1. IsList(list)
      BY MatchingAreFiles
    <2>2. x = [Docs!For("updated", Docs!Must("update", keep, val)) EXCEPT !.ways = 4, !.extra = list]
      OBVIOUS
    <2> HIDE DEF list, val, x
    <2>3. Is(x, "update", keep, val, "updated", list)
      BY <2>2, DocsShapes
    <2>4. IsRequest(x) /\ Asks(x) = {"drop file", "update"}
      BY <2>1, <2>3 DEF Is, IsRequest, Fits, Asks
    <2>5. GoodScript(asked, <<x>>)
      BY <2>4, OneRequest DEF Good
    <2> QED BY <2>5 DEF x
  <1> HIDE DEF q
  <1> QED BY <1>1, <1>2, GoodUpload, GoodDeleteThenUpload

LEMMA JobIsGood ==
  ASSUME NEW asked, NEW r, NEW op, NEW at, NEW job, NEW use, NEW extra, Is(r, op, at, job, use, extra),
         op \in {"dir", "file"}, use \in {"stat", "stat file"}, IsJob(job), Brings(job.op) \cap OnlyAsked \subseteq asked
  PROVE  GoodScript(asked, <<r>>)
  BY OneRequest DEF Is, IsRequest, Fits, Asks, Good, OnlyAsked, Removals

LEMMA GoodStatFile ==
  ASSUME NEW asked, NEW r, Good(asked, r), r.use \in {"stat", "stat file"}
  PROVE  GoodScript(asked, Docs!StatFile(r))
  BY DocsShapes, JobIsGood DEF Docs!StatFile, Good, IsRequest, Fits, Asks

LEMMA GoodSplit ==
  ASSUME NEW asked, NEW job, IsJob(job), Brings(job.op) \cap OnlyAsked \subseteq asked
  PROVE  GoodScript(asked, Docs!Split(job))
  <1>1. CASE job.op = "delete"
    <2> DEFINE s == [i \in DOMAIN job.folders |-> Docs!Must("drop folder", job.folders[i], 0)]
               t == Docs!DeleteFiles(job.files)
    <2>1. Docs!Split(job) = s \o t
      BY <1>1 DEF Docs!Split, Docs!DeleteDavItems, Docs!ForEach
    <2>2. "drop folder" \in asked /\ "drop file" \in asked
      BY <1>1 DEF Brings, OnlyAsked
    <2>3. GoodScript(asked, s)
      <3> DEFINE list == job.folders
      <3>0. s = [i \in DOMAIN list |-> Docs!Must("drop folder", list[i], 0)] /\ IsList(list)
        BY DEF IsJob
      <3> HIDE DEF s, list
      <3>1. ASSUME NEW i \in DOMAIN list PROVE Good(asked, s[i])
        <4> DEFINE q == s[i]
                   at == list[i]
        <4>1. Is(q, "drop folder", at, 0, "", <<>>)
          BY <3>0, DocsShapes
        <4> HIDE DEF q, at
        <4>2. Good(asked, q)
          BY <2>2, <4>1, PlainIsGood DEF Carrying, Particular
        <4> QED BY <4>2 DEF q
      <3>2. s = [i \in DOMAIN list |-> s[i]]
        BY <3>0
      <3> QED BY <3>0, <3>1, <3>2, GoodForEach
    <2>4. GoodScript(asked, t)
      BY <2>2, GoodDeleteFiles DEF IsJob
    <2> HIDE DEF s, t
    <2> QED BY <2>1, <2>3, <2>4, GoodConcat
  <1>2. CASE job.op = "rename"
    <2> DEFINE x == Head(job.folders)
               y == Head(job.files)
               a == Docs!Must("rename folder", x, job.arg)
               b == Docs!Must("rename file", y, job.arg)
    <2>1. Docs!Split(job) \in {<<a>>, <<b>>}
      BY <1>2 DEF Docs!Split
    <2> HIDE DEF x, y
    <2>2. Is(a, "rename folder", x, job.arg, "", <<>>) /\ Is(b, "rename file", y, job.arg, "", <<>>)
      BY DocsShapes
    <2> HIDE DEF a, b
    <2>3. {"rename folder", "rename file"} \subseteq asked
      BY <1>2 DEF Brings, OnlyAsked
    <2>4. GoodScript(asked, <<a>>) /\ GoodScript(asked, <<b>>)
      BY <2>2, <2>3, PlainScript DEF Carrying, Particular
    <2> QED BY <2>1, <2>4
  <1>3. CASE job.op = "download"
    <2> DEFINE file == Head(job.folders \o job.files)
               a == Docs!Must("open", job.arg, 0)
               b == Docs!For("body", Docs!Must("file", file, job.arg))
               c == Docs!For("body", Docs!Must("fetch", file, job.arg))
    <2>1. Docs!Split(job) = <<a, b, c>>
      BY <1>3 DEF Docs!Split, Docs!FetchTo
    <2> HIDE DEF file
    <2>2. /\ Is(a, "open", job.arg, 0, "", <<>>) /\ Is(b, "file", file, job.arg, "body", <<>>)
          /\ Is(c, "fetch", file, job.arg, "body", <<>>)
      BY DocsShapes
    <2> HIDE DEF a, b, c
    <2>3. /\ IsRequest(a) /\ Asks(a) = {"open"} /\ IsRequest(b) /\ Asks(b) = {"file", "open"}
          /\ IsRequest(c) /\ Asks(c) = {"fetch", "open"}
      BY <2>2 DEF Is, IsRequest, Fits, Asks
    <2>4. "open" \in asked
      BY <1>3 DEF Brings, OnlyAsked
    <2>5. Good(asked, a) /\ Good(asked, b) /\ Good(asked, c)
      BY <2>3, <2>4 DEF Good, OnlyAsked, Removals
    <2> QED BY <2>1, <2>5, ThreeRequests
  <1>4. CASE job.op \notin {"delete", "rename", "download"}
    <2> DEFINE items == [folders |-> Docs!ToSet(job.folders), files |-> Docs!ToSet(job.files)]
               q == Docs!Must(job.op, job.arg, items)
    <2>1. Docs!Split(job) = <<q>>
      BY <1>4 DEF Docs!Split
    <2> HIDE DEF items
    <2>2. Is(q, job.op, job.arg, items, "", <<>>)
      BY DocsShapes
    <2> HIDE DEF q
    <2>3. IsRequest(q) /\ Asks(q) = {job.op}
      BY <2>2 DEF Is, IsRequest, Fits, Asks, IsJob
    <2>4. {job.op} \cap OnlyAsked \subseteq asked
      BY <1>4 DEF Brings
    <2> QED BY <2>1, <2>3, <2>4, OneRequest DEF Good
  <1> QED BY <1>1, <1>2, <1>3, <1>4

LEMMA GoodLooked ==
  ASSUME NEW asked, NEW job, IsJob(job), Brings(job.op) \cap OnlyAsked \subseteq asked
  PROVE  GoodScript(asked, Docs!Looked(job))
  <1>1. CASE job.ids = <<>>
    BY <1>1, GoodSplit DEF Docs!Looked
  <1>2. CASE job.ids # <<>>
    <2> DEFINE ids == Tail(job.ids)
               at == Head(job.ids)
               next == [job EXCEPT !.ids = ids]
               q == Docs!For("stat", Docs!Must("dir", at, next))
    <2>1. Docs!Looked(job) = <<q>>
      BY <1>2 DEF Docs!Looked, Docs!Stat
    <2>2. IsList(ids)
      BY <1>2, TailList DEF IsJob
    <2> HIDE DEF ids, at
    <2>3. IsJob(next) /\ next.op = job.op
      BY <2>2 DEF IsJob
    <2> HIDE DEF next
    <2>4. Is(q, "dir", at, next, "stat", <<>>)
      BY DocsShapes
    <2> HIDE DEF q
    <2>5. GoodScript(asked, <<q>>)
      BY <2>3, <2>4, JobIsGood
    <2> QED BY <2>1, <2>5
  <1> QED BY <1>1, <1>2

LEMMA GoodStated ==
  ASSUME NEW asked, NEW p, NEW r, Good(asked, r), r.use \in {"stat", "stat file"}
  PROVE  GoodScript(asked, Docs!Stated(p, r)) /\ GoodScript(asked, Docs!StatedFile(r))
  BY AppendList, GoodLooked, GoodStatFile DEF Good, IsRequest, Fits, Asks, Docs!Stated,
     Docs!StatedFile, IsJob

LEMMA GoodEnsurePath ==
  ASSUME NEW asked, NEW parent, NEW names
  PROVE  GoodScript(asked, Docs!EnsurePath(parent, names))
  <1> DEFINE q == Docs!For("segment", Docs!Must("list", parent, names))
  <1>1. Docs!EnsurePath(parent, names) \in {<<>>, <<q>>}
    BY DEF Docs!EnsurePath, Docs!Nothing
  <1>2. Is(q, "list", parent, names, "segment", <<>>)
    BY DocsShapes
  <1> HIDE DEF q
  <1>3. GoodScript(asked, <<q>>)
    BY <1>2, PlainScript DEF OnlyAsked, Removals, Carrying, Particular
  <1> QED BY <1>1, <1>3, NoScript

LEMMA GoodSegment ==
  ASSUME NEW asked, NEW p, NEW r, NEW s \in Docs!Segment(p, r)
  PROVE  GoodScript(asked, s)
  <1> DEFINE name == Head(r.val)
             rest == Tail(r.val)
             q == [Docs!For("made", Docs!Must("mkdir", r.at, name)) EXCEPT !.extra = rest]
  <1>1. s = <<q>> \/ \E f : s = Docs!EnsurePath(f, rest)
    BY DEF Docs!Segment
  <1> HIDE DEF name, rest
  <1>2. Is(q, "mkdir", r.at, name, "made", rest)
    BY DocsShapes
  <1> HIDE DEF q
  <1>3. GoodScript(asked, <<q>>)
    BY <1>2, PlainScript DEF OnlyAsked, Removals, Carrying, Particular
  <1> QED BY <1>1, <1>3, GoodEnsurePath

LEMMA RootIsGood ==
  ASSUME NEW asked, NEW project, NEW val, NEW extra, extra # <<"dedupe">> \/ IsScan(val),
         extra \in {<<"replace">>, <<"dedupe">>} => {"drop file", "update"} \subseteq asked
  PROVE  GoodScript(asked, <<[Docs!For("root", Docs!Must("project", project, val)) EXCEPT !.extra = extra]>>)
  <1> DEFINE q == [Docs!For("root", Docs!Must("project", project, val)) EXCEPT !.extra = extra]
  <1>1. Is(q, "project", project, val, "root", extra)
    BY DocsShapes
  <1> HIDE DEF q
  <1>2. IsRequest(q) /\ Asks(q) \cap OnlyAsked \subseteq asked
    BY <1>1 DEF Is, IsRequest, Fits, Asks, OnlyAsked, Removals
  <1>3. GoodScript(asked, <<q>>)
    BY <1>2, OneRequest DEF Good
  <1> QED BY <1>3 DEF q

LEMMA GoodListNext ==
  ASSUME NEW asked, {"drop file", "update"} \subseteq asked, NEW folders, NEW state, IsScan(state)
  PROVE  GoodScript(asked, Docs!ListNext(folders, state))
  <1> DEFINE at == Head(folders)
             rest == Tail(folders)
             q == [Docs!For("folder files", Docs!Must("list", at, state)) EXCEPT !.extra = rest]
  <1>1. Docs!ListNext(folders, state) \in {<<>>, <<q>>}
    BY DEF Docs!ListNext, Docs!Nothing
  <1> HIDE DEF at, rest
  <1>2. Is(q, "list", at, state, "folder files", rest)
    BY DocsShapes
  <1> HIDE DEF q
  <1>3. IsRequest(q) /\ Asks(q) = {"list", "drop file", "update"}
    BY <1>2 DEF Is, IsRequest, Fits, Asks
  <1>4. GoodScript(asked, <<q>>)
    BY <1>3, OneRequest DEF Good, OnlyAsked, Removals
  <1> QED BY <1>1, <1>4, NoScript

LEMMA GoodInFolder ==
  ASSUME NEW asked, NEW folder, NEW r, r.extra = <<"dedupe">> => IsScan(r.val),
         r.extra \in {<<"replace">>, <<"dedupe">>} => {"drop file", "update"} \subseteq asked
  PROVE  GoodScript(asked, Docs!InFolder(folder, r))
  <1> DEFINE one == <<r.at>>
             a == Docs!For("replace", Docs!Must("list", folder, r.val))
             b == [Docs!For("then upload", Docs!Must("list", folder, r.val)) EXCEPT !.extra = one]
             c == [Docs!For("attach", Docs!Either(Docs!Must("upload", folder, r.val))) EXCEPT !.extra = r.extra]
             folders == <<folder>> \o Docs!Remove(r.val.listed, folder)
  <1>1. \/ Docs!InFolder(folder, r) \in {<<b>>, <<c>>, Docs!UploadToFolder(folder, r.val)}
        \/ r.extra = <<"replace">> /\ Docs!InFolder(folder, r) = <<a>>
        \/ r.extra = <<"dedupe">> /\ \E list : Docs!InFolder(folder, r) = Docs!ListNext(list, r.val)
    <2>0. /\ <<"replace">> # <<"no clobber">> /\ <<"replace">> # <<"upload">> /\ <<"replace">> # <<"dedupe">>
          /\ <<"no clobber">> # <<"upload">> /\ <<"no clobber">> # <<"dedupe">> /\ <<"upload">> # <<"dedupe">>
      OBVIOUS
    <2>1. CASE r.extra = <<"replace">>
      BY <2>0, <2>1 DEF Docs!InFolder, Docs!UploadToFolderReplacing
    <2>2. CASE r.extra = <<"no clobber">>
      BY <2>0, <2>2 DEF Docs!InFolder
    <2>3. CASE r.extra = <<"upload">>
      BY <2>0, <2>3 DEF Docs!InFolder
    <2>4. CASE r.extra = <<"dedupe">>
      BY <2>0, <2>4 DEF Docs!InFolder
    <2>5. CASE r.extra \notin {<<"replace">>, <<"no clobber">>, <<"upload">>, <<"dedupe">>}
      BY <2>5 DEF Docs!InFolder
    <2> QED BY <2>1, <2>2, <2>3, <2>4, <2>5
  <1> HIDE DEF one
  <1>2. /\ Is(a, "list", folder, r.val, "replace", <<>>) /\ Is(b, "list", folder, r.val, "then upload", one)
        /\ Is(c, "upload", folder, r.val, "attach", r.extra)
    BY DocsShapes
  <1> HIDE DEF a, b, c
  <1>3. /\ IsRequest(a) /\ Asks(a) = {"list", "drop file", "update"} /\ IsRequest(b) /\ Asks(b) = {"list"}
        /\ IsRequest(c) /\ Asks(c) = {"upload"}
    BY <1>2 DEF Is, IsRequest, Fits, Asks
  <1>4. GoodScript(asked, <<b>>) /\ GoodScript(asked, <<c>>)
    BY <1>3, OneRequest DEF Good, OnlyAsked, Removals
  <1>5. r.extra = <<"replace">> => GoodScript(asked, <<a>>)
    BY <1>3, OneRequest DEF Good, OnlyAsked, Removals
  <1> QED BY <1>1, <1>4, <1>5, GoodUpload, GoodListNext

LEMMA GoodProjectFolder ==
  ASSUME NEW asked, NEW p, NEW r, Good(asked, r), r.use \in {"root", "first folder"}
  PROVE  GoodScript(asked, Docs!ProjectFolder(p, r)) /\ GoodScript(asked, Docs!FirstFolder(p, r))
  <1> DEFINE q == [r EXCEPT !.op = "project files", !.use = "first folder"]
  <1>0. IsRequest(r)
    BY DEF Good
  <1>1. r.extra = <<"dedupe">> => IsScan(r.val)
    BY <1>0 DEF IsRequest, Fits
  <1>2. /\ Docs!ProjectFolder(p, r) = <<q>> \/ \E f : Docs!ProjectFolder(p, r) = Docs!InFolder(f, r)
        /\ Docs!FirstFolder(p, r) = <<Docs!GiveUp>> \/ \E f : Docs!FirstFolder(p, r) = Docs!InFolder(f, r)
    BY DEF Docs!ProjectFolder, Docs!FirstFolder
  <1>3. Is(q, "project files", r.at, r.val, "first folder", r.extra)
    BY <1>0 DEF Is, IsRequest, Fits, RequestFields
  <1> HIDE DEF q
  <1>4. r.extra \in {<<"replace">>, <<"dedupe">>} => {"drop file", "update"} \subseteq asked
    BY DEF Good, Asks, OnlyAsked
  <1>5. IsRequest(q) /\ Asks(q) \cap OnlyAsked \subseteq asked
    BY <1>1, <1>3, <1>4 DEF Is, IsRequest, Fits, Asks, OnlyAsked, Removals
  <1>6. GoodScript(asked, <<q>>)
    BY <1>5, OneRequest DEF Good
  <1> QED BY <1>1, <1>2, <1>4, <1>6, GoodInFolder, NoFiles

LEMMA GoodToProject ==
  ASSUME NEW asked, NEW project, NEW doc
  PROVE  GoodScript(asked, Docs!ToProject(project, doc, "upload"))
  BY RootIsGood DEF Docs!ToProject

LEMMA GoodTaskProject ==
  ASSUME NEW asked, NEW p, NEW r
  PROVE  GoodScript(asked, Docs!TaskProject(p, r)) /\ GoodScript(asked, Docs!AttachUploaded(p, r))
  <1> DEFINE extra == <<"attach", r.at>>
             project == p.tasks[r.at].project
             at == r.extra[2]
             val == Docs!LastId(p)
             q == Docs!Either(Docs!Must("attach file", at, val))
  <1>1. extra # <<"dedupe">> /\ extra # <<"replace">>
    OBVIOUS
  <1>2. Docs!TaskProject(p, r) = <<[Docs!For("root", Docs!Must("project", project, r.val)) EXCEPT !.extra = extra]>>
    BY DEF Docs!TaskProject
  <1>3. Docs!AttachUploaded(p, r) = <<q>>
    BY DEF Docs!AttachUploaded
  <1> HIDE DEF extra, project, at, val
  <1>4. Is(q, "attach file", at, val, "", <<>>)
    BY DocsShapes
  <1> HIDE DEF q
  <1>5. GoodScript(asked, <<q>>)
    BY <1>4, PlainScript DEF OnlyAsked, Removals, Carrying, Particular
  <1> DEFINE doc == r.val
  <1>6. GoodScript(asked, <<[Docs!For("root", Docs!Must("project", project, doc)) EXCEPT !.extra = extra]>>)
    BY <1>1, RootIsGood
  <1> QED BY <1>2, <1>3, <1>5, <1>6

LEMMA GoodFolders ==
  ASSUME NEW asked, {"drop file", "update"} \subseteq asked, NEW p, NEW r
  PROVE  GoodScript(asked, Docs!ProjectFolders(p, r))
  BY FS_EmptySet, RootIsGood DEF IsScan, Docs!ProjectFolders

LEMMA ImageIsFinite ==
  ASSUME NEW f, IsFiniteSet(DOMAIN f)
  PROVE  IsFiniteSet({f[x] : x \in DOMAIN f})
  <1> DEFINE T == {f[x] : x \in DOMAIN f}
             g == [x \in DOMAIN f |-> f[x]]
  <1>1. g \in Surjection(DOMAIN f, T)
    BY DEF Surjection
  <1> HIDE DEF g, T
  <1>2. IsFiniteSet(T)
    BY <1>1, FS_Surjection
  <1> QED BY <1>2 DEF T

LEMMA GoodFolderFiles ==
  ASSUME NEW asked, NEW p, IsPortal(p), NEW r, Good(asked, r), r.use = "folder files"
  PROVE  GoodScript(asked, Docs!FolderFiles(p, r))
  <1> DEFINE S == Docs!FilesIn(p, r.at)
             here == {Docs!Found(p, f) : f \in S}
             seen == r.val.seen \cup here
             state == [r.val EXCEPT !.seen = seen]
             D == Docs!Duplicates(state.seen, state.cross)
             list == Docs!SetToSeq(D)
  <1>1. IsScan(r.val)
    BY DEF Good, IsRequest, Fits
  <1>a. {"drop file", "update"} \subseteq asked
    BY DEF Good, Asks, OnlyAsked
  <1>2. IsFiniteSet(seen)
    <2>1. S \subseteq DOMAIN p["files"] /\ "files" \in Kinds
      BY DEF Docs!FilesIn, Kinds
    <2> HIDE DEF S
    <2>2. IsFiniteSet(S)
      BY <2>1, Collections
    <2>3. IsFiniteSet(here)
      <3> DEFINE f == [x \in S |-> Docs!Found(p, x)]
      <3>1. DOMAIN f = S /\ here = {f[x] : x \in DOMAIN f}
        OBVIOUS
      <3> HIDE DEF f
      <3> QED BY <2>2, <3>1, ImageIsFinite
    <2> HIDE DEF here
    <2> QED BY <1>1, <2>3, FS_Union DEF IsScan
  <1>3. Docs!FolderFiles(p, r) \in {Docs!ListNext(r.extra, state), Docs!DeleteFiles(list), <<>>}
    BY DEF Docs!FolderFiles, Docs!Nothing
  <1> HIDE DEF seen
  <1>4. IsScan(state) /\ state.seen = seen
    BY <1>1, <1>2 DEF IsScan
  <1>5. IsList(list)
    <2>1. D \subseteq {x.id : x \in seen}
      BY <1>4 DEF Docs!Duplicates
    <2> HIDE DEF D
    <2>2. IsFiniteSet({x.id : x \in seen})
      <3> DEFINE f == [x \in seen |-> x.id]
      <3>1. DOMAIN f = seen /\ {x.id : x \in seen} = {f[x] : x \in DOMAIN f}
        OBVIOUS
      <3> HIDE DEF f
      <3> QED BY <1>2, <3>1, ImageIsFinite
    <2>3. IsFiniteSet(D)
      BY <2>1, <2>2, FS_Subset
    <2> QED BY <2>3, SetList, DocsSetToSeq
  <1> HIDE DEF state, list
  <1> QED BY <1>3, <1>4, <1>5, <1>a, GoodListNext, GoodDeleteFiles, NoScript

LEMMA FiveRequests ==
  ASSUME NEW asked, NEW a, NEW b, NEW c, NEW d, NEW e,
         Good(asked, a), Good(asked, b), Good(asked, c), Good(asked, d), Good(asked, e)
  PROVE  GoodScript(asked, <<a, b, c, d, e>>)
  <1> DEFINE s == <<a, b, c, d, e>>
  <1>1. s \in Seq({a, b, c, d, e}) /\ \A i \in DOMAIN s : s[i] \in {a, b, c, d, e}
    OBVIOUS
  <1> HIDE DEF s
  <1>2. IsList(s)
    BY <1>1, SeqIsList
  <1>3. GoodScript(asked, s)
    BY <1>1, <1>2 DEF GoodScript, ToSet
  <1> QED BY <1>3 DEF s

LEMMA GoodScrap ==
  ASSUME NEW asked, "drop file" \in asked, NEW id, NEW local
  PROVE  GoodScript(asked, Docs!Scrap(id, local))
  <1> DEFINE q == Docs!Try("drop file", id, 0)
  <1>1. Docs!Scrap(id, local) \in {<<>>, <<q>>}
    BY DEF Docs!Scrap, Docs!Nothing
  <1>2. Is(q, "drop file", id, 0, "", <<>>)
    BY DocsShapes
  <1> HIDE DEF q
  <1>3. GoodScript(asked, <<q>>)
    BY <1>2, PlainScript DEF Carrying, Particular
  <1> QED BY <1>1, <1>3, NoScript

LEMMA GoodConvert ==
  ASSUME NEW asked, {"open", "drop file", "update"} \subseteq asked, NEW id, NEW name, NEW path, NEW local
  PROVE  GoodScript(asked, Docs!Convert(id, name, path, local))
  <1> DEFINE a == Docs!Must("presigned", id, 0)
             b == Docs!Must("convert", 0, name)
             c == Docs!Must("open", path, 0)
             d == Docs!For("converted", Docs!Must("result", id, local))
             e == Docs!Must("write", path, "pdf")
             s == <<a, b, c, d, e>>
             t == Docs!Scrap(id, local)
  <1>1. Docs!Convert(id, name, path, local) = s \o t
    BY DEF Docs!Convert
  <1>2. /\ Is(a, "presigned", id, 0, "", <<>>) /\ Is(b, "convert", 0, name, "", <<>>)
        /\ Is(c, "open", path, 0, "", <<>>) /\ Is(d, "result", id, local, "converted", <<>>)
        /\ Is(e, "write", path, "pdf", "", <<>>)
    BY DocsShapes
  <1> HIDE DEF a, b, c, d, e
  <1>3. /\ IsRequest(a) /\ Asks(a) = {"presigned"} /\ IsRequest(b) /\ Asks(b) = {"convert"}
        /\ IsRequest(c) /\ Asks(c) = {"open"} /\ IsRequest(d) /\ Asks(d) = {"result", "drop file", "update"}
        /\ IsRequest(e) /\ Asks(e) = {"write"}
    BY <1>2 DEF Is, IsRequest, Fits, Asks
  <1>4. Good(asked, a) /\ Good(asked, b) /\ Good(asked, c) /\ Good(asked, d) /\ Good(asked, e)
    BY <1>3 DEF Good, OnlyAsked, Removals
  <1>5. GoodScript(asked, s)
    BY <1>4, FiveRequests
  <1>6. GoodScript(asked, t)
    BY GoodScrap
  <1> HIDE DEF s, t
  <1> QED BY <1>1, <1>5, <1>6, GoodConcat

LEMMA GoodAsMD ==
  ASSUME NEW asked, NEW p, NEW r, NEW s \in Docs!AsMD(p, r)
  PROVE  GoodScript(asked, s)
  <1> DEFINE a == Docs!Must("file", r.at, 0)
             b == Docs!Must("read", r.at, 0)
             c == Docs!Must("write", r.val, "md")
             up == Docs!UploadToFolder(p.files[r.at].in, Docs!Doc("ocr", "ocr"))
             t == <<a, b, c>>
  <1>1. s \in {t \o <<>>, t \o up}
    BY DEF Docs!AsMD, Docs!Nothing
  <1>2. Is(a, "file", r.at, 0, "", <<>>) /\ Is(b, "read", r.at, 0, "", <<>>) /\ Is(c, "write", r.val, "md", "", <<>>)
    BY DocsShapes
  <1> HIDE DEF a, b, c
  <1>3. /\ IsRequest(a) /\ Asks(a) = {"file"} /\ IsRequest(b) /\ Asks(b) = {"read"}
        /\ IsRequest(c) /\ Asks(c) = {"write"}
    BY <1>2 DEF Is, IsRequest, Fits, Asks
  <1>4. GoodScript(asked, t)
    BY <1>3, ThreeRequests DEF Good, OnlyAsked, Removals
  <1>5. GoodScript(asked, up)
    BY GoodUpload
  <1> HIDE DEF t, up
  <1>6. GoodScript(asked, t \o <<>>) /\ GoodScript(asked, t \o up)
    BY <1>4, <1>5, NoScript, GoodConcat
  <1> QED BY <1>1, <1>6

LEMMA DocumentsThenIsGood ==
  ASSUME NEW asked, NEW p, IsPortal(p), NEW r, Good(asked, r), NEW s \in Docs!DocumentsThen(p, r)
  PROVE  GoodScript(asked, s)
  <1>0. IsRequest(r)
    BY DEF Good
  <1>a. r.use \in {"replace", "replace all", "updated", "project folders", "folder files", "scratch", "converted"}
          => {"drop file", "update"} \subseteq asked
    BY DEF Good, Asks, OnlyAsked
  <1>1. CASE r.use \in {"stat", "stat file"}
    BY <1>1, GoodStated DEF Docs!DocumentsThen
  <1>2. CASE r.use = "segment"
    BY <1>2, GoodSegment DEF Docs!DocumentsThen
  <1>3. CASE r.use = "made"
    BY <1>3, GoodEnsurePath DEF Docs!DocumentsThen
  <1>4. CASE r.use = "replace"
    BY <1>4, <1>a, GoodReplace DEF Docs!DocumentsThen
  <1>5. CASE r.use = "updated"
    BY <1>0, <1>5, <1>a, GoodDeleteFiles DEF IsRequest, Fits, Docs!DocumentsThen
  <1>6. CASE r.use = "replace all"
    BY <1>6, <1>a, GoodDeleteThenUpload DEF Docs!DocumentsThen
  <1>7. CASE r.use = "no clobber"
    BY <1>7, NoFiles, GoodUpload DEF Docs!DocumentsThen
  <1>8. CASE r.use = "then upload"
    BY <1>8, NoFiles, GoodToProject DEF Docs!DocumentsThen
  <1>9. CASE r.use \in {"root", "first folder"}
    BY <1>9, GoodProjectFolder DEF Docs!DocumentsThen
  <1>10. CASE r.use \in {"task project", "attach"}
    BY <1>10, GoodTaskProject DEF Docs!DocumentsThen
  <1>11. CASE r.use = "project folders"
    BY <1>11, <1>a, GoodFolders DEF Docs!DocumentsThen
  <1>12. CASE r.use = "folder files"
    BY <1>12, GoodFolderFiles DEF Docs!DocumentsThen
  <1>13. CASE r.use = "scratch"
    BY <1>13, <1>a, GoodConvert DEF Docs!DocumentsThen, Good, Asks, OnlyAsked
  <1>14. CASE r.use = "as md"
    BY <1>14, GoodAsMD DEF Docs!DocumentsThen
  <1>15. CASE r.use \notin {"stat", "stat file", "segment", "made", "replace", "updated", "replace all", "no clobber",
                            "then upload", "root", "first folder", "task project", "attach", "project folders",
                            "folder files", "scratch", "as md"}
    <2>1. s = Docs!Nothing
      BY <1>15 DEF Docs!DocumentsThen
    <2> QED BY <2>1, NoFiles
  <1> QED BY <1>1, <1>2, <1>3, <1>4, <1>5, <1>6, <1>7, <1>8, <1>9, <1>10, <1>11, <1>12, <1>13, <1>14, <1>15
-----------------------------------------------------------------------------
(* What follows an answer or an error                                      *)

LEMMA WorkThenIsGood ==
  ASSUME NEW asked, NEW p, IsPortal(p), NEW r, Good(asked, r), r.op = "invoice" => r.at \in DOMAIN p.invoices,
         NEW s \in WorkThen(p, r)
  PROVE  GoodScript(asked, s)
  BY ProjectsThenIsGood, BusinessThenIsGood, DocumentsThenIsGood, NoScript DEF WorkThen, Nothing

LEMMA GoodDeleteBlocked ==
  ASSUME NEW asked, NEW r
  PROVE  GoodScript(asked, DeleteBlocked(r))
  <1> DEFINE a == Must("activate", r.at, FALSE)
             b == Must("drop user", r.at, 0)
  <1>1. Is(a, "activate", r.at, FALSE, "", <<>>) /\ Is(b, "drop user", r.at, 0, "", <<>>)
    BY RequestShapes
  <1>2. DeleteBlocked(r) = <<a, b>>
    BY DEF DeleteBlocked, BlockUser
  <1> HIDE DEF a, b
  <1>3. IsRequest(a) /\ Asks(a) = {"activate"} /\ IsRequest(b) /\ Asks(b) = {"drop user"}
    BY <1>1 DEF Is, IsRequest, Fits, Asks
  <1> QED BY <1>2, <1>3, TwoRequests DEF Good, OnlyAsked, Removals

LEMMA DocumentsOtherwiseIsGood ==
  ASSUME NEW asked, NEW r, Good(asked, r), NEW s \in Docs!DocumentsOtherwise(r)
  PROVE  GoodScript(asked, s)
  <1>1. CASE r.use = "stat"
    BY <1>1, GoodStatFile, NoFiles DEF Docs!DocumentsOtherwise
  <1>2. CASE r.use = "updated"
    <2> DEFINE doc == Docs!Doc(r.val.name, r.val.body)
               q == Docs!For("replace all", Docs!Must("list", r.val.folder, doc))
    <2>1. s = <<q>>
      BY <1>2 DEF Docs!DocumentsOtherwise, Docs!UpdateRefused
    <2> HIDE DEF doc
    <2>2. Is(q, "list", r.val.folder, doc, "replace all", <<>>)
      BY DocsShapes
    <2> HIDE DEF q
    <2>3. IsRequest(q) /\ Asks(q) = {"list", "drop file", "update"}
      BY <2>2 DEF Is, IsRequest, Fits, Asks
    <2>4. {"drop file", "update"} \subseteq asked
      BY <1>2 DEF Good, Asks, OnlyAsked
    <2> QED BY <2>1, <2>3, <2>4, OneRequest DEF Good, OnlyAsked, Removals
  <1>3. CASE r.use = "body"
    <2> DEFINE q == Docs!Must("remove", r.val, 0)
               g == Docs!GiveUp
    <2>1. s = <<q, g>>
      BY <1>3 DEF Docs!DocumentsOtherwise, Docs!DownloadFailed
    <2>2. Is(q, "remove", r.val, 0, "", <<>>) /\ Is(g, "give up", 0, 0, "", <<>>)
      BY DocsShapes DEF Docs!GiveUp
    <2> HIDE DEF q, g
    <2>3. IsRequest(q) /\ Asks(q) = {"remove"} /\ IsRequest(g) /\ Asks(g) = {"give up"}
      BY <2>2 DEF Is, IsRequest, Fits, Asks
    <2> QED BY <2>1, <2>3, TwoRequests DEF Good, OnlyAsked, Removals
  <1>4. CASE r.use = "converted"
    <2> DEFINE a == Docs!Scrap(r.at, r.val)
               b == <<Docs!GiveUp>>
    <2>1. s = a \o b
      BY <1>4 DEF Docs!DocumentsOtherwise, Docs!ConvertedFailed
    <2>2. GoodScript(asked, a) /\ GoodScript(asked, b)
      <3>1. "drop file" \in asked
        BY <1>4 DEF Good, Asks, OnlyAsked
      <3> QED BY <3>1, GoodScrap, NoFiles
    <2> HIDE DEF a, b
    <2> QED BY <2>1, <2>2, GoodConcat
  <1>5. CASE r.use \notin {"stat", "updated", "body", "converted"}
    BY <1>5 DEF Docs!DocumentsOtherwise
  <1> QED BY <1>1, <1>2, <1>3, <1>4, <1>5

LEMMA AlternativesAreGood ==
  ASSUME NEW asked, NEW r, Good(asked, r), NEW s \in Alternatives(r)
  PROVE  GoodScript(asked, s)
  <1> DEFINE ways == r.ways - 1
             q == [r EXCEPT !.ways = ways]
  <1>1. \/ s = <<q>>
        \/ s \in BusinessOtherwise(r)
        \/ s \in Docs!DocumentsOtherwise(r)
    BY DEF Alternatives, WorkOtherwise
  <1> HIDE DEF ways
  <1>2. /\ DOMAIN q = RequestFields /\ q.op = r.op /\ q.at = r.at /\ q.val = r.val
        /\ q.use = r.use /\ q.extra = r.extra
    BY DEF Good, IsRequest, Fits, RequestFields
  <1> HIDE DEF q
  <1>3. IsRequest(q) /\ Asks(q) = Asks(r)
    BY <1>2 DEF Good, IsRequest, Asks
  <1>4. GoodScript(asked, <<q>>)
    BY <1>3, OneRequest DEF Good
  <1>5. s \in BusinessOtherwise(r) => s = DeleteBlocked(r)
    BY DEF BusinessOtherwise
  <1> QED BY <1>1, <1>4, <1>5, GoodDeleteBlocked, DocumentsOtherwiseIsGood
-----------------------------------------------------------------------------
(* What a request does to the portal                                       *)

LEMMA RecordsStay ==
  ASSUME NEW kind, NEW x, NEW m \in Nat, NEW n \in Nat, m <= n, IsRecord(kind, x, m)
  PROVE  IsRecord(kind, x, n)
  BY DEF IsRecord

\* One collection has changed, and perhaps new numbers were given.
LEMMA OneCollection ==
  ASSUME NEW p, IsPortal(p), NEW q, NEW kind \in Kinds,
         DOMAIN q = DOMAIN p, \A x \in DOMAIN p \ {kind, "next"} : q[x] = p[x],
         q.next \in Nat, p.next <= q.next,
         DOMAIN q[kind] \subseteq DOMAIN p[kind] \cup (p.next .. q.next - 1),
         \A i \in DOMAIN q[kind] : IsRecord(kind, q[kind][i], q.next)
  PROVE  IsPortal(q)
  <1>0. p.next \in Nat \ {0} /\ q.next \in Nat \ {0} /\ "next" \notin Kinds
    BY DEF IsPortal, Kinds
  <1>1. 1 .. p.next - 1 \subseteq 1 .. q.next - 1 /\ p.next .. q.next - 1 \subseteq 1 .. q.next - 1
    BY <1>0
  <1>2. ASSUME NEW k \in Kinds
        PROVE  /\ DOMAIN q[k] \subseteq 1 .. q.next - 1
               /\ \A i \in DOMAIN q[k] : IsRecord(k, q[k][i], q.next)
    <2>1. CASE k = kind
      BY <1>1, <2>1 DEF IsPortal
    <2>2. CASE k # kind
      BY <1>0, <2>2, <1>1, RecordsStay DEF IsPortal
    <2> QED BY <2>1, <2>2
  <1> QED BY <1>0, <1>2 DEF IsPortal

LEMMA AddOutcome ==
  ASSUME NEW p, IsPortal(p), NEW kind \in Kinds, NEW x, IsRecord(kind, x, p.next + 1),
         NEW q, q = Add(p, kind, x)
  PROVE  Added(p, q, kind, x)
  <1> DEFINE f == [i \in DOMAIN p[kind] \cup {p.next} |-> IF i = p.next THEN x ELSE p[kind][i]]
             next == p.next + 1
  <1>1. q = [p EXCEPT ![kind] = f, !.next = next]
    BY DEF Add, Put, NewId
  <1>2. p.next \in Nat \ {0} /\ "next" \notin Kinds /\ kind \in DOMAIN p /\ "next" \in DOMAIN p
    BY DEF IsPortal, Kinds
  <1>3. DOMAIN p[kind] \subseteq 1 .. p.next - 1 /\ \A i \in DOMAIN p[kind] : IsRecord(kind, p[kind][i], p.next)
    BY DEF IsPortal
  <1>4. p.next \notin DOMAIN p[kind]
    BY <1>2, <1>3
  <1>5. /\ DOMAIN f = DOMAIN p[kind] \cup {p.next} /\ f[p.next] = x
        /\ \A i \in DOMAIN p[kind] : f[i] = p[kind][i]
    BY <1>4
  <1>6. next \in Nat /\ p.next <= next /\ p.next \in Nat /\ p.next .. next - 1 = {p.next}
    BY <1>2
  <1>a. next = p.next + 1
    OBVIOUS
  <1> HIDE DEF f, next
  <1>7. /\ DOMAIN q = DOMAIN p /\ q.next = next /\ q[kind] = f
        /\ \A k \in DOMAIN p \ {kind, "next"} : q[k] = p[k]
    BY <1>1, <1>2
  <1>8. \A i \in DOMAIN f : IsRecord(kind, f[i], next)
    BY <1>5, <1>a, <1>3, <1>6, RecordsStay
  <1>9. IsPortal(q)
    BY <1>5, <1>6, <1>7, <1>8, OneCollection
  <1> QED BY <1>2, <1>4, <1>5, <1>7, <1>9, <1>a DEF Added

\* Records are changed or dropped.
LEMMA ChangeOutcome ==
  ASSUME NEW p, IsPortal(p), NEW kind \in Kinds, NEW f, DOMAIN f \subseteq DOMAIN p[kind],
         \A i \in DOMAIN f : f[i] = p[kind][i] \/ IsRecord(kind, f[i], p.next),
         NEW q, q = With(p, kind, f)
  PROVE  Changed(p, q, kind, f)
  BY OneCollection DEF IsPortal, Kinds, With, Changed

\* The people and the user's disk are not numbered.
LEMMA AsideOutcome ==
  ASSUME NEW p, IsPortal(p), NEW f, NEW q, q = [p EXCEPT !.disk = f]
  PROVE  IsPortal(q) /\ DOMAIN q = DOMAIN p /\ \A k \in DOMAIN p \ {"disk"} : q[k] = p[k]
  BY DEF IsPortal, Kinds

LEMMA RecordOutcome ==
  ASSUME NEW p, IsPortal(p), NEW kind \in Kinds, NEW i \in DOMAIN p[kind], NEW x, IsRecord(kind, x, p.next),
         NEW q, q = WithRecord(p, kind, i, x)
  PROVE  Changed(p, q, kind, [p[kind] EXCEPT ![i] = x])
  BY ChangeOutcome DEF WithRecord

\* Records are dropped.
LEMMA DropOutcome ==
  ASSUME NEW p, IsPortal(p), NEW kind \in Kinds, NEW S, NEW q, q = With(p, kind, Drop(p[kind], S))
  PROVE  Changed(p, q, kind, Drop(p[kind], S))
  BY ChangeOutcome DEF Drop, Restrict

LEMMA AnyRecord ==
  ASSUME NEW kind, kind \notin {"projects", "invoices", "mails", "files"}, NEW x, NEW n
  PROVE  IsRecord(kind, x, n)
  BY DEF IsRecord

\* Requests that change one field of a project.
LEMMA ProjectOutcome ==
  ASSUME NEW p, IsPortal(p), NEW r, r.at \in DOMAIN p.projects, NEW x, DOMAIN x = ProjectFields,
         NEW q, q = WithRecord(p, "projects", r.at, x),
         r.op \notin Removals => p.projects[r.at].contacts \subseteq x.contacts,
         r.op = "link" => r.val \in x.contacts
  PROVE  ProjectsOutcome(p, q, r)
  <1> DEFINE kind == "projects"
             i == r.at
  <1>1. kind \in Kinds /\ i \in DOMAIN p[kind] /\ q = WithRecord(p, kind, i, x)
    BY DEF Kinds
  <1>2. IsRecord(kind, x, p.next)
    BY DEF IsRecord
  <1>a. p.projects = p[kind] /\ q.projects = q[kind] /\ kind \in InWork
    BY DEF InWork
  <1> HIDE DEF kind, i
  <1>c. Changed(p, q, kind, [p[kind] EXCEPT ![i] = x])
    BY <1>1, <1>2, RecordOutcome
  <1>3. /\ IsPortal(q)
        /\ DOMAIN q = DOMAIN p /\ q.next = p.next
        /\ \A k \in DOMAIN p \ {kind} : q[k] = p[k]
        /\ DOMAIN q[kind] = DOMAIN p[kind] /\ q[kind][i] = x
        /\ \A j \in DOMAIN p[kind] \ {i} : q[kind][j] = p[kind][j]
    BY <1>1, <1>c DEF Changed
  <1>4. r.op \notin Removals => ContactsGrow(p, q)
    BY <1>3, <1>a DEF ContactsGrow, i
  <1> QED BY <1>3, <1>4, <1>a DEF ProjectsOutcome, i

\* Requests that leave the projects alone.
LEMMA OtherOutcome ==
  ASSUME NEW p, NEW q, NEW r, IsPortal(q), DOMAIN q = DOMAIN p, q.next = p.next \/ q.next = p.next + 1,
         \A k \in DOMAIN p \ {"milestones", "tasks", "next"} : q[k] = p[k], IsPortal(p), r.op # "link"
  PROVE  ProjectsOutcome(p, q, r)
  BY DEF IsPortal, Kinds, ContactsGrow, ProjectsOutcome, InWork

LEMMA DropProjectOutcome ==
  ASSUME NEW p, IsPortal(p), NEW r, r.op = "drop project", NEW q, q = DropProject(p, r.at)
  PROVE  ProjectsOutcome(p, q, r)
  <1> DEFINE x == "projects"
             y == "milestones"
             z == "tasks"
             M == {m \in DOMAIN p.milestones : p.milestones[m].project = r.at}
             T == {t \in DOMAIN p.tasks : p.tasks[t].project = r.at}
             P == {r.at}
             q1 == With(p, x, Drop(p[x], P))
             q2 == With(q1, y, Drop(q1[y], M))
             q3 == With(q2, z, Drop(q2[z], T))
  <1>0. {x, y, z} \subseteq Kinds /\ Kinds \subseteq DOMAIN p /\ x # y /\ y # z /\ x # z
    BY DEF Kinds, IsPortal
  <1>1. q = [p EXCEPT ![x] = Drop(p[x], P), ![y] = Drop(p[y], M), ![z] = Drop(p[z], T)]
    BY DEF DropProject
  <1>a. {x, y, z} = InWork
    BY DEF InWork
  <1> HIDE DEF M, T, P, x, y, z
  <1>2. q1 = With(p, x, Drop(p[x], P)) /\ q2 = With(q1, y, Drop(q1[y], M)) /\ q3 = With(q2, z, Drop(q2[z], T))
    OBVIOUS
  <1> HIDE DEF q1, q2, q3
  <1>d. Changed(p, q1, x, Drop(p[x], P))
    BY <1>0, <1>2, DropOutcome
  <1>4. IsPortal(q1) /\ DOMAIN q1 = DOMAIN p /\ q1.next = p.next /\ \A k \in DOMAIN p \ {x} : q1[k] = p[k]
    BY <1>d DEF Changed
  <1>e. Changed(q1, q2, y, Drop(q1[y], M))
    BY <1>0, <1>2, <1>4, DropOutcome
  <1>6. IsPortal(q2) /\ DOMAIN q2 = DOMAIN q1 /\ q2.next = q1.next /\ \A k \in DOMAIN q1 \ {y} : q2[k] = q1[k]
    BY <1>e DEF Changed
  <1>f. Changed(q2, q3, z, Drop(q2[z], T))
    BY <1>0, <1>2, <1>6, DropOutcome
  <1>8. IsPortal(q3) /\ DOMAIN q3 = DOMAIN q2 /\ q3.next = q2.next /\ \A k \in DOMAIN q2 \ {z} : q3[k] = q2[k]
    BY <1>f DEF Changed
  <1>3. q = q3
    BY <1>0, <1>4, <1>6, <1>1, <1>2 DEF With
  <1>9. \A k \in DOMAIN p \ (InWork \cup {"next"}) : q3[k] = p[k]
    BY <1>4, <1>6, <1>8, <1>a
  <1> QED BY <1>3, <1>4, <1>6, <1>8, <1>9 DEF ProjectsOutcome, Removals

LEMMA DropMilestoneOutcome ==
  ASSUME NEW p, IsPortal(p), NEW r, r.op = "drop milestone", NEW q, q = DropMilestone(p, r.at)
  PROVE  ProjectsOutcome(p, q, r)
  <1> DEFINE y == "milestones"
             z == "tasks"
             M == {r.at}
             c == Unset(p.tasks, r.at)
             q1 == With(p, y, Drop(p[y], M))
             q2 == With(q1, z, c)
  <1>0. {y, z} \subseteq Kinds /\ Kinds \subseteq DOMAIN p /\ y # z
    BY DEF Kinds, IsPortal
  <1>1. q = [p EXCEPT ![y] = Drop(p[y], M), ![z] = c]
    BY DEF DropMilestone
  <1>a. \A x, n : IsRecord(z, x, n)
    BY AnyRecord
  <1>b. {y, z, "next"} = {"milestones", "tasks", "next"}
    OBVIOUS
  <1>c. DOMAIN c = DOMAIN p[z]
    BY DEF Unset
  <1>2. q1 = With(p, y, Drop(p[y], M)) /\ q2 = With(q1, z, c)
    OBVIOUS
  <1> HIDE DEF y, z, c, M, q1, q2
  <1>d. Changed(p, q1, y, Drop(p[y], M))
    BY <1>0, <1>2, DropOutcome
  <1>4. IsPortal(q1) /\ DOMAIN q1 = DOMAIN p /\ q1.next = p.next /\ \A k \in DOMAIN p \ {y} : q1[k] = p[k]
    BY <1>d DEF Changed
  <1>3. q = q2
    BY <1>0, <1>1, <1>2 DEF With
  <1>5. DOMAIN c \subseteq DOMAIN q1[z]
    BY <1>0, <1>c, <1>4
  <1>6. \A j \in DOMAIN c : c[j] = q1[z][j] \/ IsRecord(z, c[j], q1.next)
    BY <1>a
  <1>e. Changed(q1, q2, z, c)
    BY <1>0, <1>2, <1>4, <1>5, <1>6, ChangeOutcome
  <1>7. IsPortal(q2) /\ DOMAIN q2 = DOMAIN q1 /\ q2.next = q1.next /\ \A k \in DOMAIN q1 \ {z} : q2[k] = q1[k]
    BY <1>e DEF Changed
  <1>8. \A k \in DOMAIN p \ {"milestones", "tasks", "next"} : q2[k] = p[k]
    BY <1>4, <1>7, <1>b
  <1> QED BY <1>3, <1>4, <1>7, <1>8, OtherOutcome

LEMMA AddProjectOutcome ==
  ASSUME NEW p, IsPortal(p), NEW r, r.op = "add project", DOMAIN r.val = ProjectFields,
         NEW q, q = Add(p, "projects", r.val)
  PROVE  ProjectsOutcome(p, q, r)
  <1> DEFINE kind == "projects"
             x == r.val
  <1>1. kind \in Kinds /\ q = Add(p, kind, x)
    BY DEF Kinds
  <1>2. IsRecord(kind, x, p.next + 1)
    BY DEF IsRecord
  <1>a. p.projects = p[kind] /\ q.projects = q[kind] /\ kind \in InWork
    BY DEF InWork
  <1> HIDE DEF kind, x
  <1>c. Added(p, q, kind, x)
    BY <1>1, <1>2, AddOutcome
  <1>3. /\ IsPortal(q)
        /\ DOMAIN q = DOMAIN p /\ q.next = p.next + 1
        /\ \A k \in DOMAIN p \ {kind, "next"} : q[k] = p[k]
        /\ DOMAIN q[kind] = DOMAIN p[kind] \cup {p.next}
        /\ \A i \in DOMAIN p[kind] : q[kind][i] = p[kind][i]
    BY <1>c DEF Added
  <1>4. ContactsGrow(p, q)
    BY <1>3, <1>a DEF ContactsGrow
  <1> QED BY <1>3, <1>4, <1>a DEF ProjectsOutcome

\* Something new that is not a project.
LEMMA AddBesideOutcome ==
  ASSUME NEW p, IsPortal(p), NEW r, r.op # "link", NEW kind \in {"milestones", "tasks"}, NEW x,
         NEW q, q = Add(p, kind, x)
  PROVE  ProjectsOutcome(p, q, r)
  BY AnyRecord, AddOutcome, OtherOutcome DEF Kinds, Added

\* A task is changed.
LEMMA TaskOutcome ==
  ASSUME NEW p, IsPortal(p), NEW r, r.op # "link", r.at \in DOMAIN p.tasks, NEW x,
         NEW q, q = WithRecord(p, "tasks", r.at, x)
  PROVE  ProjectsOutcome(p, q, r)
  <1> DEFINE kind == "tasks"
             i == r.at
  <1>1. kind \in Kinds /\ i \in DOMAIN p[kind] /\ q = WithRecord(p, kind, i, x)
    BY DEF Kinds
  <1>2. IsRecord(kind, x, p.next)
    BY AnyRecord
  <1>a. {kind} \subseteq {"milestones", "tasks", "next"}
    OBVIOUS
  <1> HIDE DEF kind, i
  <1>c. Changed(p, q, kind, [p[kind] EXCEPT ![i] = x])
    BY <1>1, <1>2, RecordOutcome
  <1>3. /\ IsPortal(q)
        /\ DOMAIN q = DOMAIN p /\ q.next = p.next
        /\ \A k \in DOMAIN p \ {kind} : q[k] = p[k]
    BY <1>c DEF Changed
  <1> QED BY <1>3, <1>a, OtherOutcome

LEMMA ProjectsEffectOutcome ==
  ASSUME NEW p, IsPortal(p), NEW r, IsRequest(r), Has(p, r),
         NEW q, q = ProjectsEffect(p, r)
  PROVE  ProjectsOutcome(p, q, r)
  <1> DEFINE at == r.at
             old == p.projects[at]
             task == p.tasks[at]
  <1>a. r.op \in {"put project", "join", "leave", "put team", "link", "unlink"} =>
           /\ at \in DOMAIN p.projects
           /\ "projects" \in Kinds
           /\ DOMAIN old = ProjectFields
    BY DEF Has, Kinds, IsPortal, IsRecord
  <1>b. r.op \in {"add subtask", "status"} => at \in DOMAIN p.tasks
    BY DEF Has
  <1>1. CASE r.op = "add project"
    BY <1>1, AddProjectOutcome DEF ProjectsEffect, IsRequest, Fits
  <1>2. CASE r.op = "put project"
    <2> DEFINE x == PutProject(old, r.val)
    <2>1. q = WithRecord(p, "projects", at, x)
      BY <1>2 DEF ProjectsEffect, WithRecord, With
    <2>2. DOMAIN x = DOMAIN old /\ x.contacts = old.contacts
      BY <1>a, <1>2 DEF PutProject, ProjectFields
    <2> HIDE DEF x
    <2>3. r.op \notin Removals => old.contacts \subseteq x.contacts
      BY <2>2
    <2> QED BY <1>a, <1>2, <2>1, <2>2, <2>3, ProjectOutcome
  <1>3. CASE r.op = "drop project"
    BY <1>3, DropProjectOutcome DEF ProjectsEffect
  <1>4. CASE r.op \in {"join", "leave", "put team"}
    <2> DEFINE team == CASE r.op = "join" -> old.team \cup {r.val}
                         [] r.op = "leave" -> old.team \ {r.val}
                         [] OTHER -> r.val
               x == [old EXCEPT !.team = team]
    <2>1. q = WithRecord(p, "projects", at, x)
      BY <1>4 DEF ProjectsEffect, WithRecord, With
    <2> HIDE DEF team
    <2>2. DOMAIN x = DOMAIN old /\ x.contacts = old.contacts
      BY <1>a, <1>4 DEF ProjectFields
    <2> HIDE DEF x
    <2>3. r.op \notin Removals => old.contacts \subseteq x.contacts
      BY <2>2
    <2> QED BY <1>a, <1>4, <2>1, <2>2, <2>3, ProjectOutcome
  <1>5. CASE r.op \in {"link", "unlink"}
    <2> DEFINE contacts == IF r.op = "link" THEN old.contacts \cup {r.val} ELSE old.contacts \ {r.val}
               x == [old EXCEPT !.contacts = contacts]
    <2>1. q = WithRecord(p, "projects", at, x)
      BY <1>5 DEF ProjectsEffect, WithRecord, With
    <2>4. /\ r.op \notin Removals => old.contacts \subseteq contacts
          /\ r.op = "link" => r.val \in contacts
      BY <1>5 DEF Removals
    <2> HIDE DEF contacts
    <2>2. DOMAIN x = DOMAIN old /\ x.contacts = contacts
      BY <1>a, <1>5 DEF ProjectFields
    <2> HIDE DEF x
    <2> QED BY <1>a, <1>5, <2>1, <2>2, <2>4, ProjectOutcome
  <1>6. CASE r.op = "add milestone"
    BY <1>6, AddBesideOutcome DEF ProjectsEffect
  <1>7. CASE r.op = "drop milestone"
    BY <1>7, DropMilestoneOutcome DEF ProjectsEffect
  <1>8. CASE r.op = "add task"
    BY <1>8, AddBesideOutcome DEF ProjectsEffect
  <1>9. CASE r.op = "add subtask"
    BY <1>9, <1>b, TaskOutcome DEF ProjectsEffect, WithRecord, With
  <1>10. CASE r.op = "status"
    BY <1>10, <1>b, TaskOutcome DEF ProjectsEffect, WithRecord, With
  <1>11. CASE r.op = "drop task"
    <2> DEFINE kind == "tasks"
               S == {r.at}
    <2>1. q = With(p, kind, Drop(p[kind], S)) /\ kind \in Kinds
      BY <1>11 DEF ProjectsEffect, With, Kinds
    <2>a. {kind} \subseteq {"milestones", "tasks", "next"}
      OBVIOUS
    <2> HIDE DEF kind, S
    <2>c. Changed(p, q, kind, Drop(p[kind], S))
      BY <2>1, DropOutcome
    <2>2. IsPortal(q) /\ DOMAIN q = DOMAIN p /\ q.next = p.next /\ \A k \in DOMAIN p \ {kind} : q[k] = p[k]
      BY <2>c DEF Changed
    <2> QED BY <1>11, <2>2, <2>a, OtherOutcome
  <1>12. CASE r.op \notin {"add project", "put project", "drop project", "join", "leave", "put team", "link",
                           "unlink", "add milestone", "drop milestone", "add task", "add subtask", "status",
                           "drop task"}
    <2>1. q = p
      BY <1>12 DEF ProjectsEffect
    <2> QED BY <1>12, <2>1, OtherOutcome
  <1> QED BY <1>1, <1>2, <1>3, <1>4, <1>5, <1>6, <1>7, <1>8, <1>9, <1>10, <1>11, <1>12

LEMMA SameBeside ==
  ASSUME NEW p, IsPortal(p)
  PROVE  Beside(p, p)
  BY DEF Beside, IsPortal

LEMMA AddedBeside ==
  ASSUME NEW p, IsPortal(p), NEW q, NEW kind, kind # "projects", NEW x, Added(p, q, kind, x), kind \in Kinds
  PROVE  Beside(p, q)
  BY DEF IsPortal, Kinds, Added, Beside

LEMMA ChangedBeside ==
  ASSUME NEW p, IsPortal(p), NEW q, NEW kind, kind # "projects", NEW f, Changed(p, q, kind, f), kind \in Kinds
  PROVE  Beside(p, q)
  BY DEF IsPortal, Kinds, Changed, Beside

LEMMA AddBeside ==
  ASSUME NEW p, IsPortal(p), NEW kind \in Kinds \ {"projects"}, NEW x, IsRecord(kind, x, p.next + 1),
         NEW q, q = Add(p, kind, x)
  PROVE  Beside(p, q)
  BY AddOutcome, AddedBeside

LEMMA DropBeside ==
  ASSUME NEW p, IsPortal(p), NEW kind \in Kinds \ {"projects"}, NEW S,
         NEW q, q = With(p, kind, Drop(p[kind], S))
  PROVE  Beside(p, q)
  BY DropOutcome, ChangedBeside

LEMMA RecordBeside ==
  ASSUME NEW p, IsPortal(p), NEW kind \in Kinds \ {"projects"}, NEW i \in DOMAIN p[kind],
         NEW x, IsRecord(kind, x, p.next), NEW q, q = WithRecord(p, kind, i, x)
  PROVE  Beside(p, q)
  BY RecordOutcome, ChangedBeside

LEMMA ChangeBeside ==
  ASSUME NEW p, IsPortal(p), NEW kind \in Kinds \ {"projects"}, NEW f, DOMAIN f \subseteq DOMAIN p[kind],
         \A i \in DOMAIN f : f[i] = p[kind][i] \/ IsRecord(kind, f[i], p.next),
         NEW q, q = With(p, kind, f)
  PROVE  Beside(p, q)
  BY ChangeOutcome, ChangedBeside

LEMMA Records ==
  ASSUME NEW p, IsPortal(p), NEW kind \in Kinds
  PROVE  p.next \in Nat \ {0} /\ \A i \in DOMAIN p[kind] : i \in 1 .. p.next - 1 /\ IsRecord(kind, p[kind][i], p.next)
  BY DEF IsPortal

\* An invoice whose field has been changed.
LEMMA InvoiceRecords ==
  ASSUME NEW p, IsPortal(p), NEW i \in DOMAIN p.invoices
  PROVE  LET inv == p.invoices[i]
         IN  /\ DOMAIN inv = InvoiceFields /\ inv.rev \in Nat /\ inv.pdf \in 0 .. p.next - 1
             /\ p.next \in Nat \ {0}
  BY Records DEF Kinds, IsRecord

LEMMA InvoiceBeside ==
  ASSUME NEW p, IsPortal(p), NEW at \in DOMAIN p.invoices, NEW x, DOMAIN x = InvoiceFields, x.rev \in Nat,
         x.pdf \in 0 .. p.next - 1, NEW q, q = WithRecord(p, "invoices", at, x)
  PROVE  Beside(p, q)
  BY RecordBeside DEF Kinds, IsRecord

LEMMA PutBeside ==
  ASSUME NEW p, IsPortal(p), NEW at \in DOMAIN p.invoices, NEW body, DOMAIN body = InvoiceFields,
         NEW q, q = WithRecord(p, "invoices", at, PutInvoice(p.invoices[at], body))
  PROVE  Beside(p, q)
  <1> DEFINE old == p.invoices[at]
             pdf == IF body.note # old.note \/ body.spaced # old.spaced THEN NoFile ELSE old.pdf
             x == PutInvoice(old, body)
  <1>1. old.rev \in Nat /\ old.pdf \in 0 .. p.next - 1 /\ 0 \in 0 .. p.next - 1
    BY InvoiceRecords
  <1>2. x = [body EXCEPT !.rev = old.rev, !.status = old.status, !.pdf = pdf]
    BY DEF PutInvoice
  <1>3. pdf \in 0 .. p.next - 1
    BY <1>1 DEF NoFile
  <1> HIDE DEF pdf
  <1>4. DOMAIN x = InvoiceFields /\ x.rev = old.rev /\ x.pdf = pdf
    BY <1>2 DEF InvoiceFields
  <1> HIDE DEF x
  <1>5. x.rev \in Nat /\ x.pdf \in 0 .. p.next - 1
    BY <1>1, <1>3, <1>4
  <1> QED BY <1>4, <1>5, InvoiceBeside DEF x

LEMMA LayoutBeside ==
  ASSUME NEW p, IsPortal(p), NEW at \in DOMAIN p.invoices,
         NEW q, q = WithRecord(p, "invoices", at, [p.invoices[at] EXCEPT !.rev = @ + 1])
  PROVE  Beside(p, q)
  <1> DEFINE old == p.invoices[at]
             rev == old.rev + 1
             x == [old EXCEPT !.rev = rev]
  <1>1. DOMAIN old = InvoiceFields /\ rev \in Nat /\ old.pdf \in 0 .. p.next - 1
    BY InvoiceRecords
  <1> HIDE DEF rev
  <1>2. DOMAIN x = InvoiceFields /\ x.rev = rev /\ x.pdf = old.pdf
    BY <1>1 DEF InvoiceFields
  <1>3. q = WithRecord(p, "invoices", at, x)
    BY DEF rev
  <1> HIDE DEF x
  <1> QED BY <1>1, <1>2, <1>3, InvoiceBeside

LEMMA StatusBeside ==
  ASSUME NEW p, IsPortal(p), NEW S, NEW status,
         NEW q, q = With(p, "invoices", [i \in DOMAIN p.invoices |->
                        IF i \in S THEN [p.invoices[i] EXCEPT !.status = status] ELSE p.invoices[i]])
  PROVE  Beside(p, q)
  BY InvoiceRecords, ChangeBeside DEF InvoiceFields, IsRecord, Kinds

LEMMA BesideTwice ==
  ASSUME NEW p, IsPortal(p), NEW q, Beside(p, q), NEW s, Beside(q, s)
  PROVE  Beside(p, s)
  BY DEF IsPortal, Beside

LEMMA PDFBeside ==
  ASSUME NEW p, IsPortal(p), NEW at \in DOMAIN p.invoices, NEW q, q = MakePDF(p, at)
  PROVE  Beside(p, q)
  <1> DEFINE inv == p.invoices[at]
             copy == [title |-> inv.number, on |-> {inv.contact, inv.deal}, rev |-> inv.rev]
             kind == "copies"
             p1 == Add(p, kind, copy)
             x == [p1.invoices[at] EXCEPT !.pdf = p.next]
  <1>1. CASE inv.pdf # NoFile
    BY <1>1, SameBeside DEF MakePDF
  <1>2. CASE inv.pdf = NoFile
    <2>0. q = [p1 EXCEPT !.invoices[at].pdf = p.next]
      BY <1>2 DEF MakePDF, NewId
    <2>a. p1 = Add(p, kind, copy) /\ kind \in Kinds /\ IsRecord(kind, copy, p.next + 1)
      BY AnyRecord DEF Kinds
    <2>b. "invoices" \in DOMAIN p \ {kind, "next"} /\ kind # "projects"
      BY DEF Kinds, IsPortal
    <2> HIDE DEF p1, kind, copy
    <2>1. Added(p, p1, kind, copy)
      BY <2>a, AddOutcome
    <2>2. Beside(p, p1)
      BY <2>1, <2>a, <2>b, AddedBeside
    <2>3. IsPortal(p1) /\ p1.invoices = p.invoices /\ p1.next = p.next + 1 /\ p.next \in Nat \ {0}
      BY <2>1, <2>b DEF Added
    <2>4. DOMAIN p1.invoices[at] = InvoiceFields /\ p1.invoices[at].rev \in Nat
      BY <2>3, InvoiceRecords
    <2>5. q = WithRecord(p1, "invoices", at, x)
      BY <2>0, <2>3, <2>4 DEF WithRecord, With, InvoiceFields, IsPortal, Kinds
    <2>6. DOMAIN x = InvoiceFields /\ x.rev \in Nat /\ x.pdf = p.next
      BY <2>4 DEF InvoiceFields
    <2>7. p.next \in 0 .. p1.next - 1
      BY <2>3
    <2> HIDE DEF x
    <2>8. Beside(p1, q)
      BY <2>3, <2>5, <2>6, <2>7, InvoiceBeside
    <2> QED BY <2>2, <2>8, BesideTwice
  <1> QED BY <1>1, <1>2

LEMMA PlainKinds ==
  ASSUME NEW kind \in {"copies", "users", "events", "folders", "tasks"}
  PROVE  kind \in Kinds \ {"projects"} /\ \A x, n : IsRecord(kind, x, n)
  BY AnyRecord DEF Kinds

LEMMA MailBeside ==
  ASSUME NEW p, IsPortal(p), NEW to, NEW folder, NEW q,
         q = Add(p, "mails", [to |-> to, folder |-> folder, parts |-> {}])
  PROVE  Beside(p, q)
  BY AddBeside DEF Kinds, IsRecord, MailFields

LEMMA MailChangeBeside ==
  ASSUME NEW p, IsPortal(p), NEW at \in DOMAIN p.mails, NEW x, DOMAIN x = DOMAIN p.mails[at],
         NEW q, q = WithRecord(p, "mails", at, x)
  PROVE  Beside(p, q)
  BY Records, RecordBeside DEF Kinds, IsRecord

\* What the portal has at the number of a request.
LEMMA BusinessHas ==
  ASSUME NEW p, NEW r, BusinessAccepts(p, r)
  PROVE  /\ r.op \in AtInvoice => r.at \in DOMAIN p.invoices
         /\ r.op \in AtUser => r.at \in DOMAIN p.users
         /\ r.op = "save draft" => r.at \in DOMAIN p.mails \cup {0}
         /\ r.op = "attach" => r.at \in DOMAIN p.mails
         /\ r.op = "drop event" => r.at \in DOMAIN p.events
  BY DEF AtInvoice, AtUser, BusinessAccepts

LEMMA BusinessEffectBeside ==
  ASSUME NEW p, IsPortal(p), NEW r, IsRequest(r), Has(p, r), NEW q, q = BusinessEffect(p, r)
  PROVE  Beside(p, q)
  <1> DEFINE at == r.at
             val == r.val
  <1>0. p.next \in Nat \ {0}
    BY DEF IsPortal
  <1>1. CASE r.op = "add invoice"
    <2>1. DOMAIN val = InvoiceFields /\ val.rev \in Nat /\ val.pdf = NoFile /\ q = Add(p, "invoices", val)
      BY <1>1 DEF BusinessEffect, IsRequest, Fits
    <2> HIDE DEF val
    <2>2. val.pdf \in 0 .. (p.next + 1) - 1
      BY <1>0, <2>1 DEF NoFile
    <2>3. "invoices" \in Kinds \ {"projects"} /\ IsRecord("invoices", val, p.next + 1)
      BY <2>1, <2>2 DEF Kinds, IsRecord
    <2> QED BY <2>1, <2>3, AddBeside
  <1>2. CASE r.op \in {"put invoice", "layout", "pdf"}
    BY <1>2, PutBeside, LayoutBeside, PDFBeside DEF Has, BusinessEffect, WithRecord, With,
       IsRequest, Fits
  <1>3. CASE r.op = "set status"
    BY <1>3, StatusBeside DEF BusinessEffect, With
  <1>4. CASE r.op \in {"drop invoice", "drop copies", "remove mails", "drop user", "drop event"}
    BY <1>4, DropBeside DEF Kinds, BusinessEffect, With
  <1>5. CASE r.op \in {"send", "arrive"}
    BY <1>5, MailBeside DEF BusinessEffect
  <1>6. CASE r.op = "save draft"
    BY <1>6, MailChangeBeside, MailBeside DEF Has, BusinessEffect, SaveDraft, WithRecord, With
  <1>7. CASE r.op = "attach"
    BY <1>7, MailChangeBeside DEF Has, BusinessEffect, WithRecord, With
  <1>8. CASE r.op \in {"add user", "add event"}
    BY <1>8, PlainKinds, AddBeside DEF BusinessEffect
  <1>9. CASE r.op \in {"put user", "activate"}
    BY <1>9, PlainKinds, RecordBeside DEF Has, BusinessEffect, WithRecord, With
  <1>10. CASE r.op \notin {"add invoice", "put invoice", "layout", "pdf", "set status", "drop invoice",
                           "drop copies", "remove mails", "drop user", "drop event", "send", "arrive",
                           "save draft", "attach", "add user", "add event", "put user", "activate"}
    <2>1. q = p
      BY <1>10 DEF BusinessEffect
    <2> QED BY <2>1, SameBeside
  <1> QED BY <1>1, <1>2, <1>3, <1>4, <1>5, <1>6, <1>7, <1>8, <1>9, <1>10

\* What the portal has at the number of a request on documents.
LEMMA DocumentsHave ==
  ASSUME NEW p, NEW r, Docs!DocumentsAccepts(p, r)
  PROVE  /\ r.op \in Docs!AtFile => r.at \in DOMAIN p.files
         /\ r.op \in Docs!AtFolder => r.at \in DOMAIN p.folders
         /\ r.op \in {"move items", "copy items"} =>
               r.val.folders \subseteq DOMAIN p.folders /\ r.val.files \subseteq DOMAIN p.files
         /\ r.op \in Docs!AtTask => r.at \in DOMAIN p.tasks
  BY DEF Docs!AtFile, Docs!AtFolder, Docs!AtTask, Docs!DocumentsAccepts

LEMMA GrowBeside ==
  ASSUME NEW p, IsPortal(p), NEW kind \in Kinds \ {"projects"}, NEW n \in Nat, p.next <= n,
         NEW f, DOMAIN f \subseteq DOMAIN p[kind] \cup (p.next .. n - 1),
         \A i \in DOMAIN f : IsRecord(kind, f[i], n), NEW q, q = WithNew(p, kind, f, n)
  PROVE  Beside(p, q)
  <1>1. p.next \in Nat \ {0} /\ "next" \notin Kinds /\ kind \in DOMAIN p /\ "next" \in DOMAIN p
        /\ {"projects", "people"} \subseteq DOMAIN p \ {kind, "next"}
    BY DEF IsPortal, Kinds
  <1>2. /\ DOMAIN q = DOMAIN p /\ q.next = n /\ q[kind] = f
        /\ \A k \in DOMAIN p \ {kind, "next"} : q[k] = p[k]
    BY <1>1 DEF WithNew
  <1>3. IsPortal(q)
    BY <1>1, <1>2, OneCollection
  <1>4. q.projects = p.projects /\ q.people = p.people
    BY <1>1, <1>2
  <1>5. q.next >= p.next
    BY <1>1, <1>2
  <1> QED BY <1>3, <1>4, <1>5 DEF Beside

LEMMA FileRecords ==
  ASSUME NEW p, IsPortal(p), NEW i \in DOMAIN p.files
  PROVE  DOMAIN p.files[i] = FileFields /\ p.files[i].time \in 0 .. p.next - 1 /\ p.next \in Nat \ {0}
  BY Records DEF Kinds, IsRecord

LEMMA FileIsRecord ==
  ASSUME NEW x, DOMAIN x = FileFields, NEW n, x.time \in 0 .. n - 1
  PROVE  IsRecord("files", x, n)
  BY DEF IsRecord

LEMMA FilesGrow ==
  ASSUME NEW p, IsPortal(p), NEW n \in Nat, p.next <= n, NEW i \in DOMAIN p.files
  PROVE  IsRecord("files", p.files[i], n)
  BY Records, RecordsStay DEF Kinds

LEMMA UploadBeside ==
  ASSUME NEW p, IsPortal(p), NEW folder, NEW doc, NEW q, q = Docs!Upload(p, folder, doc)
  PROVE  Beside(p, q)
  <1> DEFINE x == Docs!NewFile(doc.name, folder, doc.body, p.next)
  <1>1. q = Add(p, "files", x)
    BY DEF Docs!Upload, Docs!Add, Docs!Put, Docs!NewId, Add, Put, NewId
  <1>2. DOMAIN x = FileFields /\ x.time = p.next
    BY DEF Docs!NewFile, FileFields
  <1>3. p.next \in 0 .. (p.next + 1) - 1
    BY DEF IsPortal
  <1> HIDE DEF x
  <1>4. "files" \in Kinds \ {"projects"} /\ IsRecord("files", x, p.next + 1)
    BY <1>2, <1>3, FileIsRecord DEF Kinds
  <1> QED BY <1>1, <1>4, AddBeside

LEMMA UpdateBeside ==
  ASSUME NEW p, IsPortal(p), NEW id \in DOMAIN p.files, NEW body, NEW q, q = Docs!Update(p, id, body)
  PROVE  Beside(p, q)
  <1> DEFINE old == p.files[id]
             x == [old EXCEPT !.body = body, !.time = p.next]
             f == [p.files EXCEPT ![id] = x]
             n == p.next + 1
             kind == "files"
  <1>0. DOMAIN old = FileFields /\ p.next \in Nat \ {0}
    BY FileRecords
  <1>1. "files" \in DOMAIN p /\ "next" \in DOMAIN p
    BY DEF IsPortal, Kinds
  <1>2. q = WithNew(p, kind, f, n)
    BY <1>0, <1>1 DEF Docs!Update, Docs!NewId, WithNew, FileFields
  <1>3. DOMAIN x = FileFields /\ x.time = p.next
    BY <1>0 DEF FileFields
  <1>4. n \in Nat /\ p.next <= n /\ p.next \in 0 .. n - 1
    BY <1>0
  <1> HIDE DEF x, n
  <1>5. DOMAIN f = DOMAIN p.files /\ \A i \in DOMAIN f : f[i] = x \/ f[i] = p.files[i]
    OBVIOUS
  <1> HIDE DEF f
  <1>6. IsRecord(kind, x, n)
    BY <1>3, <1>4, FileIsRecord
  <1>7. \A i \in DOMAIN f : IsRecord(kind, f[i], n)
    BY <1>4, <1>5, <1>6, FilesGrow
  <1>8. kind \in Kinds \ {"projects"} /\ DOMAIN f \subseteq DOMAIN p[kind] \cup (p.next .. n - 1)
    BY <1>5 DEF Kinds
  <1> HIDE DEF kind
  <1> QED BY <1>2, <1>4, <1>7, <1>8, GrowBeside

LEMMA FileChangeBeside ==
  ASSUME NEW p, IsPortal(p), NEW at \in DOMAIN p.files, NEW x, DOMAIN x = FileFields,
         x.time = p.files[at].time, NEW q, q = WithRecord(p, "files", at, x)
  PROVE  Beside(p, q)
  BY FileRecords, FileIsRecord, RecordBeside DEF Kinds

\* Two collections are changed.
LEMMA ChangeBesideTwice ==
  ASSUME NEW p, IsPortal(p), NEW y \in Kinds \ {"projects"}, NEW z \in Kinds \ {"projects", y},
         NEW f, DOMAIN f \subseteq DOMAIN p[y],
         \A i \in DOMAIN f : f[i] = p[y][i] \/ IsRecord(y, f[i], p.next),
         NEW g, DOMAIN g \subseteq DOMAIN p[z],
         \A i \in DOMAIN g : g[i] = p[z][i] \/ IsRecord(z, g[i], p.next),
         NEW q, q = With(With(p, y, f), z, g)
  PROVE  Beside(p, q)
  <1> DEFINE p1 == With(p, y, f)
  <1>0. p1 = With(p, y, f) /\ q = With(p1, z, g)
    OBVIOUS
  <1> HIDE DEF p1
  <1>1. Changed(p, p1, y, f)
    BY <1>0, ChangeOutcome
  <1>2. Beside(p, p1)
    BY <1>1, ChangedBeside
  <1>3. IsPortal(p1) /\ p1.next = p.next /\ p1[z] = p[z]
    <2>1. z \in DOMAIN p \ {y}
      BY DEF IsPortal
    <2> QED BY <1>1, <2>1 DEF Changed
  <1>4. Beside(p1, q)
    BY <1>0, <1>3, ChangeBeside
  <1> QED BY <1>2, <1>4, BesideTwice

LEMMA MoveBeside ==
  ASSUME NEW p, IsPortal(p), NEW r, NEW q, q = Docs!MoveItems(p, r)
  PROVE  Beside(p, q)
  <1> DEFINE M == Docs!Moving(p, r.val.files, r.at)
             f == [i \in DOMAIN p.files |-> IF i \in M THEN [p.files[i] EXCEPT !.in = r.at] ELSE p.files[i]]
             g == [i \in DOMAIN p.folders |->
                      IF i \in r.val.folders THEN [p.folders[i] EXCEPT !.parent = r.at] ELSE p.folders[i]]
             y == "files"
             z == "folders"
  <1>1. {y, z} \subseteq DOMAIN p /\ y # z /\ y \in Kinds \ {"projects"} /\ z \in Kinds \ {"projects", y}
    BY DEF IsPortal, Kinds
  <1>2. q = [p EXCEPT ![y] = f, ![z] = g]
    BY DEF Docs!MoveItems
  <1>3. DOMAIN f = DOMAIN p[y] /\ DOMAIN g = DOMAIN p[z]
    OBVIOUS
  <1>4. \A i \in DOMAIN f : f[i] = p[y][i] \/ IsRecord(y, f[i], p.next)
    BY FileRecords, FileIsRecord DEF FileFields
  <1>5. \A i \in DOMAIN g : IsRecord(z, g[i], p.next)
    BY PlainKinds
  <1> HIDE DEF f, g, y, z
  <1>6. q = With(With(p, y, f), z, g)
    BY <1>1, <1>2 DEF With
  <1> QED BY <1>1, <1>3, <1>4, <1>5, <1>6, ChangeBesideTwice

LEMMA DropFolderBeside ==
  ASSUME NEW p, IsPortal(p), NEW id, NEW q, q = Docs!DropFolder(p, id)
  PROVE  Beside(p, q)
  BY ChangeBesideTwice DEF IsPortal, Kinds, Docs!DropFolder, Docs!Drop, Docs!Restrict, With

LEMMA CopyBeside ==
  ASSUME NEW p, IsPortal(p), NEW r, r.val.folders \subseteq DOMAIN p.folders,
         r.val.files \subseteq DOMAIN p.files, NEW q, q = Docs!CopyItems(p, r)
  PROVE  Beside(p, q)
  <1> DEFINE M == Docs!Moving(p, r.val.files, r.at)
             s == Docs!SetToSeq(M)
             t == Docs!SetToSeq(r.val.folders)
             after == p.next + Len(s)
             last == after + Len(t)
             f == [i \in DOMAIN p.files \cup (p.next .. after - 1) |->
                     IF i \in p.next .. after - 1
                     THEN [p.files[s[i - p.next + 1]] EXCEPT !.in = r.at, !.time = i] ELSE p.files[i]]
             g == [i \in DOMAIN p.folders \cup (after .. after + Len(t) - 1) |->
                     IF i \in after .. after + Len(t) - 1
                     THEN [p.folders[t[i - after + 1]] EXCEPT !.parent = r.at] ELSE p.folders[i]]
             y == "files"
             z == "folders"
             p1 == WithNew(p, y, f, after)
  <1>1. {y, z, "next"} \subseteq DOMAIN p /\ y # z /\ y \in Kinds \ {"projects"} /\ z \in Kinds \ {"projects", y}
        /\ y # "next" /\ z # "next"
    BY DEF IsPortal, Kinds
  <1>2. q = [p EXCEPT ![y] = f, ![z] = g, !.next = last]
    BY DEF Docs!CopyItems, Docs!WithCopies
  <1>3. /\ IsFiniteSet(M) /\ M \subseteq DOMAIN p.files
        /\ IsFiniteSet(r.val.folders)
    BY <1>1, Collections DEF Docs!Moving, y
  <1>4. /\ IsList(s) /\ ToSet(s) = M /\ IsList(t)
    <2> HIDE DEF M
    <2> QED BY <1>3, DocsSetToSeq, SetList
  <1>5. /\ Len(s) \in Nat /\ Len(t) \in Nat /\ p.next \in Nat \ {0}
        /\ DOMAIN s = 1 .. Len(s)
    <2> HIDE DEF s, t
    <2> QED BY <1>4, ListShape DEF IsPortal
  <1> HIDE DEF M
  <1>6. \A i \in 1 .. Len(s) : s[i] \in DOMAIN p.files
    <2> HIDE DEF s
    <2> QED BY <1>3, <1>4, <1>5 DEF ToSet
  <1> HIDE DEF s, t
  <1>7. after \in Nat /\ p.next <= after /\ last \in Nat /\ after <= last
    BY <1>5
  <1>8. \A i \in DOMAIN f : IsRecord(y, f[i], after)
    <2> TAKE i \in DOMAIN f
    <2>1. CASE i \in p.next .. after - 1
      <3> DEFINE k == s[i - p.next + 1]
                 x == [p.files[k] EXCEPT !.in = r.at, !.time = i]
      <3>1. i - p.next + 1 \in 1 .. Len(s) /\ i \in 0 .. after - 1
        BY <1>5, <1>7, <2>1
      <3>2. k \in DOMAIN p.files
        BY <1>6, <3>1
      <3>3. f[i] = x
        BY <2>1
      <3> HIDE DEF k
      <3>4. DOMAIN p.files[k] = FileFields
        BY <3>2, FileRecords
      <3>5. DOMAIN x = FileFields /\ x.time = i
        BY <3>4 DEF FileFields
      <3> HIDE DEF x, f, after
      <3> QED BY <3>1, <3>3, <3>5, FileIsRecord
    <2>2. CASE i \notin p.next .. after - 1
      BY <2>2, <1>7, FilesGrow
    <2> QED BY <2>1, <2>2
  <1>9. /\ DOMAIN f \subseteq DOMAIN p[y] \cup (p.next .. after - 1)
        /\ DOMAIN g \subseteq DOMAIN p[z] \cup (after .. last - 1)
    BY <1>5, <1>7
  <1>a. p1 = WithNew(p, y, f, after)
    OBVIOUS
  <1>b. \A i \in DOMAIN g : IsRecord(z, g[i], last)
    BY PlainKinds
  <1> HIDE DEF f, g, after, last, y, z, p1
  <1>c. Beside(p, p1)
    BY <1>1, <1>7, <1>8, <1>9, <1>a, GrowBeside
  <1>d. IsPortal(p1) /\ p1.next = after /\ p1[z] = p[z]
    BY <1>1, <1>a, <1>c DEF WithNew, Beside
  <1>e. q = WithNew(p1, z, g, last)
    BY <1>1, <1>2, <1>a DEF WithNew
  <1>f. Beside(p1, q)
    BY <1>1, <1>7, <1>9, <1>b, <1>d, <1>e, GrowBeside
  <1> QED BY <1>c, <1>f, BesideTwice

LEMMA DiskBeside ==
  ASSUME NEW p, IsPortal(p), NEW f, NEW q, q = [p EXCEPT !.disk = f]
  PROVE  Beside(p, q)
  BY AsideOutcome DEF IsPortal, Kinds, Beside

LEMMA DocumentsEffectBeside ==
  ASSUME NEW p, IsPortal(p), NEW r, Has(p, r), NEW q, q = Docs!DocumentsEffect(p, r)
  PROVE  Beside(p, q)
  <1> DEFINE at == r.at
             val == r.val
  <1>1. CASE r.op = "upload"
    BY <1>1, UploadBeside DEF Docs!DocumentsEffect
  <1>2. CASE r.op = "update"
    BY <1>2, UpdateBeside DEF Has, Docs!DocumentsEffect
  <1>3. CASE r.op = "mkdir"
    BY <1>3, PlainKinds, AddBeside DEF Docs!DocumentsEffect, Docs!Add, Docs!Put, Docs!NewId, Add,
       Put, NewId
  <1>4. CASE r.op = "move items"
    BY <1>4, MoveBeside DEF Docs!DocumentsEffect
  <1>5. CASE r.op = "copy items"
    BY <1>5, CopyBeside DEF Has, Docs!DocumentsEffect
  <1>6. CASE r.op = "rename folder"
    BY <1>6, PlainKinds, RecordBeside DEF Has, Docs!DocumentsEffect, WithRecord, With
  <1>7. CASE r.op = "rename file"
    BY <1>7, FileRecords, FileChangeBeside DEF Has, Docs!DocumentsEffect, WithRecord, With,
       FileFields
  <1>8. CASE r.op = "drop folder"
    BY <1>8, DropFolderBeside DEF Docs!DocumentsEffect
  <1>9. CASE r.op = "drop file"
    BY <1>9, DropBeside DEF Kinds, Docs!DocumentsEffect, Docs!Drop, Docs!Restrict, Drop, Restrict,
       With
  <1>10. CASE r.op \in {"attach file", "detach file"}
    BY <1>10, PlainKinds, RecordBeside DEF Has, Docs!DocumentsEffect, WithRecord, With
  <1>11. CASE r.op \in {"open", "fetch", "write", "remove"}
    BY <1>11, DiskBeside DEF Docs!DocumentsEffect
  <1>12. CASE r.op \notin {"upload", "update", "mkdir", "move items", "copy items", "rename folder", "rename file",
                           "drop folder", "drop file", "attach file", "detach file", "open", "fetch", "write",
                           "remove"}
    <2>1. q = p
      BY <1>12 DEF Docs!DocumentsEffect
    <2> QED BY <2>1, SameBeside
  <1> QED BY <1>1, <1>2, <1>3, <1>4, <1>5, <1>6, <1>7, <1>8, <1>9, <1>10, <1>11, <1>12

LEMMA AcceptedHas ==
  ASSUME NEW p, NEW r, WorkAccepts(p, r)
  PROVE  Has(p, r)
  <1>0. ProjectsAccepts(p, r) /\ BusinessAccepts(p, r) /\ Docs!DocumentsAccepts(p, r)
    BY DEF WorkAccepts
  <1>1. r.op \in {"put project", "join", "leave", "put team", "link", "unlink"} => r.at \in DOMAIN p.projects
    BY <1>0 DEF InProject, AtTask, ProjectsAccepts
  <1>2. r.op \in {"add subtask", "status"} => r.at \in DOMAIN p.tasks
    BY <1>0 DEF AtTask, InProject, ProjectsAccepts
  <1>3. /\ r.op \in {"put invoice", "layout", "pdf"} => r.at \in DOMAIN p.invoices
        /\ r.op = "save draft" => r.at \in DOMAIN p.mails \cup {0}
        /\ r.op = "attach" => r.at \in DOMAIN p.mails
        /\ r.op \in {"put user", "activate"} => r.at \in DOMAIN p.users
    BY <1>0, BusinessHas DEF AtInvoice, AtUser
  <1>4. /\ r.op \in {"attach file", "detach file"} => r.at \in DOMAIN p.tasks
        /\ r.op \in {"update", "rename file"} => r.at \in DOMAIN p.files
        /\ r.op = "rename folder" => r.at \in DOMAIN p.folders
        /\ r.op = "copy items" => r.val.folders \subseteq DOMAIN p.folders /\ r.val.files \subseteq DOMAIN p.files
    BY <1>0, DocumentsHave DEF Docs!AtTask, Docs!AtFile, Docs!AtFolder
  <1> QED BY <1>1, <1>2, <1>3, <1>4 DEF Has

LEMMA WhoseRequest ==
  ASSUME NEW p, NEW r
  PROVE  /\ r.op \notin OnProjects => ProjectsEffect(p, r) = p
         /\ r.op \notin OnBusiness => BusinessEffect(p, r) = p
         /\ r.op \notin OnDocuments => Docs!DocumentsEffect(p, r) = p
  BY DEF OnProjects, ProjectsEffect, OnBusiness, BusinessEffect, OnDocuments, Docs!DocumentsEffect

LEMMA EffectParts ==
  ASSUME NEW p, NEW r
  PROVE  \/ r.op \in OnProjects /\ WorkEffect(p, r) = ProjectsEffect(p, r)
         \/ r.op \in OnBusiness /\ WorkEffect(p, r) = BusinessEffect(p, r)
         \/ r.op \in OnDocuments /\ WorkEffect(p, r) = Docs!DocumentsEffect(p, r)
         \/ r.op \notin OnProjects \cup OnBusiness \cup OnDocuments /\ WorkEffect(p, r) = p
  <1>1. CASE r.op \in OnProjects
    BY <1>1, WhoseRequest DEF OnProjects, OnBusiness, OnDocuments, WorkEffect
  <1>2. CASE r.op \in OnBusiness
    BY <1>2, WhoseRequest DEF OnProjects, OnBusiness, OnDocuments, WorkEffect
  <1>3. CASE r.op \notin OnProjects \cup OnBusiness
    BY <1>3, WhoseRequest DEF WorkEffect
  <1> QED BY <1>1, <1>2, <1>3

LEMMA EffectOutcome ==
  ASSUME NEW p, IsPortal(p), NEW r, IsRequest(r), Has(p, r), NEW q, q = WorkEffect(p, r)
  PROVE  Outcome(p, q, r)
  <1>1. CASE r.op \in OnProjects /\ q = ProjectsEffect(p, r)
    <2>1. ProjectsOutcome(p, q, r)
      BY <1>1, ProjectsEffectOutcome
    <2>2. "people" \in DOMAIN p \ (InWork \cup {"next"})
      BY DEF IsPortal, InWork
    <2> QED BY <2>1, <2>2 DEF ProjectsOutcome, Outcome
  <1>2. CASE Beside(p, q) /\ r.op # "link"
    BY <1>2 DEF Beside, Outcome, ContactsGrow
  <1>3. CASE r.op \in OnBusiness /\ q = BusinessEffect(p, r)
    BY <1>3, <1>2, BusinessEffectBeside DEF OnBusiness
  <1>4. CASE r.op \in OnDocuments /\ q = Docs!DocumentsEffect(p, r)
    BY <1>4, <1>2, DocumentsEffectBeside DEF OnDocuments
  <1>5. CASE r.op \notin OnProjects \cup OnBusiness \cup OnDocuments /\ q = p
    BY <1>5, <1>2, SameBeside DEF OnProjects
  <1> QED BY <1>1, <1>3, <1>4, <1>5, EffectParts

\* A request that makes something can be applied once more.
LEMMA CreatesAgain ==
  ASSUME NEW p, IsPortal(p), NEW r, Has(p, r), WorkCreates(r), NEW q, q = WorkEffect(p, r)
  PROVE  Has(q, r)
  <1>1. r.op \in {"add project", "add milestone", "add task", "add subtask", "add invoice", "add user",
                  "add event", "send", "upload", "mkdir", "copy items"}
        \/ (r.op = "save draft" /\ r.at = 0)
    BY DEF WorkCreates, ProjectsCreates, BusinessCreates, Docs!DocumentsCreates
  <1>2. CASE r.op \notin {"add subtask", "copy items"}
    BY <1>1, <1>2 DEF Has
  <1>3. CASE r.op = "add subtask"
    <2> DEFINE x == [p.tasks[r.at] EXCEPT !.parts = Append(@, r.val)]
    <2>1. q = ProjectsEffect(p, r)
      BY <1>3, EffectParts DEF OnProjects, OnBusiness, OnDocuments
    <2>2. q = WithRecord(p, "tasks", r.at, x)
      BY <1>3, <2>1 DEF ProjectsEffect, WithRecord, With
    <2> HIDE DEF x
    <2>3. r.at \in DOMAIN p.tasks /\ "tasks" \in DOMAIN p
      BY <1>3 DEF Has, IsPortal, Kinds
    <2>4. DOMAIN q.tasks = DOMAIN p.tasks
      BY <2>2, <2>3 DEF WithRecord, With
    <2> QED BY <1>3, <2>3, <2>4 DEF Has
  <1>4. CASE r.op = "copy items"
    <2>1. q = Docs!CopyItems(p, r)
      BY <1>4, EffectParts DEF OnProjects, OnBusiness, OnDocuments, Docs!DocumentsEffect
    <2>2. {"files", "folders", "next"} \subseteq DOMAIN p
      BY DEF IsPortal, Kinds
    <2>3. DOMAIN p.files \subseteq DOMAIN q.files /\ DOMAIN p.folders \subseteq DOMAIN q.folders
      BY <2>1, <2>2 DEF Docs!CopyItems, Docs!WithCopies
    <2> QED BY <1>4, <2>3 DEF Has
  <1> QED BY <1>2, <1>3, <1>4

LEMMA OutcomeTwice ==
  ASSUME NEW p, NEW q, NEW s, NEW r, Outcome(p, q, r), Outcome(q, s, r)
  PROVE  Outcome(p, s, r)
  BY DEF Outcome, ContactsGrow
-----------------------------------------------------------------------------
(* The sessions.  Everybody does only what was asked of him.               *)

LEMMA BeginsSound == Init => Sound
  <1> SUFFICES ASSUME Init PROVE Sound
    OBVIOUS
  <1>1. /\ portal \in Portals /\ jobs \in Jobs
        /\ session = [a \in Actors |-> Fresh(jobs[a])]
    BY DEF Init
  <1>2. IsPortal(portal)
    BY <1>1, PortalsAssumption
  <1>3. ASSUME NEW a \in Actors PROVE GoodScript(Asked(a), jobs[a])
    BY <1>1, JobsAssumption DEF IsOpening, ToSet, Asked, GoodScript, Good
  <1>4. /\ DOMAIN session = Actors
        /\ \A a \in Actors : /\ DOMAIN session[a] = SessionFields
                             /\ session[a].todo = jobs[a]
    BY <1>1 DEF Fresh, SessionFields
  <1> QED BY <1>1, <1>2, <1>3, <1>4 DEF Sound

LEMMA AnsweredGoesOn ==
  ASSUME Sound, NEW a \in Actors, NEW r, NEW rest, rest = Tail(session[a].todo), Answered(a, r)
  PROVE  Others(a) /\ GoesOn(a, r, rest)
  BY DEF Sound, Answered, SessionFields, Goes, Others, GoesOn

LEMMA RefusedGoesElsewhere ==
  ASSUME Sound, NEW a \in Actors, NEW r, NEW rest, rest = Tail(session[a].todo), Refused(a, r)
  PROVE  Others(a) /\ GoesElsewhere(a, r, rest)
  <1>1. DOMAIN session = Actors /\ DOMAIN session[a] = SessionFields
    BY DEF Sound
  <1>2. ASSUME NEW more \in Alternatives(r), Instead(a, more)
        PROVE  Others(a) /\ GoesElsewhere(a, r, rest)
    BY <1>1, <1>2 DEF Instead, SessionFields, Goes, Others, GoesElsewhere
  <1>3. ASSUME Alternatives(r) = {}, DealsWith(a, r)
        PROVE  Others(a) /\ GoesElsewhere(a, r, rest)
    BY <1>1, <1>3 DEF Broken, SessionFields, Skipped, DealsWith, Goes, Others, GoesElsewhere
  <1> QED BY <1>2, <1>3 DEF Refused

LEMMA StepMoves ==
  ASSUME Sound, NEW a \in Actors, Step(a), NEW r, r = Head(session[a].todo),
         NEW rest, rest = Tail(session[a].todo)
  PROVE  /\ session[a].todo # <<>> /\ Good(Asked(a), r) /\ GoodScript(Asked(a), rest)
         /\ Moves(a, r, rest)
  <1>1. session[a].todo # <<>> /\ jobs' = jobs /\ start' = start
    BY DEF Step, Succeed, Reject, Fail, Fault, ApplyTwice, Ended
  <1>2. Good(Asked(a), r) /\ GoodScript(Asked(a), rest) /\ IsPortal(portal)
    BY <1>1, GoodRest DEF Sound
  <1>3. IsRequest(r)
    BY <1>2 DEF Good
  <1>4. WorkAccepts(portal, r) => Outcome(portal, WorkEffect(portal, r), r)
    BY <1>2, <1>3, AcceptedHas, EffectOutcome
  <1>5. CASE Succeed(a)
    BY <1>5, <1>1, <1>2, <1>4, AnsweredGoesOn, EffectParts DEF Succeed, OnProjects, OnBusiness,
       OnDocuments, Moves, Others, Kept
  <1>6. CASE Reject(a)
    BY <1>6, <1>1, <1>2, RefusedGoesElsewhere DEF Reject, Moves, Others, Kept
  <1>7. CASE Fail(a)
    BY <1>7, <1>1, <1>2, <1>4, RefusedGoesElsewhere DEF Fail, Moves, Others, Kept
  <1>8. CASE ApplyTwice(a)
    <2> DEFINE q == WorkEffect(portal, r)
    <2>1. WorkCreates(r) /\ WorkAccepts(portal, r) /\ portal' = WorkEffect(q, r) /\ Answered(a, r)
      BY <1>8 DEF ApplyTwice
    <2>2. Others(a) /\ GoesOn(a, r, rest)
      BY <2>1, AnsweredGoesOn
    <2>3. r.op # "invoice"
      BY <2>1 DEF WorkCreates, ProjectsCreates, BusinessCreates, Docs!DocumentsCreates
    <2>4. Outcome(portal, q, r)
      BY <1>4, <2>1
    <2>5. Has(q, r)
      <3>1. Has(portal, r)
        BY <2>1, AcceptedHas
      <3> QED BY <1>2, <2>1, <3>1, CreatesAgain
    <2> HIDE DEF q
    <2>6. IsPortal(q)
      BY <2>4 DEF Outcome
    <2>7. Outcome(q, portal', r)
      BY <1>3, <2>1, <2>5, <2>6, EffectOutcome
    <2>8. Outcome(portal, portal', r)
      BY <2>4, <2>7, OutcomeTwice
    <2> QED BY <1>1, <1>2, <2>1, <2>2, <2>3, <2>8 DEF Moves, Others, Kept
  <1> QED BY <1>5, <1>6, <1>7, <1>8 DEF Step

LEMMA AcceptedInvoice ==
  ASSUME NEW p, NEW r, WorkAccepts(p, r), r.op = "invoice"
  PROVE  r.at \in DOMAIN p.invoices
  BY BusinessHas DEF WorkAccepts, AtInvoice

LEMMA MovesSoundly ==
  ASSUME Sound, NEW a \in Actors, Step(a) PROVE Sound'
  <1> DEFINE r == Head(session[a].todo)
             rest == Tail(session[a].todo)
  <1>1. /\ Good(Asked(a), r) /\ GoodScript(Asked(a), rest)
        /\ Moves(a, r, rest)
    BY StepMoves
  <1> HIDE DEF r, rest
  <1>2. IsPortal(portal')
    BY <1>1 DEF Moves, Outcome, Sound
  <1>3. Kept(a)
    BY <1>1 DEF Moves
  <1>4. \A b \in Actors : Asked(b)' = Asked(b)
    BY <1>3 DEF Kept, Asked
  <1>5. ASSUME NEW more, Goes(a, more \o rest, session[a].failed), GoodScript(Asked(a), more)
        PROVE  DOMAIN session'[a] = SessionFields /\ GoodScript(Asked(a), session'[a].todo)
    BY <1>1, <1>5, GoodConcat DEF Goes
  <1>6. DOMAIN session'[a] = SessionFields /\ GoodScript(Asked(a), session'[a].todo)
    <2>1. CASE WorkAccepts(portal, r) /\ GoesOn(a, r, rest) /\ (r.op = "invoice" => portal' = portal)
      BY <2>1, <1>1, <1>2, <1>5, AcceptedInvoice, WorkThenIsGood DEF GoesOn
    <2>2. CASE GoesElsewhere(a, r, rest)
      BY <1>1, <1>5, <2>2, AlternativesAreGood, NoScript DEF Goes, GoesElsewhere
    <2> QED BY <1>1, <2>1, <2>2 DEF Moves
  <1>7. \A b \in Actors : DOMAIN session'[b] = SessionFields /\ GoodScript(Asked(b), session'[b].todo)
    BY <1>3, <1>6 DEF Kept, Sound
  <1> QED BY <1>2, <1>3, <1>4, <1>7 DEF Sound, Kept

LEMMA StaysSound == Sound /\ [Next]_vars => Sound'
  BY MovesSoundly DEF vars, Sound, Asked, Next, Finished
-----------------------------------------------------------------------------
(* Linking people: as long as the command goes on, a request to come will  *)
(* see to everybody who is not linked yet.                                 *)

LEMMA ContactsOnlyGrow ==
  ASSUME NEW p, NEW q, ContactsGrow(p, q), NEW at
  PROVE  ContactsOf(p, at) \subseteq ContactsOf(q, at)
  BY DEF ContactsGrow, ContactsOf

LEMMA CarriesOn ==
  ASSUME NEW p, NEW q, ContactsGrow(p, q), q.people = p.people, NEW r
  PROVE  /\ \A x : Carries(p, x, r) => Carries(q, x, r)
         /\ AllLinked(p, r) => AllLinked(q, r)
  BY ContactsOnlyGrow DEF Left, LinkedBut, AllLinked, Carries

LEMMA SureRequests ==
  ASSUME NEW op, NEW at, NEW val, NEW use, NEW extra
  PROVE  /\ Sure(For(use, Must(op, at, val)), op, at, val, use, <<>>)
         /\ Sure([For(use, Must(op, at, val)) EXCEPT !.extra = extra, !.counts = TRUE], op, at, val, use, extra)
  BY DEF Sure, Is, Request, Must, For, RequestFields

LEMMA InScript ==
  ASSUME NEW q
  PROVE  q \in ToSet(<<q>>)
  BY OneElement DEF ToSet

\* All companies are done with.
LEMMA AuthorNextCarries ==
  ASSUME NEW p, NEW r, NEW s, Left(p, r, s, {}), ToSet(s.companies) \subseteq ContactsOf(p, r.at)
  PROVE  AllLinked(p, r) \/ \E x \in ToSet(AuthorNext(r.at, s)) : Carries(p, x, r)
  <1>1. CASE s.authors = <<>>
    <2>1. ToSet(s.authors) = {}
      BY <1>1, OneElement DEF ToSet
    <2> QED BY <2>1 DEF Left, LinkedBut, AllLinked
  <1>2. CASE s.authors # <<>>
    <2> DEFINE q == For("author", Must("people", r.at, s))
    <2>1. AuthorNext(r.at, s) = <<q>>
      BY <1>2 DEF AuthorNext
    <2>2. Sure(q, "people", r.at, s, "author", <<>>)
      BY SureRequests
    <2> HIDE DEF q
    <2>3. Carries(p, q, r)
      BY <1>2, <2>2 DEF Sure, Is, Carries
    <2> QED BY <2>1, <2>3, InScript
  <1> QED BY <1>1, <1>2

LEMMA LinkOneCarries ==
  ASSUME NEW p, NEW r, NEW contact, NEW s, Left(p, r, s, {contact})
  PROVE  \E x \in ToSet(LinkOne(r.at, contact, s)) : Carries(p, x, r)
  <1> DEFINE q == [For("linked", Must("link", r.at, contact)) EXCEPT !.extra = s, !.counts = TRUE]
  <1>1. LinkOne(r.at, contact, s) = <<q>>
    BY DEF LinkOne
  <1>2. Sure(q, "link", r.at, contact, "linked", s)
    BY SureRequests
  <1> HIDE DEF q
  <1>3. Carries(p, q, r)
    BY <1>2 DEF Sure, Is, Carries
  <1> QED BY <1>1, <1>3, InScript

\* The first company that is missing, and those after it.
LEMMA PastElements ==
  ASSUME NEW s, IsLinking(s), MissingCompanies(s) # {}
  PROVE  LET c == s.companies[Min(MissingCompanies(s))]
         IN  ToSet(s.companies) \subseteq s.have \cup {c} \cup ToSet(Past(s).companies)
  <1> DEFINE m == Min(MissingCompanies(s))
             n == Len(s.companies)
             list == SubSeq(s.companies, m + 1, n)
  <1>1. /\ m \in Nat /\ n \in Nat
        /\ \A k \in DOMAIN s.companies : k < m => s.companies[k] \in s.have
    BY MissingCompaniesAreNumbers
  <1>2. DOMAIN s.companies = 1 .. n
    BY ListShape DEF IsLinking
  <1>3. Past(s).companies = list
    BY DEF Past, IsLinking
  <1> HIDE DEF m, n
  <1>4. /\ DOMAIN list = 1 .. n - (m + 1) + 1
        /\ \A i \in 1 .. n - (m + 1) + 1 : list[i] = s.companies[(m + 1) + i - 1]
    BY <1>1, SubSeqList
  <1> HIDE DEF list
  <1>5. ASSUME NEW k \in DOMAIN s.companies
        PROVE  s.companies[k] \in s.have \cup {s.companies[m]} \cup ToSet(list)
    <2>1. CASE k < m
      BY <1>1, <2>1
    <2>2. CASE k = m
      BY <2>2
    <2>3. CASE k > m
      <3> DEFINE i == k - m
      <3>1. i \in 1 .. n - (m + 1) + 1 /\ (m + 1) + i - 1 = k
        BY <1>1, <1>2, <2>3
      <3> HIDE DEF i
      <3>2. list[i] = s.companies[k] /\ i \in DOMAIN list
        BY <1>4, <3>1
      <3> QED BY <3>2 DEF ToSet
    <2> QED BY <1>1, <1>2, <2>1, <2>2, <2>3
  <1> QED BY <1>3, <1>5 DEF ToSet, m

LEMMA LinkNextCarries ==
  ASSUME NEW p, NEW r, NEW s, Left(p, r, s, {})
  PROVE  AllLinked(p, r) \/ \E x \in ToSet(LinkNext(r.at, s)) : Carries(p, x, r)
  <1> DEFINE M == MissingCompanies(s)
             c == s.companies[Min(M)]
             t == Past(s)
             u == Linked(s)
  <1>1. IsLinking(s) /\ ~s.dry /\ s.have \subseteq ContactsOf(p, r.at)
    BY DEF Left
  <1>2. LinkNext(r.at, s) = IF M # {} THEN LinkOne(r.at, c, t) ELSE AuthorNext(r.at, u)
    BY <1>1, LinkNextCases
  <1>3. CASE M # {}
    BY <1>1, <1>3, <1>2, PastIsLinking, PastElements, LinkOneCarries DEF Past, IsLinking, Left,
       LinkedBut
  <1>4. CASE M = {}
    BY <1>1, <1>4, <1>2, PastIsLinking, OneElement, AuthorNextCarries DEF Linked, IsLinking,
       MissingCompanies, ToSet, Left, LinkedBut
  <1> QED BY <1>3, <1>4

LEMMA AuthorFoundCarries ==
  ASSUME NEW p, NEW r, NEW q, q.at = r.at, q.val.authors # <<>>, Left(p, r, q.val, {}),
         ToSet(q.val.companies) \subseteq ContactsOf(p, r.at)
  PROVE  AllLinked(p, r) \/ \E x \in ToSet(AuthorFound(p, q)) : Carries(p, x, r)
  <1> DEFINE s == q.val
             t == NextAuthors(s)
             e == Head(s.authors)
  <1>1. IsLinking(s) /\ ~s.dry /\ s.have \subseteq ContactsOf(p, r.at) /\ s.authors # <<>>
    BY DEF Left
  <1>2. AuthorFound(p, q) = IF e \notin DOMAIN p.people \/ p.people[e] \in s.have THEN AuthorNext(r.at, t)
                            ELSE LinkOne(r.at, p.people[e], t)
    BY <1>1 DEF AuthorFound, NextAuthors
  <1>3. /\ IsLinking(t) /\ t.have = s.have /\ t.dry = s.dry /\ t.companies = s.companies
        /\ t.authors = Tail(s.authors)
    BY <1>1, NextAuthorsAreLinking DEF NextAuthors, IsLinking
  <1>4. ToSet(s.authors) = {e} \cup ToSet(t.authors)
    BY <1>1, <1>3, FirstAndRest DEF IsLinking
  <1> HIDE DEF e, t
  <1>5. CASE e \notin DOMAIN p.people \/ p.people[e] \in s.have
    BY <1>1, <1>3, <1>4, <1>5, <1>2, AuthorNextCarries DEF Left, LinkedBut
  <1>6. CASE ~(e \notin DOMAIN p.people \/ p.people[e] \in s.have)
    BY <1>1, <1>3, <1>4, <1>6, <1>2, LinkOneCarries DEF Left, LinkedBut
  <1> QED BY <1>5, <1>6

\* What a linking does next belongs to the projects only.
LEMMA OnlyProjectsThen ==
  ASSUME NEW p, NEW q, q.use \in {"links", "author", "linked"}, NEW x, ProjectsThen(p, q) = {x},
         NEW more \in WorkThen(p, q)
  PROVE  more = x
  BY DEF BusinessThen, Nothing, Docs!DocumentsThen, Docs!Nothing, WorkThen

LEMMA KnowingIsLinking ==
  ASSUME NEW s, IsLinking(s), NEW have
  PROVE  /\ IsLinking(Knowing(s, have)) /\ Knowing(s, have).have = have /\ Knowing(s, have).dry = s.dry
         /\ Knowing(s, have).companies = s.companies /\ Knowing(s, have).authors = s.authors
  BY DEF IsLinking, Knowing

LEMMA LinksThen ==
  ASSUME NEW p, NEW q, q.use = "links", NEW more \in WorkThen(p, q)
  PROVE  more = LinkNext(q.at, Knowing(q.val, p.projects[q.at].contacts))
  <1> DEFINE x == LinkNext(q.at, Knowing(q.val, p.projects[q.at].contacts))
  <1>1. ProjectsThen(p, q) = {x}
    BY DEF ProjectsThen, Knowing
  <1> HIDE DEF x
  <1>2. more = x
    BY <1>1, OnlyProjectsThen
  <1> QED BY <1>2 DEF x

LEMMA AuthorThen ==
  ASSUME NEW p, NEW q, q.use = "author", NEW more \in WorkThen(p, q)
  PROVE  more = AuthorFound(p, q)
  <1>1. ProjectsThen(p, q) = {AuthorFound(p, q)}
    BY DEF ProjectsThen
  <1> QED BY <1>1, OnlyProjectsThen

LEMMA LinkedThen ==
  ASSUME NEW p, NEW q, q.use = "linked", NEW more \in WorkThen(p, q)
  PROVE  more = LinkNext(q.at, Knowing(q.extra, q.extra.have \cup {q.val}))
  <1> DEFINE x == LinkNext(q.at, Knowing(q.extra, q.extra.have \cup {q.val}))
  <1>1. ProjectsThen(p, q) = {x}
    BY DEF ProjectsThen, Knowing
  <1> HIDE DEF x
  <1>2. more = x
    BY <1>1, OnlyProjectsThen
  <1> QED BY <1>2 DEF x

LEMMA NoWayRound ==
  ASSUME NEW q, q.use \in {"links", "author", "linked"}, q.ways = 1
  PROVE  Alternatives(q) = {}
  <1>1. BusinessOtherwise(q) = {}
    BY DEF BusinessOtherwise
  <1>2. Docs!DocumentsOtherwise(q) = {}
    BY DEF Docs!DocumentsOtherwise
  <1>3. WorkOtherwise(q) = {}
    BY <1>1, <1>2 DEF WorkOtherwise
  <1>4. ~(q.ways > 1)
    OBVIOUS
  <1> QED BY <1>3, <1>4 DEF Alternatives

LEMMA LinkingHas ==
  ASSUME NEW p, NEW q, WorkAccepts(p, q), q.op \in {"contacts of", "link"}
  PROVE  q.at \in DOMAIN p.projects
  BY DEF InProject, AtTask, WorkAccepts, ProjectsAccepts

\* The request that sees to the others is answered.
LEMMA CarrierAnswered ==
  ASSUME NEW p, NEW q, NEW r, NEW c, Carries(p, c, r), WorkAccepts(p, c), Outcome(p, q, c),
         ContactsGrow(p, q), NEW more \in WorkThen(q, c)
  PROVE  AllLinked(q, r) \/ \E x \in ToSet(more) : Carries(q, x, r)
  <1>1. Carries(q, c, r) /\ q.people = p.people
    BY CarriesOn DEF Outcome
  <1>2. CASE c.use = "links"
    <2> DEFINE s == Knowing(c.val, q.projects[c.at].contacts)
    <2>2. Left(q, r, c.val, {}) /\ c.at = r.at /\ c.op = "contacts of"
      BY <1>1, <1>2 DEF Carries
    <2>1. more = LinkNext(r.at, s)
      BY <1>2, <2>2, LinksThen
    <2>3. q.projects[c.at].contacts = ContactsOf(q, r.at)
      BY <2>2, LinkingHas DEF ContactsGrow, ContactsOf
    <2>4. /\ IsLinking(s) /\ s.dry = c.val.dry /\ s.have = q.projects[c.at].contacts
          /\ s.companies = c.val.companies /\ s.authors = c.val.authors
      BY <2>2, KnowingIsLinking DEF Left
    <2> HIDE DEF s
    <2>5. Left(q, r, s, {})
      BY <2>2, <2>3, <2>4 DEF Left, LinkedBut
    <2> QED BY <2>1, <2>5, LinkNextCarries
  <1>3. CASE c.use = "author"
    BY <1>3, <1>1, AuthorThen, AuthorFoundCarries DEF Carries
  <1>4. CASE c.use = "linked"
    <2> DEFINE s == Knowing(c.extra, c.extra.have \cup {c.val})
    <2>2. Left(q, r, c.extra, {c.val}) /\ c.at = r.at /\ c.op = "link"
      BY <1>1, <1>4 DEF Carries
    <2>1. more = LinkNext(r.at, s)
      BY <1>4, <2>2, LinkedThen
    <2>3. c.val \in ContactsOf(q, r.at)
      BY <2>2, LinkingHas DEF ContactsGrow, ContactsOf, Outcome
    <2>4. /\ IsLinking(s) /\ s.dry = c.extra.dry /\ s.have = c.extra.have \cup {c.val}
          /\ s.companies = c.extra.companies /\ s.authors = c.extra.authors
      BY <2>2, KnowingIsLinking DEF Left
    <2> HIDE DEF s
    <2>5. Left(q, r, s, {})
      BY <2>2, <2>3, <2>4 DEF Left, LinkedBut
    <2> QED BY <2>1, <2>5, LinkNextCarries
  <1> QED BY <1>1, <1>2, <1>3, <1>4 DEF Carries

\* What nobody asks for, nobody sends.
LEMMA NobodyDoes ==
  ASSUME Sound, NEW ops, ops \subseteq OnlyAsked,
         ops \cap {"add task", "drop folder", "rename folder", "rename file", "put invoice", "save draft",
                   "open", "drop file", "update"} = {},
         NobodySends(ops), NEW a \in Actors, NEW r, Good(Asked(a), r)
  PROVE  r.op \notin ops
  <1>1. ASSUME NEW j \in ToSet(jobs[a]) PROVE Asks(j) \cap ops = {}
    <2>1. PICK i \in DOMAIN jobs[a] : j = jobs[a][i]
      BY DEF ToSet
    <2>2. j.use \in Openings
      BY <2>1, JobsAssumption DEF Sound, IsOpening
    <2>3. j.op \notin ops
      BY <2>1 DEF NobodySends, Sends
    <2>4. j.use # "stat file"
      BY <2>2 DEF Openings
    <2>5. j.use = "stat" => j.val.op \notin ops
      BY <2>1 DEF NobodySends, Sends
    <2>6. \A op : op \notin ops => Brings(op) \cap ops = {}
      BY DEF Brings
    <2> QED BY <2>3, <2>4, <2>5, <2>6 DEF Asks
  <1>2. r.op \in Asks(r) \cup {"save draft"} /\ Asks(r) \cap OnlyAsked \subseteq Asked(a)
    BY DEF Asks, Good
  <1>3. Asked(a) \cap ops = {}
    BY <1>1 DEF Asked
  <1>4. "save draft" \notin ops
    OBVIOUS
  <1>5. r.op \in ops => r.op \in Asks(r) \cap OnlyAsked
    BY <1>2, <1>4
  <1> QED BY <1>2, <1>3, <1>5

LEMMA LinkingBegins == Init => LinkingGoesOn
  <1> SUFFICES ASSUME Init, NEW a \in Actors, NEW r \in Linking(a) PROVE SeenTo(a, r)
    BY DEF LinkingGoesOn
  <1>1. /\ jobs \in Jobs /\ session = [b \in Actors |-> Fresh(jobs[b])]
    BY DEF Init
  <1>2. session[a].todo = jobs[a]
    BY <1>1 DEF Fresh
  <1>3. r \in ToSet(jobs[a]) /\ r.use = "links" /\ ~r.val.dry
    BY DEF Linking
  <1>4. IsOpening(r)
    BY <1>1, <1>3, JobsAssumption DEF ToSet
  <1>5. r = Head(LinkPeople(r.at, r.val.companies, r.val.authors, r.val.dry)) /\ IsLinking(r.val)
    BY <1>3, <1>4 DEF IsOpening, IsRequest, Fits
  <1>6. r.onErr = "stop" /\ r.ways = 1 /\ r.op = "contacts of" /\ r.val.have = {}
    <2> DEFINE s == [have |-> {}, companies |-> r.val.companies, authors |-> r.val.authors, dry |-> r.val.dry]
               q == For("links", Must("contacts of", r.at, s))
    <2>1. LinkPeople(r.at, r.val.companies, r.val.authors, r.val.dry) = <<q>>
      BY DEF LinkPeople
    <2>2. Sure(q, "contacts of", r.at, s, "links", <<>>)
      BY SureRequests
    <2>3. s.have = {}
      OBVIOUS
    <2> HIDE DEF q
    <2>4. r = q
      <3>1. Head(<<q>>) = q
        OBVIOUS
      <3> QED BY <1>5, <2>1, <3>1
    <2> QED BY <2>2, <2>3, <2>4 DEF Sure, Is
  <1>7. Carries(portal, r, r)
    BY <1>3, <1>5, <1>6 DEF Carries, Left, LinkedBut
  <1> QED BY <1>2, <1>3, <1>7 DEF SeenTo

LEMMA LinkingMoves ==
  ASSUME Sound, LinkingGoesOn, NEW a \in Actors, Step(a)
  PROVE  LinkingGoesOn'
  <1> DEFINE h == Head(session[a].todo)
             rest == Tail(session[a].todo)
  <1>1. /\ session[a].todo # <<>> /\ Good(Asked(a), h) /\ GoodScript(Asked(a), rest)
        /\ Moves(a, h, rest)
    BY StepMoves
  <1>2. ToSet(session[a].todo) = {h} \cup ToSet(rest)
    BY <1>1, FirstAndRest DEF Sound, GoodScript
  <1> HIDE DEF h, rest
  <1>3. Kept(a)
    BY <1>1 DEF Moves
  <1>4. SUFFICES ASSUME NobodySends(Removals), NEW b \in Actors, NEW r \in Linking(b)
                 PROVE  SeenTo(b, r)'
    BY <1>3 DEF Kept, NobodySends, Sends, Linking, LinkingGoesOn
  <1>5. SeenTo(b, r)
    BY <1>4 DEF LinkingGoesOn
  <1>6. ContactsGrow(portal, portal') /\ portal'.people = portal.people
    BY <1>1, <1>4, NobodyDoes DEF Removals, OnlyAsked, Moves, Outcome, ContactsGrow
  <1>7. /\ AllLinked(portal, r) => AllLinked(portal', r)
        /\ \A x : Carries(portal, x, r) => Carries(portal', x, r)
    BY <1>6, CarriesOn
  <1>8. CASE b # a
    BY <1>3, <1>8, <1>5, <1>7 DEF Kept, SeenTo
  <1>9. CASE b = a
    <2>1. CASE AllLinked(portal, r)
      BY <1>7, <2>1 DEF SeenTo
    <2>2. CASE session'[a].failed
      BY <1>9, <2>2 DEF SeenTo
    <2>3. CASE ~session'[a].failed /\ ~AllLinked(portal, r)
      <3>1. ~session[a].failed
        BY <1>1, <2>3 DEF Moves, GoesOn, GoesElsewhere, Goes
      <3>2. PICK c \in ToSet(session[a].todo) : Carries(portal, c, r)
        BY <1>5, <1>9, <2>3, <3>1 DEF SeenTo
      <3>3. Carries(portal', c, r)
        BY <1>7, <3>2
      <3>4. ASSUME NEW more, IsList(more), Goes(a, more \o rest, session[a].failed)
            PROVE  ToSet(session'[a].todo) = ToSet(more) \cup ToSet(rest)
        BY <1>1, <3>4, ConcatElements DEF Goes, GoodScript
      <3>5. CASE c \in ToSet(rest)
        <4>1. CASE GoesOn(a, h, rest) /\ WorkAccepts(portal, h) /\ (h.op = "invoice" => portal' = portal)
          <5>1. PICK more \in WorkThen(portal', h) : Goes(a, more \o rest, session[a].failed)
            BY <4>1 DEF GoesOn
          <5>2. IsPortal(portal') /\ (h.op = "invoice" => h.at \in DOMAIN portal'.invoices)
            BY <1>1, <4>1, AcceptedInvoice DEF Moves, Outcome, Sound
          <5>3. IsList(more)
            BY <1>1, <5>1, <5>2, WorkThenIsGood DEF GoodScript
          <5> QED BY <1>9, <3>3, <3>4, <3>5, <5>1, <5>3 DEF SeenTo
        <4>2. CASE GoesElsewhere(a, h, rest)
          <5>1. CASE \E more \in Alternatives(h) : Goes(a, more \o rest, session[a].failed)
            BY <5>1, <1>1, <1>9, <3>3, <3>4, <3>5, AlternativesAreGood DEF GoodScript, SeenTo
          <5>2. CASE Goes(a, <<>>, TRUE)
            BY <2>3, <5>2 DEF Goes
          <5>3. CASE Goes(a, rest, session[a].failed)
            BY <1>9, <3>3, <3>5, <5>3 DEF Goes, SeenTo
          <5> QED BY <4>2, <5>1, <5>2, <5>3 DEF GoesElsewhere
        <4> QED BY <1>1, <4>1, <4>2 DEF Moves
      <3>6. CASE c = h
        <4>1. Alternatives(h) = {} /\ h.onErr = "stop"
          <5>1. h.use \in {"links", "author", "linked"} /\ h.ways = 1 /\ h.onErr = "stop"
            BY <3>2, <3>6 DEF Carries
          <5> QED BY <5>1, NoWayRound
        <4>2. ~GoesElsewhere(a, h, rest)
          BY <2>3, <4>1 DEF GoesElsewhere, Goes
        <4>3. GoesOn(a, h, rest) /\ WorkAccepts(portal, h) /\ (h.op = "invoice" => portal' = portal)
              /\ Outcome(portal, portal', h)
          BY <1>1, <4>2 DEF Moves
        <4>4. PICK more \in WorkThen(portal', h) : Goes(a, more \o rest, session[a].failed)
          BY <4>3 DEF GoesOn
        <4>5. IsPortal(portal') /\ (h.op = "invoice" => h.at \in DOMAIN portal'.invoices)
          BY <4>3, AcceptedInvoice DEF Outcome, Sound
        <4>6. IsList(more)
          BY <1>1, <4>4, <4>5, WorkThenIsGood DEF GoodScript
        <4>7. AllLinked(portal', r) \/ \E x \in ToSet(more) : Carries(portal', x, r)
          BY <1>6, <3>2, <3>6, <4>3, <4>4, CarrierAnswered
        <4>8. ToSet(session'[a].todo) = ToSet(more) \cup ToSet(rest)
          BY <3>4, <4>4, <4>6
        <4> QED BY <1>9, <4>7, <4>8 DEF SeenTo
      <3> QED BY <1>2, <3>2, <3>5, <3>6
    <2> QED BY <2>1, <2>2, <2>3
  <1> QED BY <1>8, <1>9

LEMMA LinkingEnds == Sound /\ LinkingGoesOn => EverybodyIsLinked
  <1> SUFFICES ASSUME Sound, LinkingGoesOn, NobodySends(Removals), NEW a \in Actors, Succeeded(a),
                      NEW i \in DOMAIN jobs[a], NEW r, r = jobs[a][i], r.use = "links", ~r.val.dry
               PROVE  /\ ToSet(r.val.companies) \subseteq portal.projects[r.at].contacts
                      /\ \A e \in ToSet(r.val.authors) \cap DOMAIN portal.people :
                            portal.people[e] \in portal.projects[r.at].contacts
    BY DEF EverybodyIsLinked
  <1>1. SeenTo(a, r)
    BY DEF LinkingGoesOn, Linking, ToSet
  <1>2. session[a].todo = <<>> /\ ~session[a].failed
    BY DEF Succeeded, Ended
  <1>3. ToSet(session[a].todo) = {}
    BY <1>2, OneElement DEF ToSet
  <1>4. AllLinked(portal, r)
    BY <1>1, <1>2, <1>3 DEF SeenTo
  <1>5. ContactsOf(portal, r.at) \subseteq portal.projects[r.at].contacts
    BY DEF ContactsOf
  <1> QED BY <1>4, <1>5 DEF AllLinked, LinkedBut

\* cmd/oo/projects.go:666: whoever else works on the projects and whatever requests are lost,
\* as long as nobody removes things, a linking that succeeds has linked all its companies and
\* all its authors that are contacts.
THEOREM PeopleAreLinked == Spec => []EverybodyIsLinked
  <1>1. Init => Sound /\ LinkingGoesOn
    BY BeginsSound, LinkingBegins
  <1>2. Sound /\ LinkingGoesOn /\ [Next]_vars => (Sound /\ LinkingGoesOn)'
    BY StaysSound, MovesSoundly, LinkingMoves DEF vars, LinkingGoesOn, Linking, SeenTo,
       NobodySends, Sends, Next, Finished
  <1> QED BY <1>1, <1>2, LinkingEnds, PTL DEF Spec
-----------------------------------------------------------------------------
(* Invoices, their copies and mail under the requests of everybody.        *)

\* No invoice, copy or mail is touched.
LEMMA ElsewhereKeeps ==
  ASSUME NEW p, IsPortal(p), NEW q, q.invoices = p.invoices, q.copies = p.copies, q.mails = p.mails,
         q.next \in Nat, q.next >= p.next
  PROVE  Keeps(p, q)
  <1>1. p.next \in Nat
    BY DEF IsPortal
  <1>2. ASSUME NEW i \in DOMAIN p.invoices PROVE KeepsInvoice(p, q, i)
    <2>1. p.invoices[i].rev \in Nat
      BY InvoiceRecords
    <2> QED BY <2>1 DEF KeepsInvoice, SameNotes
  <1>3. KeepsCopies(p, q)
    BY <1>1 DEF KeepsCopies
  <1> QED BY <1>2, <1>3 DEF Keeps, KeepsMails

LEMMA KeepsTwice ==
  ASSUME NEW p, IsPortal(p), NEW q, IsPortal(q), NEW s, IsPortal(s), Keeps(p, q), Keeps(q, s)
  PROVE  Keeps(p, s)
  <1>1. KeepsCopies(p, s)
    BY DEF Keeps, KeepsCopies
  <1>2. KeepsMails(p, s)
    BY DEF Keeps, KeepsMails
  <1>3. ASSUME NEW i \in DOMAIN p.invoices PROVE KeepsInvoice(p, s, i)
    <2>1. KeepsInvoice(p, q, i) /\ KeepsInvoice(q, s, i)
      BY DEF Keeps, KeepsInvoice
    <2>2. /\ p.invoices[i].rev \in Nat /\ q.invoices[i].rev \in Nat /\ s.invoices[i].rev \in Nat
          /\ q.invoices[i].pdf \in 0 .. q.next - 1 /\ s.invoices[i].pdf \in 0 .. s.next - 1
          /\ p.next \in Nat /\ q.next \in Nat /\ s.next \in Nat /\ p.next <= q.next
      BY <2>1, InvoiceRecords DEF KeepsInvoice, Keeps, KeepsCopies
    <2>3. s.invoices[i].rev >= p.invoices[i].rev
      BY <2>1, <2>2 DEF KeepsInvoice
    <2>4. \A c : FreshCopy(s, c, q.invoices[i]) => FreshCopy(s, c, p.invoices[i])
      BY <2>1, <2>2 DEF FreshCopy, KeepsInvoice
    <2>5. \A c \in 0 .. q.next - 1 : FreshCopy(q, c, p.invoices[i]) => FreshCopy(s, c, p.invoices[i])
      BY <2>2 DEF Keeps, KeepsCopies, FreshCopy
    <2>6. CASE NewPDF(q, s, i)
      <3>1. NewPDF(p, s, i)
        BY <2>2, <2>4, <2>6 DEF NewPDF
      <3> QED BY <2>1, <2>3, <3>1 DEF KeepsInvoice
    <2>7. CASE SameNotes(q.invoices[i], s.invoices[i]) /\ NewPDF(p, q, i)
      <3>1. NewPDF(p, s, i)
        BY <2>2, <2>5, <2>7 DEF NewPDF, SameNotes
      <3> QED BY <2>1, <2>3, <3>1 DEF KeepsInvoice
    <2>8. CASE SameNotes(q.invoices[i], s.invoices[i]) /\ SameNotes(p.invoices[i], q.invoices[i])
      BY <2>1, <2>3, <2>8 DEF KeepsInvoice, SameNotes
    <2> QED BY <2>1, <2>6, <2>7, <2>8 DEF KeepsInvoice
  <1> QED BY <1>1, <1>2, <1>3 DEF Keeps

LEMMA AddedKeeps ==
  ASSUME NEW p, IsPortal(p), NEW q, NEW kind \in Kinds, NEW x, Added(p, q, kind, x)
  PROVE  Keeps(p, q)
  <1>1. p.next \in Nat \ {0} /\ q.next = p.next + 1
    BY DEF Added
  <1>2. /\ \A i \in DOMAIN p.invoices : i \in DOMAIN q.invoices /\ q.invoices[i] = p.invoices[i]
        /\ \A i \in DOMAIN p.mails : i \in DOMAIN q.mails /\ q.mails[i] = p.mails[i]
        /\ \A i \in DOMAIN q.copies : i = p.next \/ (i \in DOMAIN p.copies /\ q.copies[i] = p.copies[i])
    BY DEF IsPortal, Kinds, Added
  <1>3. KeepsCopies(p, q)
    BY <1>1, <1>2 DEF KeepsCopies
  <1>4. ASSUME NEW i \in DOMAIN p.invoices PROVE KeepsInvoice(p, q, i)
    <2>1. p.invoices[i].rev \in Nat
      BY InvoiceRecords
    <2> QED BY <1>2, <2>1 DEF KeepsInvoice, SameNotes
  <1>5. KeepsMails(p, q)
    BY <1>2 DEF KeepsMails
  <1> QED BY <1>3, <1>4, <1>5 DEF Keeps

LEMMA ChangedKeeps ==
  ASSUME NEW p, IsPortal(p), NEW q, NEW kind \in Kinds \ {"invoices", "copies", "mails"}, NEW f, Changed(p, q, kind, f)
  PROVE  Keeps(p, q)
  BY ElsewhereKeeps DEF IsPortal, Kinds, Changed

\* An invoice is changed, but for its number and status.
LEMMA InvoiceKeeps ==
  ASSUME NEW p, IsPortal(p), NEW at \in DOMAIN p.invoices, NEW x,
         DOMAIN x = InvoiceFields, x.pdf \in 0 .. p.next - 1,
         x.number = p.invoices[at].number, x.status = p.invoices[at].status,
         x.rev \in Nat, x.rev >= p.invoices[at].rev, SameNotes(p.invoices[at], x) \/ x.pdf = NoFile,
         NEW q, q = WithRecord(p, "invoices", at, x)
  PROVE  Keeps(p, q)
  <1> DEFINE kind == "invoices"
             f == [p[kind] EXCEPT ![at] = x]
  <1>1. kind \in Kinds /\ IsRecord(kind, x, p.next)
    BY DEF Kinds, IsRecord
  <1>2. Changed(p, q, kind, f)
    BY <1>1, RecordOutcome DEF kind
  <1>3. f[at] = x /\ DOMAIN f = DOMAIN p.invoices /\ \A i \in DOMAIN p.invoices \ {at} : f[i] = p.invoices[i]
    OBVIOUS
  <1>4. {"copies", "mails"} \subseteq DOMAIN p \ {kind}
    BY DEF IsPortal, Kinds
  <1>5. q.invoices = f /\ q.copies = p.copies /\ q.mails = p.mails /\ q.next = p.next /\ p.next \in Nat
    BY <1>2, <1>4 DEF Changed, IsPortal
  <1> HIDE DEF f
  <1>6. ASSUME NEW i \in DOMAIN p.invoices PROVE KeepsInvoice(p, q, i)
    BY <1>3, <1>5, InvoiceRecords DEF KeepsInvoice, SameNotes, NewPDF
  <1>7. KeepsCopies(p, q)
    BY <1>5 DEF KeepsCopies
  <1> QED BY <1>5, <1>6, <1>7 DEF Keeps, KeepsMails

LEMMA PutKeeps ==
  ASSUME NEW p, IsPortal(p), NEW at \in DOMAIN p.invoices, NEW body, DOMAIN body = InvoiceFields,
         body.number = p.invoices[at].number,
         NEW q, q = WithRecord(p, "invoices", at, PutInvoice(p.invoices[at], body))
  PROVE  /\ Keeps(p, q)
         /\ q.invoices[at].pdf = NoFile \/ (body.note = p.invoices[at].note /\ body.spaced = p.invoices[at].spaced)
  <1> DEFINE old == p.invoices[at]
             pdf == IF body.note # old.note \/ body.spaced # old.spaced THEN NoFile ELSE old.pdf
             x == PutInvoice(old, body)
  <1>1. old.rev \in Nat /\ old.pdf \in 0 .. p.next - 1 /\ 0 \in 0 .. p.next - 1
    BY InvoiceRecords
  <1>2. x = [body EXCEPT !.rev = old.rev, !.status = old.status, !.pdf = pdf]
    BY DEF PutInvoice
  <1>3. pdf \in 0 .. p.next - 1
    BY <1>1 DEF NoFile
  <1>4. \/ body.note = old.note /\ body.spaced = old.spaced /\ pdf = old.pdf
        \/ pdf = NoFile
    OBVIOUS
  <1> HIDE DEF pdf
  <1>5. /\ DOMAIN x = InvoiceFields /\ x.rev = old.rev /\ x.pdf = pdf /\ x.status = old.status
        /\ x.number = body.number /\ x.note = body.note /\ x.spaced = body.spaced
    BY <1>2 DEF InvoiceFields
  <1> HIDE DEF x
  <1>6. x.rev >= old.rev /\ x.rev \in Nat /\ x.pdf \in 0 .. p.next - 1
    BY <1>1, <1>3, <1>5
  <1>7. SameNotes(old, x) \/ x.pdf = NoFile
    BY <1>4, <1>5 DEF SameNotes
  <1>8. q = WithRecord(p, "invoices", at, x)
    BY DEF x
  <1>9. Keeps(p, q)
    BY <1>5, <1>6, <1>7, <1>8, InvoiceKeeps
  <1>10. q.invoices[at] = x
    BY <1>8 DEF IsPortal, Kinds, WithRecord, With
  <1> QED BY <1>4, <1>5, <1>9, <1>10

LEMMA LayoutKeeps ==
  ASSUME NEW p, IsPortal(p), NEW at \in DOMAIN p.invoices,
         NEW q, q = WithRecord(p, "invoices", at, [p.invoices[at] EXCEPT !.rev = @ + 1])
  PROVE  Keeps(p, q)
  <1> DEFINE old == p.invoices[at]
             rev == old.rev + 1
             x == [old EXCEPT !.rev = rev]
  <1>1. DOMAIN old = InvoiceFields /\ old.pdf \in 0 .. p.next - 1 /\ old.rev \in Nat
    BY InvoiceRecords
  <1>a. rev \in Nat /\ rev >= old.rev
    BY <1>1
  <1> HIDE DEF rev
  <1>2. /\ DOMAIN x = InvoiceFields /\ x.rev = rev /\ x.pdf = old.pdf /\ x.number = old.number
        /\ x.status = old.status /\ x.note = old.note /\ x.spaced = old.spaced
    BY <1>1 DEF InvoiceFields
  <1>3. q = WithRecord(p, "invoices", at, x)
    BY DEF rev
  <1> HIDE DEF x
  <1>4. SameNotes(old, x)
    BY <1>2 DEF SameNotes
  <1> QED BY <1>1, <1>a, <1>2, <1>3, <1>4, InvoiceKeeps

\* The PDF is made under a new number, from the invoice as it is.
LEMMA PDFKeeps ==
  ASSUME NEW p, IsPortal(p), NEW at \in DOMAIN p.invoices, NEW q, q = MakePDF(p, at)
  PROVE  Keeps(p, q) /\ q.invoices[at].pdf # NoFile
  <1> DEFINE inv == p.invoices[at]
             copy == [title |-> inv.number, on |-> {inv.contact, inv.deal}, rev |-> inv.rev]
             kind == "copies"
             p1 == Add(p, kind, copy)
             x == [p1.invoices[at] EXCEPT !.pdf = p.next]
             f == [p1.invoices EXCEPT ![at] = x]
  <1>0. /\ DOMAIN inv = InvoiceFields /\ inv.rev \in Nat /\ inv.pdf \in 0 .. p.next - 1
        /\ p.next \in Nat \ {0}
    BY InvoiceRecords
  <1>1. CASE inv.pdf # NoFile
    BY <1>1, <1>0, ElsewhereKeeps DEF MakePDF
  <1>2. CASE inv.pdf = NoFile
    <2>0. q = [p1 EXCEPT !.invoices[at].pdf = p.next]
      BY <1>2 DEF MakePDF, NewId
    <2>a. p1 = Add(p, kind, copy) /\ kind \in Kinds /\ IsRecord(kind, copy, p.next + 1)
      BY AnyRecord DEF Kinds
    <2>b. {"invoices", "mails"} \subseteq DOMAIN p \ {kind, "next"} /\ "next" \in DOMAIN p /\ kind \in DOMAIN p
      BY DEF Kinds, IsPortal
    <2>c. copy.title = inv.number /\ copy.rev = inv.rev
      OBVIOUS
    <2> HIDE DEF p1, copy
    <2>1. Added(p, p1, kind, copy)
      <3> HIDE DEF kind
      <3> QED BY <2>a, AddOutcome
    <2>2. /\ p1.invoices = p.invoices /\ p1.mails = p.mails /\ p1.next = p.next + 1 /\ DOMAIN p1 = DOMAIN p
          /\ DOMAIN p1.copies = DOMAIN p.copies \cup {p.next} /\ p1.copies[p.next] = copy
          /\ \A c \in DOMAIN p.copies : p1.copies[c] = p.copies[c]
      BY <2>1, <2>b DEF Added
    <2>3. /\ x.pdf = p.next /\ x.number = inv.number /\ x.status = inv.status /\ x.rev = inv.rev
      BY <1>0, <2>2 DEF InvoiceFields
    <2>4. f[at] = x /\ DOMAIN f = DOMAIN p.invoices /\ \A i \in DOMAIN p.invoices \ {at} : f[i] = p.invoices[i]
      BY <2>2
    <2>5. /\ q.invoices = f /\ q.copies = p1.copies /\ q.mails = p.mails /\ q.next = p1.next
      BY <2>0, <2>2, <2>b
    <2> HIDE DEF x, f
    <2>6. p.next # NoFile /\ p.next >= p.next /\ p.next \in p.next .. q.next - 1 /\ q.next \in Nat /\ p.next <= q.next
      BY <1>0, <2>2, <2>5 DEF NoFile
    <2>7. FreshCopy(q, p.next, inv)
      BY <1>0, <2>2, <2>5, <2>c DEF FreshCopy
    <2>8. ASSUME NEW i \in DOMAIN p.invoices PROVE KeepsInvoice(p, q, i)
      BY <2>4, <2>5, <2>3, <2>6, <2>7, InvoiceRecords DEF KeepsInvoice, SameNotes, NewPDF
    <2>9. KeepsCopies(p, q)
      BY <1>0, <2>2, <2>5, <2>6 DEF KeepsCopies
    <2>10. q.invoices[at].pdf = p.next
      BY <2>3, <2>4, <2>5
    <2> QED BY <2>5, <2>6, <2>8, <2>9, <2>10 DEF Keeps, KeepsMails
  <1> QED BY <1>1, <1>2

LEMMA CopiesDroppedKeeps ==
  ASSUME NEW p, IsPortal(p), NEW S, NEW q, q = With(p, "copies", Drop(p.copies, S))
  PROVE  Keeps(p, q)
  <1> DEFINE kind == "copies"
             f == Drop(p[kind], S)
  <1>1. Changed(p, q, kind, f)
    BY DropOutcome DEF Kinds
  <1>2. {"invoices", "mails"} \subseteq DOMAIN p \ {kind}
    BY DEF IsPortal, Kinds
  <1>3. q.copies = f /\ q.invoices = p.invoices /\ q.mails = p.mails /\ q.next = p.next /\ p.next \in Nat
    BY <1>1, <1>2 DEF Changed, IsPortal
  <1>4. \A c \in DOMAIN f : c \in DOMAIN p.copies /\ f[c] = p.copies[c]
    BY DEF Drop, Restrict
  <1> HIDE DEF f, kind
  <1>5. KeepsCopies(p, q)
    BY <1>3, <1>4 DEF KeepsCopies
  <1>6. ASSUME NEW i \in DOMAIN p.invoices PROVE KeepsInvoice(p, q, i)
    <2>1. p.invoices[i].rev \in Nat
      BY InvoiceRecords
    <2> QED BY <1>3, <2>1 DEF KeepsInvoice, SameNotes
  <1> QED BY <1>3, <1>5, <1>6 DEF Keeps, KeepsMails

LEMMA AttachKeeps ==
  ASSUME NEW p, IsPortal(p), NEW at \in DOMAIN p.mails, NEW c,
         NEW q, q = WithRecord(p, "mails", at, [p.mails[at] EXCEPT !.parts = @ \cup {c}])
  PROVE  /\ Keeps(p, q)
         /\ at \in DOMAIN q.mails /\ c \in q.mails[at].parts /\ q.mails[at].to = p.mails[at].to
  <1> DEFINE kind == "mails"
             x == [p.mails[at] EXCEPT !.parts = @ \cup {c}]
             f == [p[kind] EXCEPT ![at] = x]
  <1>1. kind \in Kinds /\ DOMAIN p.mails[at] = MailFields
    BY Records DEF Kinds, IsRecord
  <1>2. /\ DOMAIN x = MailFields /\ x.to = p.mails[at].to
        /\ x.parts = p.mails[at].parts \cup {c}
    BY <1>1 DEF MailFields
  <1>3. f[at] = x /\ DOMAIN f = DOMAIN p.mails /\ \A i \in DOMAIN p.mails \ {at} : f[i] = p.mails[i]
    OBVIOUS
  <1> HIDE DEF x
  <1>4. Changed(p, q, kind, f)
    BY <1>2, <1>1, RecordOutcome DEF IsRecord, x
  <1>5. {"invoices", "copies"} \subseteq DOMAIN p \ {kind}
    BY DEF IsPortal, Kinds
  <1>6. q.mails = f /\ q.invoices = p.invoices /\ q.copies = p.copies /\ q.next = p.next /\ p.next \in Nat
    BY <1>4, <1>5 DEF Changed, IsPortal
  <1> HIDE DEF f, kind
  <1>7. KeepsMails(p, q)
    BY <1>2, <1>3, <1>6 DEF KeepsMails
  <1>8. KeepsCopies(p, q)
    <2>1. q.copies = p.copies /\ p.next \in Nat /\ q.next \in Nat /\ p.next <= q.next
      BY <1>6
    <2> QED BY <2>1 DEF KeepsCopies
  <1>9. ASSUME NEW i \in DOMAIN p.invoices PROVE KeepsInvoice(p, q, i)
    <2>1. p.invoices[i].rev \in Nat
      BY InvoiceRecords
    <2> QED BY <1>6, <2>1 DEF KeepsInvoice, SameNotes
  <1> QED BY <1>2, <1>3, <1>6, <1>7, <1>8, <1>9 DEF Keeps

LEMMA DocumentsLeaveBusiness ==
  ASSUME NEW p, IsPortal(p), NEW r, NEW q, q = Docs!DocumentsEffect(p, r)
  PROVE  q.invoices = p.invoices /\ q.copies = p.copies /\ q.mails = p.mails
  <1>0. /\ "invoices" \in DOMAIN p /\ "copies" \in DOMAIN p /\ "mails" \in DOMAIN p
    BY DEF IsPortal, Kinds
  <1>1. CASE r.op = "upload"
    BY <1>1, <1>0 DEF Docs!DocumentsEffect, Docs!Upload, Docs!Add
  <1>2. CASE r.op = "update"
    BY <1>2, <1>0 DEF Docs!DocumentsEffect, Docs!Update
  <1>3. CASE r.op = "mkdir"
    BY <1>3, <1>0 DEF Docs!DocumentsEffect, Docs!Add
  <1>4. CASE r.op = "move items"
    BY <1>4, <1>0 DEF Docs!DocumentsEffect, Docs!MoveItems
  <1>5. CASE r.op = "copy items"
    BY <1>5, <1>0 DEF Docs!DocumentsEffect, Docs!CopyItems
  <1>6. CASE r.op = "drop folder"
    BY <1>6, <1>0 DEF Docs!DocumentsEffect, Docs!DropFolder
  <1>7. CASE r.op \in {"rename folder", "rename file", "drop file", "attach file", "detach file"}
    BY <1>0, <1>7 DEF Docs!DocumentsEffect
  <1>8. CASE r.op \in {"open", "fetch", "write", "remove"}
    BY <1>0, <1>8 DEF Docs!DocumentsEffect
  <1>9. CASE r.op \notin {"upload", "update", "mkdir", "move items", "copy items", "drop folder", "rename folder",
                          "rename file", "drop file", "attach file", "detach file", "open", "fetch", "write",
                          "remove"}
    <2>1. q = p
      BY <1>9 DEF Docs!DocumentsEffect
    <2> QED BY <2>1
  <1> QED BY <1>1, <1>2, <1>3, <1>4, <1>5, <1>6, <1>7, <1>8, <1>9

LEMMA BusinessKeeps ==
  ASSUME NEW p, IsPortal(p), NEW r, IsRequest(r), Has(p, r), Sparing(p, r), NEW q, q = BusinessEffect(p, r)
  PROVE  Keeps(p, q)
  <1> DEFINE at == r.at
             val == r.val
  <1>0. p.next \in Nat \ {0}
    BY DEF IsPortal
  <1>1. CASE r.op = "add invoice"
    <2>1. DOMAIN val = InvoiceFields /\ val.rev \in Nat /\ val.pdf = NoFile /\ q = Add(p, "invoices", val)
      BY <1>1 DEF BusinessEffect, IsRequest, Fits
    <2> HIDE DEF val
    <2>2. val.pdf \in 0 .. (p.next + 1) - 1
      BY <1>0, <2>1 DEF NoFile
    <2>3. "invoices" \in Kinds /\ IsRecord("invoices", val, p.next + 1)
      BY <2>1, <2>2 DEF Kinds, IsRecord
    <2> QED BY <2>1, <2>3, AddOutcome, AddedKeeps
  <1>2. CASE r.op = "put invoice"
    BY <1>2, PutKeeps DEF BusinessEffect, WithRecord, With, IsRequest, Fits, Has, Sparing
  <1>3. CASE r.op = "layout"
    BY <1>3, LayoutKeeps DEF BusinessEffect, WithRecord, With, Has
  <1>4. CASE r.op = "pdf"
    BY <1>4, PDFKeeps DEF BusinessEffect, Has
  <1>5. CASE r.op = "drop copies"
    BY <1>5, CopiesDroppedKeeps DEF BusinessEffect, With
  <1>6. CASE r.op \in {"drop user", "drop event"}
    <2> DEFINE kind == IF r.op = "drop user" THEN "users" ELSE "events"
    <2>1. kind \in Kinds \ {"invoices", "copies", "mails"}
      BY DEF Kinds
    <2>2. q = With(p, kind, Drop(p[kind], {at}))
      BY <1>6 DEF BusinessEffect, With
    <2> HIDE DEF kind
    <2> QED BY <2>1, <2>2, DropOutcome, ChangedKeeps
  <1>7. CASE r.op \in {"send", "arrive", "save draft"}
    <2> DEFINE mail == [to |-> val, parts |-> {},
                        folder |-> CASE r.op = "send" -> "sent" [] r.op = "arrive" -> "inbox" [] OTHER -> "drafts"]
               kind == "mails"
    <2>1. q = Add(p, kind, mail)
      BY <1>7 DEF BusinessEffect, SaveDraft, Sparing
    <2>2. kind \in Kinds /\ IsRecord(kind, mail, p.next + 1)
      BY DEF Kinds, IsRecord, MailFields
    <2> HIDE DEF mail, kind
    <2> QED BY <2>1, <2>2, AddOutcome, AddedKeeps
  <1>8. CASE r.op = "attach"
    BY <1>8, AttachKeeps DEF Has, BusinessEffect, WithRecord, With
  <1>9. CASE r.op \in {"add user", "add event"}
    <2> DEFINE kind == IF r.op = "add user" THEN "users" ELSE "events"
               x == IF r.op = "add user" THEN [active |-> TRUE, name |-> val] ELSE val
    <2>1. kind \in Kinds /\ IsRecord(kind, x, p.next + 1)
      BY PlainKinds
    <2>2. q = Add(p, kind, x)
      BY <1>9 DEF BusinessEffect
    <2> HIDE DEF kind, x
    <2> QED BY <2>1, <2>2, AddOutcome, AddedKeeps
  <1>10. CASE r.op \in {"put user", "activate"}
    <2> DEFINE kind == "users"
               x == IF r.op = "put user" THEN [p.users[at] EXCEPT !.name = val]
                                         ELSE [p.users[at] EXCEPT !.active = val]
    <2>1. kind \in Kinds \ {"invoices", "copies", "mails"} /\ IsRecord(kind, x, p.next)
      BY PlainKinds DEF Kinds
    <2>2. at \in DOMAIN p[kind]
      BY <1>10 DEF Has
    <2>3. q = WithRecord(p, kind, at, x)
      BY <1>10 DEF BusinessEffect, WithRecord, With
    <2> HIDE DEF kind, x, at
    <2> QED BY <2>1, <2>2, <2>3, RecordOutcome, ChangedKeeps
  <1>11. CASE r.op \notin {"add invoice", "put invoice", "layout", "pdf", "set status", "drop invoice",
                           "drop copies", "remove mails", "drop user", "drop event", "send", "arrive",
                           "save draft", "attach", "add user", "add event", "put user", "activate"}
    <2>1. q = p
      BY <1>11 DEF BusinessEffect
    <2>2. p.next \in Nat /\ p.next >= p.next
      BY <1>0
    <2> QED BY <2>1, <2>2, ElsewhereKeeps
  <1> QED BY <1>1, <1>2, <1>3, <1>4, <1>5, <1>6, <1>7, <1>8, <1>9, <1>10, <1>11 DEF Sparing, Undoing

LEMMA EffectKeeps ==
  ASSUME NEW p, IsPortal(p), NEW r, IsRequest(r), Has(p, r), Sparing(p, r), NEW q, q = WorkEffect(p, r)
  PROVE  Keeps(p, q)
  <1>0. p.next \in Nat
    BY DEF IsPortal
  <1>1. CASE r.op \in OnProjects /\ q = ProjectsEffect(p, r)
    <2>1. ProjectsOutcome(p, q, r)
      BY <1>1, ProjectsEffectOutcome
    <2>2. {"invoices", "copies", "mails"} \subseteq DOMAIN p \ (InWork \cup {"next"})
      BY DEF IsPortal, InWork, Kinds
    <2>3. q.invoices = p.invoices /\ q.copies = p.copies /\ q.mails = p.mails
      BY <2>1, <2>2 DEF ProjectsOutcome
    <2>4. q.next \in Nat /\ q.next >= p.next
      BY <1>0, <2>1 DEF ProjectsOutcome
    <2> QED BY <2>3, <2>4, ElsewhereKeeps
  <1>2. CASE q = BusinessEffect(p, r)
    BY <1>2, BusinessKeeps
  <1>3. CASE q = Docs!DocumentsEffect(p, r)
    <2>1. q.invoices = p.invoices /\ q.copies = p.copies /\ q.mails = p.mails
      BY <1>3, DocumentsLeaveBusiness
    <2>2. q.next \in Nat /\ q.next >= p.next
      BY <1>3, DocumentsEffectBeside DEF Beside, IsPortal
    <2> QED BY <2>1, <2>2, ElsewhereKeeps
  <1>4. CASE q = p
    BY <1>0, <1>4, ElsewhereKeeps
  <1> QED BY <1>1, <1>2, <1>3, <1>4, EffectParts
-----------------------------------------------------------------------------
(* An invoice is put back only after it was read.                          *)

LEMMA StepHappens ==
  ASSUME Sound, NEW a \in Actors, Step(a), NEW r, r = Head(session[a].todo),
         NEW rest, rest = Tail(session[a].todo)
  PROVE  Happens(a, r, rest)
  BY AnsweredGoesOn, RefusedGoesElsewhere DEF Step, Succeed, Reject, Fail, Fault, ApplyTwice,
     Happens, Others, Kept

LEMMA HappensKeeps ==
  ASSUME IsPortal(portal), NEW a, NEW r, IsRequest(r), NEW rest, Happens(a, r, rest), Sparing(portal, r)
  PROVE  IsPortal(portal') /\ Keeps(portal, portal')
  <1> DEFINE q == WorkEffect(portal, r)
  <1>1. CASE portal' = portal
    BY <1>1, ElsewhereKeeps DEF IsPortal
  <1>2. WorkAccepts(portal, r) => Has(portal, r) /\ IsPortal(q) /\ Keeps(portal, q)
    BY AcceptedHas, EffectOutcome, EffectKeeps DEF Outcome
  <1>3. CASE WorkAccepts(portal, r) /\ portal' = q
    BY <1>2, <1>3
  <1>4. CASE WorkAccepts(portal, r) /\ WorkCreates(r) /\ portal' = WorkEffect(q, r)
    BY <1>2, <1>4, CreatesAgain, EffectOutcome, EffectKeeps, KeepsTwice DEF WorkCreates,
       ProjectsCreates, BusinessCreates, Docs!DocumentsCreates, Sparing, Undoing, Outcome
  <1> QED BY <1>1, <1>3, <1>4 DEF Happens

LEMMA PutBackStays ==
  ASSUME NEW p, NEW q, Keeps(p, q), NEW x, PutBack(p, x)
  PROVE  PutBack(q, x)
  BY DEF PutBack, Keeps, KeepsInvoice

\* Who saves a draft under a number, or removes what a draft is about, was asked to.
LEMMA EverybodySpares ==
  ASSUME Sound, NobodySends(Undoing), NobodyRewritesDrafts, NEW a \in Actors, NEW r,
         Good(Asked(a), r), PutBack(portal, r)
  PROVE  Sparing(portal, r)
  <1>1. r.op \notin Undoing
    BY NobodyDoes DEF Undoing, OnlyAsked
  <1>2. ASSUME r.op = "save draft", r.at # 0 PROVE FALSE
    <2>1. "save draft" \in Asks(r) \cap OnlyAsked
      BY <1>2 DEF Asks, OnlyAsked
    <2>2. PICK j \in ToSet(jobs[a]) : "save draft" \in Asks(j)
      BY <2>1 DEF Good, Asked
    <2>3. PICK i \in DOMAIN jobs[a] : j = jobs[a][i]
      BY <2>2 DEF ToSet
    <2>4. j.use \in Openings /\ IsRequest(j)
      BY <2>3, JobsAssumption DEF Sound, IsOpening
    <2>5. ~(j.op = "save draft" /\ j.at # 0)
      BY <2>3 DEF NobodyRewritesDrafts
    <2>6. j.use \in {"stat", "stat file"} => "save draft" \notin Brings(j.val.op)
      BY <2>4 DEF IsRequest, Fits, IsJob, Brings
    <2> QED BY <2>2, <2>5, <2>6 DEF Asks
  <1> QED BY <1>1, <1>2 DEF Sparing, PutBack

LEMMA OnlyBusinessThen ==
  ASSUME NEW p, NEW q, q.use \in BusinessUses, NEW x,
         BusinessThen(p, q) = {x}, NEW more \in WorkThen(p, q)
  PROVE  more = x
  BY DEF ProjectsThen, Nothing, BusinessUses, Docs!DocumentsThen, Docs!Nothing, WorkThen

LEMMA PlainThen ==
  ASSUME NEW p, NEW q, q.use = PlainUse, NEW more \in WorkThen(p, q)
  PROVE  more = <<>>
  BY DEF ProjectsThen, Nothing, PlainUse, Docs!DocumentsThen, Docs!Nothing, BusinessThen, WorkThen

LEMMA InvoicesHaveNoOther ==
  ASSUME NEW q, q.use \in BusinessUses \cup {PlainUse}
  PROVE  WorkOtherwise(q) = {}
  BY DEF BusinessOtherwise, BusinessUses, PlainUse, Docs!DocumentsOtherwise, WorkOtherwise

LEMMA OnlyElement ==
  ASSUME NEW q
  PROVE  ToSet(<<q>>) = {q} /\ IsList(<<q>>)
  BY OneElement DEF ToSet

LEMMA UpdateIsPut ==
  ASSUME NEW p, IsPortal(p), NEW r, r.at \in DOMAIN p.invoices
  PROVE  \E x : UpdateInvoice(p, r) = <<x>> /\ PutsThem(x, p, r)
  <1> DEFINE inv == p.invoices[r.at]
             val == Noted(inv, r.val.note, r.val.spaced)
             x == Must("put invoice", r.at, val)
  <1>1. UpdateInvoice(p, r) = <<x>>
    BY DEF UpdateInvoice, Noted
  <1>2. DOMAIN inv = InvoiceFields
    BY InvoiceRecords
  <1>3. val.number = inv.number /\ val.note = r.val.note /\ val.spaced = r.val.spaced
    BY <1>2 DEF InvoiceFields, Noted
  <1> HIDE DEF val
  <1>4. /\ x.op = "put invoice" /\ x.at = r.at /\ x.val = val /\ x.use = "" /\ x.onErr = "stop" /\ x.ways = 1
    BY DEF Must, Request
  <1> HIDE DEF x
  <1>5. PutsThem(x, p, r)
    BY <1>3, <1>4 DEF PutsThem
  <1> QED BY <1>1, <1>5

LEMMA TouchIs ==
  ASSUME NEW p, NEW r
  PROVE  \E u, d : /\ Touch(p, r) = (IF CanEdit(p.invoices[r.at]) THEN <<u>> ELSE <<>>) \o <<d>>
                   /\ Rereads(u, p, r) /\ Fetches(d, r)
  <1> DEFINE inv == p.invoices[r.at]
             val == [note |-> inv.note, spaced |-> ~inv.spaced]
             u == For("update invoice", Must("invoice", r.at, val))
             d == For(r.extra, Must("pdf", r.at, r.val))
  <1>1. Touch(p, r) = (IF CanEdit(inv) THEN <<u>> ELSE <<>>) \o <<d>>
    BY DEF Touch, InvoicesUpdate, Nothing
  <1>2. val.note = inv.note /\ val.spaced = ~inv.spaced
    OBVIOUS
  <1> HIDE DEF val
  <1>3. Sure(u, "invoice", r.at, val, "update invoice", <<>>) /\ Sure(d, "pdf", r.at, r.val, r.extra, <<>>)
    BY SureRequests
  <1> HIDE DEF u, d
  <1>4. Rereads(u, p, r) /\ Fetches(d, r)
    BY <1>2, <1>3 DEF Sure, Is, Rereads, Fetches
  <1> QED BY <1>1, <1>4

\* Only the answer to a reading brings a request that puts back.
LEMMA AnsweredPutsBack ==
  ASSUME NEW p, IsPortal(p), NEW r, IsRequest(r), r.op = "invoice" => r.at \in DOMAIN p.invoices,
         PutBack(p, r), NEW more \in WorkThen(p, r), NEW x \in ToSet(more)
  PROVE  PutBack(p, x)
  <1>1. CASE r.use = "update invoice"
    <2>1. r.at \in DOMAIN p.invoices
      BY <1>1 DEF IsRequest, Fits
    <2> DEFINE y == UpdateInvoice(p, r)
    <2>2. BusinessThen(p, r) = {y} /\ r.use \in BusinessUses
      BY <1>1 DEF BusinessThen, BusinessUses
    <2>3. PICK z : y = <<z>> /\ PutsThem(z, p, r)
      BY <2>1, UpdateIsPut
    <2> HIDE DEF y
    <2>4. more = y
      BY <2>2, OnlyBusinessThen
    <2>5. x = z
      BY <2>3, <2>4, OnlyElement
    <2> QED BY <2>1, <2>3, <2>5 DEF PutBack, PutsThem
  <1>2. CASE r.use = "touch"
    <2> DEFINE y == Touch(p, r)
    <2>1. BusinessThen(p, r) = {y} /\ r.use \in BusinessUses
      BY <1>2 DEF BusinessThen, BusinessUses
    <2> HIDE DEF y
    <2>2. more = y
      BY <2>1, OnlyBusinessThen
    <2> USE DEF y
    <2>3. PICK u, d : /\ Touch(p, r) = (IF CanEdit(p.invoices[r.at]) THEN <<u>> ELSE <<>>) \o <<d>>
                      /\ Rereads(u, p, r) /\ Fetches(d, r)
      BY TouchIs
    <2>4. ToSet(<<>>) = {} /\ IsList(<<>>)
      BY OneElement DEF ToSet
    <2>5. ToSet(more) \subseteq {u, d}
      BY <2>2, <2>3, <2>4, OnlyElement, ConcatElements
    <2> QED BY <2>3, <2>5 DEF PutBack, Rereads, Fetches
  <1>3. CASE r.op = "put invoice"
    BY <1>3, PlainThen, OneElement DEF PutBack, PlainUse, ToSet
  <1>4. CASE r.use \notin {"update invoice", "touch"} /\ r.op # "put invoice"
    <2>1. Good(Asks(r), r)
      BY DEF Good
    <2>2. GoodScript(Asks(r), more)
      BY <2>1, WorkThenIsGood
    <2>3. "put invoice" \notin Asks(r)
      BY <1>4 DEF IsRequest, Fits, IsJob, Brings, Asks
    <2>4. x.op = "put invoice" => "put invoice" \in Asks(x) \cap OnlyAsked
      BY DEF Asks, OnlyAsked
    <2> QED BY <2>2, <2>3, <2>4 DEF GoodScript, Good, PutBack
  <1> QED BY <1>1, <1>2, <1>3, <1>4

LEMMA ElsewherePutsBack ==
  ASSUME NEW p, NEW r, IsRequest(r), PutBack(p, r), NEW more \in Alternatives(r), NEW x \in ToSet(more)
  PROVE  PutBack(p, x)
  <1>1. CASE r.op = "put invoice"
    <2>1. r.use \in BusinessUses \cup {PlainUse} /\ r.ways = 1
      BY <1>1 DEF PutBack, PlainUse
    <2>2. WorkOtherwise(r) = {}
      BY <2>1, InvoicesHaveNoOther
    <2>3. ~(r.ways > 1)
      BY <2>1
    <2> QED BY <2>2, <2>3 DEF Alternatives
  <1>2. CASE r.use \in {"update invoice", "touch"}
    <2> DEFINE q == [r EXCEPT !.ways = @ - 1]
    <2>0. r.use \in BusinessUses \cup {PlainUse}
      BY <1>2 DEF BusinessUses
    <2>1. r.op = "invoice" /\ WorkOtherwise(r) = {}
      <3>1. r.op = "invoice"
        BY <1>2 DEF IsRequest, Fits
      <3> QED BY <2>0, <3>1, InvoicesHaveNoOther
    <2>2. more = <<q>>
      BY <2>1 DEF Alternatives
    <2>3. q.op = "invoice"
      BY <2>1 DEF IsRequest, RequestFields
    <2> HIDE DEF q
    <2> QED BY <2>2, <2>3, OnlyElement DEF PutBack
  <1>3. CASE r.use \notin {"update invoice", "touch"} /\ r.op # "put invoice"
    <2>1. Good(Asks(r), r)
      BY DEF Good
    <2>2. GoodScript(Asks(r), more)
      BY <2>1, AlternativesAreGood
    <2>3. "put invoice" \notin Asks(r)
      BY <1>3 DEF IsRequest, Fits, IsJob, Brings, Asks
    <2>4. x.op = "put invoice" => "put invoice" \in Asks(x) \cap OnlyAsked
      BY DEF Asks, OnlyAsked
    <2> QED BY <2>2, <2>3, <2>4 DEF GoodScript, Good, PutBack
  <1> QED BY <1>1, <1>2, <1>3

\* Wherever a step leads, what is left to do came from the answer, or was there.
LEMMA ScriptsCome ==
  ASSUME Sound, NEW a \in Actors, NEW r, Good(Asked(a), r), NEW rest, GoodScript(Asked(a), rest),
         Happens(a, r, rest), IsPortal(portal'), NEW x \in ToSet(session'[a].todo)
  PROVE  \/ x \in ToSet(rest)
         \/ \E more \in Alternatives(r) : x \in ToSet(more)
         \/ /\ WorkAccepts(portal, r) /\ (r.op = "invoice" => portal' = portal)
            /\ \E more \in WorkThen(portal', r) : x \in ToSet(more)
  <1>1. CASE WorkAccepts(portal, r) /\ GoesOn(a, r, rest)
    <2>1. PICK more \in WorkThen(portal', r) : Goes(a, more \o rest, session[a].failed)
      BY <1>1 DEF GoesOn
    <2>2. r.op = "invoice" => portal' = portal
      BY EffectParts DEF OnProjects, OnBusiness, OnDocuments, WorkCreates, ProjectsCreates,
         BusinessCreates, Docs!DocumentsCreates, Happens
    <2>3. r.op = "invoice" => r.at \in DOMAIN portal'.invoices
      BY <1>1, <2>2, AcceptedInvoice
    <2>4. IsList(more)
      BY <2>1, <2>3, WorkThenIsGood DEF GoodScript
    <2>5. ToSet(session'[a].todo) = ToSet(more) \cup ToSet(rest)
      BY <2>1, <2>4, ConcatElements DEF Goes, GoodScript
    <2> QED BY <1>1, <2>1, <2>2, <2>5
  <1>2. CASE GoesElsewhere(a, r, rest)
    <2>1. CASE \E more \in Alternatives(r) : Goes(a, more \o rest, session[a].failed)
      BY <2>1, AlternativesAreGood, ConcatElements DEF GoodScript, Goes
    <2>2. CASE Goes(a, <<>>, TRUE)
      <3>1. ToSet(<<>>) = {}
        BY OneElement DEF ToSet
      <3> QED BY <2>2, <3>1 DEF Goes
    <2>3. CASE Goes(a, rest, session[a].failed)
      BY <2>3 DEF Goes
    <2> QED BY <1>2, <2>1, <2>2, <2>3 DEF GoesElsewhere
  <1> QED BY <1>1, <1>2 DEF Happens

LEMMA PutsBackBegins == Init /\ Sound => PutsBack
  <1> SUFFICES ASSUME Init, Sound, NEW a \in Actors, NEW x \in ToSet(session[a].todo) PROVE PutBack(portal, x)
    BY DEF PutsBack
  <1>1. session[a].todo = jobs[a] /\ jobs \in Jobs
    BY DEF Init, Fresh
  <1>2. PICK i \in DOMAIN jobs[a] : x = jobs[a][i]
    BY <1>1 DEF ToSet
  <1>3. x.op # "put invoice"
    BY <1>1, <1>2, JobsAssumption DEF IsOpening
  <1> QED BY <1>3 DEF PutBack

LEMMA PutsBackMoves ==
  ASSUME Sound, PutsBack, NEW a \in Actors, Kept(a), NEW r, r \in ToSet(session[a].todo), Good(Asked(a), r),
         NEW rest, GoodScript(Asked(a), rest), ToSet(rest) \subseteq ToSet(session[a].todo),
         Happens(a, r, rest), IsPortal(portal'), Keeps(portal, portal')
  PROVE  PutsBack'
  <1>1. PutBack(portal, r) /\ PutBack(portal', r) /\ IsRequest(r)
    BY PutBackStays DEF PutsBack, Good
  <1>2. SUFFICES ASSUME NEW b \in Actors, NEW x \in ToSet(session'[b].todo) PROVE PutBack(portal', x)
    BY DEF PutsBack
  <1>3. CASE b # a
    BY <1>3, PutBackStays DEF Kept, PutsBack
  <1>4. CASE b = a
    BY <1>1, <1>4, PutBackStays, ElsewherePutsBack, AcceptedInvoice, AnsweredPutsBack, ScriptsCome
       DEF PutsBack
  <1> QED BY <1>3, <1>4
-----------------------------------------------------------------------------
(* A message about a draft carries no older PDF than the draft was.        *)

\* What is new for the start stays new.
LEMMA FreshFollows ==
  ASSUME NEW p, IsPortal(p), NEW q, IsPortal(q), Keeps(p, q), NEW inv
  PROVE  \A c \in 0 .. p.next - 1 : FreshCopy(p, c, inv) => FreshCopy(q, c, inv)
  BY DEF IsPortal, Keeps, KeepsCopies, FreshCopy

LEMMA NewStays ==
  ASSUME NEW s, IsPortal(s), NEW p, IsPortal(p), NEW q, IsPortal(q), Keeps(s, p), Keeps(p, q),
         NEW i \in DOMAIN s.invoices
  PROVE  /\ NewPDF(s, p, i) => NewPDF(s, q, i)
         /\ \A c : Copied(s, p, c, i) => Copied(s, q, c, i)
  <1> DEFINE inv == s.invoices[i]
             c == q.invoices[i].pdf
  <1>1. KeepsInvoice(s, p, i) /\ KeepsInvoice(p, q, i)
    BY DEF Keeps, KeepsInvoice
  <1>2. \A d \in 0 .. p.next - 1 : FreshCopy(p, d, inv) => FreshCopy(q, d, inv)
    BY FreshFollows
  <1>3. s.next \in Nat /\ p.next \in Nat /\ q.next \in Nat /\ s.next <= p.next /\ p.next <= q.next
    BY DEF Keeps, KeepsCopies
  <1>4. p.invoices[i].pdf \in 0 .. p.next - 1 /\ c \in Int
    BY <1>1, <1>3, InvoiceRecords DEF KeepsInvoice
  <1>5. \A d : Copied(s, p, d, i) => Copied(s, q, d, i)
    BY <1>2, <1>3 DEF Copied
  <1>6. CASE SameNotes(p.invoices[i], q.invoices[i])
    <2>1. c = p.invoices[i].pdf
      BY <1>6 DEF SameNotes
    <2> QED BY <1>2, <1>4, <1>5, <2>1 DEF NewPDF
  <1>7. CASE NewPDF(p, q, i)
    <2>1. p.invoices[i].number = inv.number /\ p.invoices[i].rev >= inv.rev
          /\ p.invoices[i].rev \in Nat /\ inv.rev \in Nat
      BY <1>1, InvoiceRecords DEF KeepsInvoice
    <2>2. FreshCopy(q, c, p.invoices[i]) => FreshCopy(q, c, inv)
      BY <2>1 DEF FreshCopy
    <2>3. c >= p.next => c >= s.next
      BY <1>3, <1>4
    <2> QED BY <1>5, <1>7, <2>2, <2>3 DEF NewPDF
  <1> QED BY <1>1, <1>6, <1>7 DEF KeepsInvoice

\* Invoice i of a draft whose PDF there is now.
LEMMA NewIsCopied ==
  ASSUME NEW s, IsPortal(s), NEW p, IsPortal(p), Keeps(s, p), NEW i \in DOMAIN s.invoices, NewPDF(s, p, i),
         p.invoices[i].pdf # NoFile
  PROVE  Copied(s, p, p.invoices[i].pdf, i)
  BY InvoiceRecords DEF Keeps, KeepsInvoice, NoFile, Copied, NewPDF

\* The notes of a draft are put back as given.
LEMMA PutSpaces ==
  ASSUME NEW p, IsPortal(p), NEW r, IsRequest(r), r.op = "put invoice", r.at \in DOMAIN p.invoices,
         NEW q, q = WorkEffect(p, r)
  PROVE  q.invoices[r.at].spaced = r.val.spaced
  <1> DEFINE x == PutInvoice(p.invoices[r.at], r.val)
  <1>1. q = BusinessEffect(p, r)
    BY EffectParts DEF OnProjects, OnBusiness, OnDocuments
  <1>2. q = [p EXCEPT !.invoices[r.at] = x]
    BY <1>1 DEF BusinessEffect
  <1>3. x.spaced = r.val.spaced
    BY DEF PutInvoice, IsRequest, Fits, InvoiceFields
  <1> HIDE DEF x
  <1>4. q.invoices[r.at] = x
    BY <1>2 DEF IsPortal, Kinds
  <1> QED BY <1>3, <1>4

LEMMA MailedStays ==
  ASSUME NEW s, NEW p, NEW q, Keeps(p, q), NEW r, Mailed(s, p, r)
  PROVE  Mailed(s, q, r)
  BY DEF Mailed, Keeps, KeepsMails

LEMMA AskingStays ==
  ASSUME NEW s, IsPortal(s), NEW p, IsPortal(p), NEW q, IsPortal(q), Keeps(s, p), Keeps(p, q),
         NEW r, r.at \in DOMAIN s.invoices
  PROVE  /\ \A x : Asking(s, p, x, r) => Asking(s, q, x, r)
         /\ \A todo : Touching(s, p, todo, r) => Touching(s, q, todo, r)
  BY NewStays DEF Keeps, KeepsMails, Saves, Attaches, Asking, Respaces, Rereading, Putting,
     Touching

\* Such a request is tried once; if it fails, so does the command.
LEMMA NoOtherWay ==
  ASSUME NEW q, q.use \in BusinessUses \cup {PlainUse}, q.ways = 1
  PROVE  Alternatives(q) = {}
  BY InvoicesHaveNoOther DEF Alternatives

LEMMA AskersStop ==
  ASSUME NEW s, NEW p, NEW r, r.extra = "draft invoice", NEW x,
         Asking(s, p, x, r) \/ Rereading(s, p, x, r) \/ Putting(s, p, x, r)
  PROVE  Alternatives(x) = {} /\ x.onErr = "stop" /\ (~WorkCreates(x) \/ Saves(s, p, x, r))
  <1>1. x.use \in BusinessUses \cup {PlainUse} /\ x.ways = 1 /\ x.onErr = "stop"
    BY DEF Asking, Rereading, Putting, Stops, Opens, Fetches, Saves, Attaches, BusinessUses, PlainUse
  <1>2. x.op \in {"invoice", "put invoice", "pdf", "attach"} \/ Saves(s, p, x, r)
    BY DEF Asking, Rereading, Putting, Opens, Fetches, Attaches
  <1>3. ~WorkCreates(x) \/ Saves(s, p, x, r)
    BY <1>2 DEF WorkCreates, ProjectsCreates, BusinessCreates, Docs!DocumentsCreates
  <1> QED BY <1>1, <1>3, NoOtherWay

LEMMA OpeningAnswered ==
  ASSUME NEW s, NEW q, Keeps(s, q), NEW r, Drafts(s, r), NEW x, Opens(x, r), NEW more \in WorkThen(q, x)
  PROVE  Led(s, q, more, r)
  <1> DEFINE y == Touch(q, x)
  <1>1. BusinessThen(q, x) = {y} /\ x.use \in BusinessUses
    BY DEF BusinessThen, BusinessUses, Opens
  <1> HIDE DEF y
  <1>2. more = y
    BY <1>1, OnlyBusinessThen
  <1> USE DEF y
  <1>3. KeepsInvoice(s, q, r.at) /\ x.at = r.at /\ x.val = r.val /\ x.extra = r.extra
    BY DEF Drafts, Keeps, Opens
  <1>4. CanEdit(q.invoices[x.at])
    BY <1>3 DEF Drafts, CanEdit, KeepsInvoice
  <1>5. PICK u, d : /\ y = (IF CanEdit(q.invoices[x.at]) THEN <<u>> ELSE <<>>) \o <<d>>
                    /\ Rereads(u, q, x) /\ Fetches(d, x)
    BY TouchIs
  <1>6. more = <<u>> \o <<d>>
    BY <1>2, <1>4, <1>5
  <1>7. Fetches(d, r)
    BY <1>3, <1>5 DEF Fetches
  <1>8. Respaces(s, q, u, r)
    BY <1>3, <1>5 DEF Rereads, SameNotes, Drafts, Respaces, KeepsInvoice
  <1>9. Rereading(s, q, u, r)
    BY <1>3, <1>5, <1>8 DEF Rereading, Rereads, Stops
  <1> QED BY <1>6, <1>7, <1>9 DEF Led

LEMMA FetchingAnswered ==
  ASSUME NEW s, IsPortal(s), NEW p, IsPortal(p), Keeps(s, p), NEW r, Drafts(s, r),
         NEW x, Fetches(x, r), NewPDF(s, p, r.at), NEW q, q = WorkEffect(p, x), IsPortal(q), Keeps(p, q), Keeps(s, q),
         NEW more \in WorkThen(q, x)
  PROVE  Led(s, q, more, r)
  <1>1. r.at \in DOMAIN s.invoices /\ r.at \in DOMAIN p.invoices /\ x.op = "pdf" /\ x.at = r.at /\ x.val = r.val
    BY DEF Drafts, Keeps, KeepsInvoice, Fetches
  <1>2. q = MakePDF(p, r.at)
    <2>1. q = BusinessEffect(p, x)
      BY <1>1, EffectParts DEF OnProjects, OnBusiness, OnDocuments
    <2> QED BY <1>1, <2>1 DEF BusinessEffect
  <1>3. q.invoices[r.at].pdf # NoFile
    BY <1>1, <1>2, PDFKeeps
  <1>4. Copied(s, q, q.invoices[r.at].pdf, r.at)
    BY <1>1, <1>3, NewStays, NewIsCopied
  <1> DEFINE y == DraftInvoice(q, x)
             pdf == q.invoices[r.at].pdf
             a == Must("invoice", x.at, 0)
             b == Must("accounts", 0, 0)
             c == [For("draft", Must("save draft", 0, x.val)) EXCEPT !.extra = pdf]
  <1>5. y = <<a, b, c>>
    BY <1>1 DEF DraftInvoice
  <1>6. BusinessThen(q, x) = {y} /\ x.use \in BusinessUses
    BY DEF BusinessThen, BusinessUses, Fetches, Drafts
  <1> HIDE DEF y, pdf
  <1>7. more = y
    BY <1>6, OnlyBusinessThen
  <1>8. c.op = "save draft" /\ c.use = "draft" /\ c.at = 0 /\ c.val = x.val /\ c.extra = pdf /\ Stops(c)
    BY DEF For, Must, Request, Stops
  <1> HIDE DEF a, b, c
  <1>9. c \in ToSet(<<a, b, c>>)
    BY DEF ToSet
  <1>10. Asking(s, q, c, r)
    BY <1>1, <1>4, <1>8 DEF Asking, Saves, pdf
  <1> QED BY <1>5, <1>7, <1>9, <1>10 DEF Led

LEMMA SavingAnswered ==
  ASSUME NEW s, IsPortal(s), NEW p, IsPortal(p), Keeps(s, p), NEW r, Drafts(s, r),
         NEW x, Saves(s, p, x, r), NEW q, q = WorkEffect(p, x), IsPortal(q), Keeps(p, q),
         NEW more \in WorkThen(q, x)
  PROVE  Led(s, q, more, r)
  <1> DEFINE mail == [to |-> x.val, folder |-> "drafts", parts |-> {}]
             kind == "mails"
             y == <<Must("attach", LastId(q), x.extra)>>
             c == Must("attach", LastId(q), x.extra)
  <1>1. q = Add(p, kind, mail)
    BY EffectParts DEF OnProjects, OnBusiness, OnDocuments, Saves, BusinessEffect, SaveDraft
  <1>2. kind \in Kinds /\ IsRecord(kind, mail, p.next + 1)
    BY DEF Kinds, IsRecord, MailFields
  <1>3. mail.to = x.val
    OBVIOUS
  <1>4. BusinessThen(q, x) = {y} /\ x.use \in BusinessUses
    BY DEF BusinessThen, BusinessUses, Saves, AttachMailDocument
  <1>5. c.op = "attach" /\ c.use = "" /\ c.at = LastId(q) /\ c.val = x.extra /\ Stops(c)
    BY DEF Must, Request, Stops
  <1> HIDE DEF c, mail
  <1>6. Added(p, q, kind, mail)
    <2> HIDE DEF kind
    <2> QED BY <1>1, <1>2, AddOutcome
  <1>7. LastId(q) = p.next
    BY <1>6 DEF Added, LastId
  <1>8. p.next \in DOMAIN q.mails /\ q.mails[p.next].to = r.val
    BY <1>6, <1>3 DEF Added, Saves
  <1>9. Copied(s, q, x.extra, r.at)
    BY NewStays DEF Saves, Drafts
  <1>10. Asking(s, q, c, r)
    BY <1>5, <1>7, <1>8, <1>9 DEF Asking, Attaches
  <1>11. y = <<c>>
    BY DEF c
  <1> HIDE DEF y
  <1>12. more = y
    BY <1>4, OnlyBusinessThen
  <1> QED BY <1>10, <1>11, <1>12, InScript DEF Led

\* The request came twice: there are two drafts, and the PDF goes to the second.
LEMMA SavedTwice ==
  ASSUME NEW s, IsPortal(s), NEW p, IsPortal(p), Keeps(s, p), NEW r, Drafts(s, r), NEW x, IsRequest(x),
         Saves(s, p, x, r), NEW q, q = WorkEffect(WorkEffect(p, x), x), IsPortal(q), NEW more \in WorkThen(q, x)
  PROVE  Led(s, q, more, r)
  <1> DEFINE one == WorkEffect(p, x)
  <1>1. Has(p, x) /\ Sparing(p, x) /\ Has(one, x) /\ Sparing(one, x)
    BY DEF Saves, Has, Sparing, Undoing
  <1>2. IsPortal(one) /\ Keeps(p, one)
    BY <1>1, EffectOutcome, EffectKeeps DEF Outcome
  <1>3. Keeps(s, one) /\ Keeps(one, q)
    BY <1>1, <1>2, KeepsTwice, EffectKeeps
  <1>4. Saves(s, one, x, r)
    BY <1>2, NewStays DEF Saves, Drafts
  <1> HIDE DEF one
  <1> QED BY <1>2, <1>3, <1>4, SavingAnswered DEF one

LEMMA AttachingAnswered ==
  ASSUME NEW s, NEW p, IsPortal(p), NEW r, Drafts(s, r), NEW x, Attaches(s, p, x, r),
         WorkAccepts(p, x), NEW q, q = WorkEffect(p, x)
  PROVE  Mailed(s, q, r)
  <1> DEFINE c == p.copies[x.val]
             at == x.at
  <1>1. x.op = "attach" /\ x.at \in DOMAIN p.mails /\ p.mails[x.at].to = r.val /\ Copied(s, p, x.val, r.at)
    BY DEF Attaches
  <1>2. x.val \in DOMAIN p.copies
    BY <1>1 DEF WorkAccepts, AtInvoice, AtUser, BusinessAccepts
  <1>3. c.title = s.invoices[r.at].number /\ c.rev >= s.invoices[r.at].rev
    BY <1>1, <1>2 DEF Copied, FreshCopy
  <1>4. at \in DOMAIN p.mails /\ q = WithRecord(p, "mails", at, [p.mails[at] EXCEPT !.parts = @ \cup {c}])
    BY <1>1, EffectParts DEF OnProjects, OnBusiness, OnDocuments, BusinessEffect, WithRecord, With
  <1> HIDE DEF c, at
  <1>5. at \in DOMAIN q.mails /\ c \in q.mails[at].parts /\ q.mails[at].to = p.mails[at].to
    BY <1>4, AttachKeeps
  <1> QED BY <1>1, <1>3, <1>5 DEF Mailed, at

LEMMA AskingAnswered ==
  ASSUME NEW s, IsPortal(s), NEW p, IsPortal(p), Keeps(s, p), NEW r, Drafts(s, r),
         NEW x, Asking(s, p, x, r), WorkAccepts(p, x), NEW q, q = WorkEffect(p, x), IsPortal(q),
         Keeps(p, q), Keeps(s, q), NEW more \in WorkThen(q, x)
  PROVE  Led(s, q, more, r)
  <1>1. CASE Attaches(s, p, x, r)
    BY <1>1, AttachingAnswered DEF Led
  <1> QED BY <1>1, OpeningAnswered, FetchingAnswered, SavingAnswered DEF Asking

\* The notes that were read are put back, and are not those of the start.
LEMMA RereadingAnswered ==
  ASSUME NEW s, NEW q, IsPortal(q), Keeps(s, q), NEW r, Drafts(s, r), NEW w, Rereading(s, q, w, r),
         NEW more \in WorkThen(q, w)
  PROVE  \E z : more = <<z>> /\ Putting(s, q, z, r)
  <1> DEFINE y == UpdateInvoice(q, w)
  <1>1. w.at = r.at /\ w.at \in DOMAIN q.invoices
    BY DEF Rereading, Drafts, Keeps, KeepsInvoice
  <1>2. BusinessThen(q, w) = {y} /\ w.use \in BusinessUses
    BY DEF BusinessThen, BusinessUses, Rereading
  <1>3. PICK z : y = <<z>> /\ PutsThem(z, q, w)
    BY <1>1, UpdateIsPut
  <1> HIDE DEF y
  <1>4. more = y
    BY <1>2, OnlyBusinessThen
  <1>5. Putting(s, q, z, r)
    BY <1>1, <1>3 DEF Putting, Rereading, Respaces, PutsThem, Stops
  <1> QED BY <1>3, <1>4, <1>5

LEMMA PuttingAnswered ==
  ASSUME NEW s, IsPortal(s), NEW p, IsPortal(p), Keeps(s, p), NEW r, Drafts(s, r),
         NEW w, IsRequest(w), Putting(s, p, w, r), NEW q, q = WorkEffect(p, w), IsPortal(q),
         Keeps(p, q), Keeps(s, q), NEW more \in WorkThen(q, w)
  PROVE  more = <<>> /\ NewPDF(s, q, r.at)
  <1>1. /\ w.use = PlainUse /\ w.op = "put invoice" /\ w.at = r.at
        /\ r.at \in DOMAIN p.invoices /\ r.at \in DOMAIN s.invoices
    BY DEF Putting, PlainUse, Drafts, Keeps, KeepsInvoice
  <1>2. more = <<>>
    BY <1>1, PlainThen
  <1>3. q.invoices[r.at].spaced = w.val.spaced
    BY <1>1, PutSpaces
  <1>4. NewPDF(s, p, r.at) => NewPDF(s, q, r.at)
    BY <1>1, NewStays
  <1>5. w.val.spaced # s.invoices[r.at].spaced => NewPDF(s, q, r.at)
    BY <1>1, <1>3 DEF Keeps, KeepsInvoice, SameNotes
  <1> QED BY <1>2, <1>4, <1>5 DEF Putting, Respaces

\* The places in a script.
LEMMA ConcatPlaces ==
  ASSUME NEW s, IsList(s), NEW t, IsList(t)
  PROVE  /\ \A i \in DOMAIN s : i \in DOMAIN (s \o t) /\ (s \o t)[i] = s[i]
         /\ \A i \in DOMAIN t : Len(s) + i \in DOMAIN (s \o t) /\ (s \o t)[Len(s) + i] = t[i]
  BY ListShape, SeqMonotonic, ConcatProperties, ConcatElements

LEMMA FirstPlaces ==
  ASSUME NEW e, NEW t, IsList(t)
  PROVE  LET s == <<e>> \o t
         IN  /\ IsList(s) /\ 1 \in DOMAIN s /\ s[1] = e
             /\ 1 \in DOMAIN t => 2 \in DOMAIN s /\ s[2] = t[1]
  BY OneElement, ConcatPlaces, ConcatElements

LEMMA TwoPlaces ==
  ASSUME NEW e, NEW d, NEW t, IsList(t)
  PROVE  LET s == (<<e>> \o <<d>>) \o t
         IN  1 \in DOMAIN s /\ 2 \in DOMAIN s /\ s[1] = e /\ s[2] = d
  BY OneElement, FirstPlaces, ConcatPlaces

LEMMA RestPlaces ==
  ASSUME NEW s, IsList(s), 2 \in DOMAIN s
  PROVE  Head(s) = s[1] /\ 1 \in DOMAIN Tail(s) /\ Tail(s)[1] = s[2]
  BY OneElement, TailList, ListShape, HeadTailProperties

LEMMA AnswerIsList ==
  ASSUME Sound, NEW a \in Actors, NEW r, Good(Asked(a), r), IsPortal(portal'), WorkAccepts(portal, r),
         portal' = WorkEffect(portal, r) \/ WorkCreates(r), NEW more \in WorkThen(portal', r)
  PROVE  IsList(more)
  BY EffectParts, AcceptedInvoice, WorkThenIsGood DEF OnProjects, OnBusiness, OnDocuments,
     WorkCreates, ProjectsCreates, BusinessCreates, Docs!DocumentsCreates, GoodScript

\* Unless the command breaks, what comes after the first request is still to be done.
LEMMA RestStays ==
  ASSUME Sound, NEW a \in Actors, NEW r, Good(Asked(a), r), NEW rest, GoodScript(Asked(a), rest),
         Happens(a, r, rest), IsPortal(portal'), ~session'[a].failed
  PROVE  ToSet(rest) \subseteq ToSet(session'[a].todo)
  <1>1. ASSUME NEW more, IsList(more), Goes(a, more \o rest, session[a].failed)
        PROVE  ToSet(rest) \subseteq ToSet(session'[a].todo)
    BY <1>1, ConcatElements DEF Goes, GoodScript
  <1>2. CASE WorkAccepts(portal, r) /\ GoesOn(a, r, rest) /\ (portal' = WorkEffect(portal, r) \/ WorkCreates(r))
    BY <1>2, <1>1, AnswerIsList DEF GoesOn
  <1>3. CASE GoesElsewhere(a, r, rest)
    BY <1>1, <1>3, AlternativesAreGood DEF GoodScript, Goes, GoesElsewhere
  <1> QED BY <1>2, <1>3 DEF Happens

\* A request that has no other way, and breaks the command when it fails, was answered.
LEMMA StopperAnswered ==
  ASSUME Sound, NEW a \in Actors, NEW r, Good(Asked(a), r), NEW rest, GoodScript(Asked(a), rest),
         Happens(a, r, rest), IsPortal(portal'), ~session'[a].failed,
         Alternatives(r) = {}, r.onErr = "stop"
  PROVE  /\ WorkAccepts(portal, r)
         /\ \/ portal' = WorkEffect(portal, r)
            \/ WorkCreates(r) /\ portal' = WorkEffect(WorkEffect(portal, r), r)
         /\ \E more \in WorkThen(portal', r) :
               /\ session'[a].todo = more \o rest
               /\ ToSet(session'[a].todo) = ToSet(more) \cup ToSet(rest)
  BY AnswerIsList, ConcatElements DEF GoesElsewhere, Goes, Happens, GoesOn, GoodScript

LEMMA DraftingBegins == Init /\ Sound => DraftingGoesOn
  <1> SUFFICES ASSUME Init, Sound PROVE DraftingGoesOn
    OBVIOUS
  <1>1. start = portal /\ portal \in Portals /\ jobs \in Jobs
    BY DEF Init
  <1>2. Keeps(start, portal)
    <2>1. IsPortal(portal) /\ portal.next \in Nat /\ portal.next >= portal.next
      BY DEF Sound, IsPortal
    <2> QED BY <1>1, <2>1, ElsewhereKeeps
  <1>3. ASSUME NEW a \in Actors, NEW r \in Drafting(a) PROVE Drafted(a, r)
    <2>1. session[a].todo = jobs[a]
      BY DEF Init, Fresh
    <2>2. r \in ToSet(jobs[a]) /\ Drafts(start, r)
      BY DEF Drafting
    <2>3. IsOpening(r)
      BY <1>1, <2>2, JobsAssumption DEF ToSet
    <2>4. PICK use : r = Head(ForceRegenerateInvoicePDF(r.at, use, r.val))
      BY <2>2, <2>3 DEF Drafts, IsOpening
    <2>5. r.op = "invoice" /\ Stops(r)
      <3> DEFINE q == [For("touch", Must("invoice", r.at, r.val)) EXCEPT !.extra = use]
      <3>1. ForceRegenerateInvoicePDF(r.at, use, r.val) = <<q>>
        BY DEF ForceRegenerateInvoicePDF
      <3>2. q.op = "invoice" /\ Stops(q)
        BY DEF For, Must, Request, Stops
      <3> HIDE DEF q
      <3>3. Head(<<q>>) = q
        OBVIOUS
      <3> QED BY <2>4, <3>1, <3>2, <3>3
    <2>6. Asking(start, portal, r, r)
      BY <2>2, <2>5 DEF Asking, Opens, Drafts
    <2> QED BY <2>1, <2>2, <2>6 DEF Drafted
  <1> QED BY <1>1, <1>2, <1>3, PutsBackBegins DEF DraftingGoesOn, SinceTheStart

\* The request before the fetching of the PDF was answered.
LEMMA TouchMoves ==
  ASSUME Sound, SinceTheStart, Keeps(start, portal'), IsPortal(portal'), Keeps(portal, portal'),
         NEW a \in Actors, NEW h, Good(Asked(a), h), NEW rest, GoodScript(Asked(a), rest),
         h = Head(session[a].todo), rest = Tail(session[a].todo), Happens(a, h, rest), ~session'[a].failed,
         NEW r, Drafts(start, r), Touching(start, portal, session[a].todo, r)
  PROVE  \/ \E x \in ToSet(session'[a].todo) : Asking(start, portal', x, r)
         \/ Touching(start, portal', session'[a].todo, r)
  <1>0. IsList(session[a].todo) /\ IsList(rest)
    BY DEF Sound, GoodScript
  <1>1. h = session[a].todo[1] /\ 1 \in DOMAIN rest /\ rest[1] = session[a].todo[2]
    BY <1>0, RestPlaces DEF Touching
  <1>2. Fetches(rest[1], r) /\ (Rereading(start, portal, h, r) \/ Putting(start, portal, h, r))
    BY <1>1 DEF Touching
  <1>3. Alternatives(h) = {} /\ h.onErr = "stop" /\ ~WorkCreates(h) /\ IsRequest(h) /\ r.at \in DOMAIN start.invoices
    BY <1>2, AskersStop DEF Drafts, Good, Rereading, Putting, Saves
  <1>4. WorkAccepts(portal, h) /\ portal' = WorkEffect(portal, h)
    BY <1>3, StopperAnswered
  <1>5. PICK more \in WorkThen(portal', h) : /\ session'[a].todo = more \o rest
                                             /\ ToSet(session'[a].todo) = ToSet(more) \cup ToSet(rest)
    BY <1>3, StopperAnswered
  <1>6. IsPortal(start) /\ IsPortal(portal) /\ Keeps(start, portal)
    BY PortalsAssumption DEF Sound, SinceTheStart
  <1>7. CASE Rereading(start, portal, h, r)
    <2>1. Rereading(start, portal', h, r)
      BY <1>3, <1>6, <1>7, NewStays DEF Rereading, Respaces
    <2>2. PICK z : more = <<z>> /\ Putting(start, portal', z, r)
      BY <2>1, RereadingAnswered
    <2> DEFINE s == <<z>> \o rest
    <2>3. 1 \in DOMAIN s /\ s[1] = z /\ 2 \in DOMAIN s /\ s[2] = rest[1]
      BY <1>0, <1>1, FirstPlaces
    <2>4. session'[a].todo = s
      BY <1>5, <2>2
    <2> HIDE DEF s
    <2> QED BY <1>2, <2>2, <2>3, <2>4 DEF Touching
  <1>8. CASE Putting(start, portal, h, r)
    <2>1. NewPDF(start, portal', r.at)
      BY <1>3, <1>4, <1>5, <1>6, <1>8, PuttingAnswered
    <2>2. rest[1] \in ToSet(session'[a].todo)
      BY <1>1, <1>5 DEF ToSet
    <2>3. Asking(start, portal', rest[1], r)
      BY <1>2, <2>1 DEF Asking, Fetches, Stops
    <2> QED BY <2>2, <2>3
  <1> QED BY <1>2, <1>7, <1>8

\* One of the other requests on the way was answered.
LEMMA AskerMoves ==
  ASSUME Sound, SinceTheStart, Keeps(start, portal'), IsPortal(portal'), Keeps(portal, portal'),
         NEW a \in Actors, NEW h, Good(Asked(a), h), NEW rest, GoodScript(Asked(a), rest),
         Happens(a, h, rest), ~session'[a].failed,
         NEW r, Drafts(start, r), Asking(start, portal, h, r)
  PROVE  \/ Mailed(start, portal', r)
         \/ \E x \in ToSet(session'[a].todo) : Asking(start, portal', x, r)
         \/ Touching(start, portal', session'[a].todo, r)
  <1>1. Alternatives(h) = {} /\ h.onErr = "stop" /\ (~WorkCreates(h) \/ Saves(start, portal, h, r))
    BY AskersStop DEF Drafts
  <1>2. /\ WorkAccepts(portal, h)
        /\ \/ portal' = WorkEffect(portal, h)
           \/ Saves(start, portal, h, r) /\ portal' = WorkEffect(WorkEffect(portal, h), h)
    BY <1>1, StopperAnswered
  <1>3. PICK more \in WorkThen(portal', h) : /\ session'[a].todo = more \o rest
                                             /\ ToSet(session'[a].todo) = ToSet(more) \cup ToSet(rest)
    BY <1>1, StopperAnswered
  <1>4. IsPortal(start) /\ IsPortal(portal) /\ Keeps(start, portal) /\ IsList(rest)
    BY PortalsAssumption DEF Sound, SinceTheStart, GoodScript
  <1>5. Led(start, portal', more, r)
    <2>1. CASE portal' = WorkEffect(portal, h)
      BY <1>2, <1>4, <2>1, AskingAnswered
    <2>2. CASE Saves(start, portal, h, r) /\ portal' = WorkEffect(WorkEffect(portal, h), h)
      BY <1>4, <2>2, SavedTwice DEF Good
    <2> QED BY <1>2, <2>1, <2>2
  <1>6. ASSUME NEW u, NEW d, more = <<u>> \o <<d>>, Rereading(start, portal', u, r), Fetches(d, r)
        PROVE  Touching(start, portal', session'[a].todo, r)
    BY <1>4, <1>3, <1>6, TwoPlaces DEF Touching
  <1> QED BY <1>3, <1>5, <1>6 DEF Led

LEMMA DraftingMoves ==
  ASSUME Sound, DraftingGoesOn, NEW a \in Actors, Step(a)
  PROVE  DraftingGoesOn'
  <1> DEFINE h == Head(session[a].todo)
             rest == Tail(session[a].todo)
  <1>1. /\ session[a].todo # <<>> /\ Good(Asked(a), h) /\ GoodScript(Asked(a), rest)
        /\ Moves(a, h, rest)
    BY StepMoves
  <1>2. Happens(a, h, rest)
    BY StepHappens
  <1>3. ToSet(session[a].todo) = {h} \cup ToSet(rest)
    BY <1>1, FirstAndRest DEF Sound, GoodScript
  <1>a. h = Head(session[a].todo) /\ rest = Tail(session[a].todo)
    OBVIOUS
  <1> HIDE DEF h, rest
  <1>4. Kept(a) /\ IsPortal(portal') /\ IsPortal(portal) /\ jobs' = jobs /\ start' = start
    BY <1>1 DEF Moves, Outcome, Sound, Kept
  <1>5. SUFFICES ASSUME NobodySends(Undoing), NobodyRewritesDrafts
                 PROVE  SinceTheStart' /\ \A b \in Actors : \A r \in Drafting(b) : Drafted(b, r)'
    BY <1>4 DEF NobodySends, Sends, NobodyRewritesDrafts, Drafting, DraftingGoesOn
  <1>6. SinceTheStart /\ IsPortal(start)
    BY <1>5, PortalsAssumption DEF DraftingGoesOn, SinceTheStart
  <1>7. PutBack(portal, h) /\ IsRequest(h)
    BY <1>1, <1>3, <1>6 DEF SinceTheStart, PutsBack, Good
  <1>8. Sparing(portal, h)
    BY <1>1, <1>5, <1>7, EverybodySpares
  <1>9. Keeps(portal, portal')
    BY <1>2, <1>4, <1>7, <1>8, HappensKeeps
  <1>10. Keeps(start, portal')
    BY <1>4, <1>6, <1>9, KeepsTwice DEF SinceTheStart
  <1>11. SinceTheStart'
    <2>1. PutsBack'
      BY <1>1, <1>2, <1>3, <1>4, <1>6, <1>9, PutsBackMoves DEF SinceTheStart
    <2> QED BY <1>4, <1>6, <1>10, <2>1 DEF SinceTheStart
  <1>12. ASSUME NEW b \in Actors, NEW r \in Drafting(b) PROVE Drafted(b, r)'
    <2>1. Drafted(b, r) /\ Drafts(start, r) /\ r.at \in DOMAIN start.invoices
      BY <1>5 DEF DraftingGoesOn, Drafting, Drafts
    <2>2. /\ \A x : Asking(start, portal, x, r) => Asking(start, portal', x, r)
          /\ \A todo : Touching(start, portal, todo, r) => Touching(start, portal', todo, r)
      BY <1>4, <1>6, <1>9, <2>1, AskingStays DEF SinceTheStart
    <2>3. Mailed(start, portal, r) => Mailed(start, portal', r)
      BY <1>9, MailedStays
    <2>4. CASE b # a
      BY <1>4, <2>4, <2>1, <2>2, <2>3 DEF Kept, Drafted
    <2>5. CASE session'[b].failed \/ Mailed(start, portal, r)
      BY <1>4, <2>3, <2>5 DEF Drafted
    <2>6. CASE b = a /\ ~session'[a].failed /\ ~Mailed(start, portal, r)
      <3>1. ~session[a].failed
        BY <1>1, <2>6 DEF Moves, GoesOn, GoesElsewhere, Goes
      <3>2. CASE Touching(start, portal, session[a].todo, r)
        <4>1. \/ \E x \in ToSet(session'[a].todo) : Asking(start, portal', x, r)
              \/ Touching(start, portal', session'[a].todo, r)
          BY <1>1, <1>2, <1>4, <1>6, <1>9, <1>10, <1>a, <2>1, <2>6, <3>2, TouchMoves
        <4> QED BY <1>4, <2>6, <4>1 DEF Drafted
      <3>3. ASSUME NEW x \in ToSet(rest), Asking(start, portal, x, r) PROVE Drafted(a, r)'
        BY <1>1, <1>2, <1>4, <2>6, <2>2, <3>3, RestStays DEF Drafted
      <3>4. CASE Asking(start, portal, h, r)
        <4>1. \/ Mailed(start, portal', r)
              \/ \E x \in ToSet(session'[a].todo) : Asking(start, portal', x, r)
              \/ Touching(start, portal', session'[a].todo, r)
          BY <1>1, <1>2, <1>4, <1>6, <1>9, <1>10, <2>1, <2>6, <3>4, AskerMoves
        <4> QED BY <1>4, <2>6, <4>1 DEF Drafted
      <3> QED BY <1>3, <2>1, <2>6, <3>1, <3>2, <3>3, <3>4 DEF Drafted
    <2> QED BY <2>4, <2>5, <2>6
  <1> QED BY <1>11, <1>12

LEMMA DraftingEnds == Sound /\ DraftingGoesOn => NoStalePDFIsMailed
  <1> SUFFICES ASSUME Sound, DraftingGoesOn, NobodySends({"set status", "drop invoice", "remove mails"}),
                      NobodyRewritesDrafts, NEW a \in Actors, Succeeded(a), NEW i \in DOMAIN jobs[a],
                      NEW r, r = jobs[a][i], r.use = "touch", r.extra = "draft invoice",
                      r.at \in DOMAIN start.invoices, CanEdit(start.invoices[r.at])
               PROVE  Mailed(start, portal, r)
    BY DEF NoStalePDFIsMailed, Mailed
  <1>1. SinceTheStart /\ \A b \in Actors : \A x \in Drafting(b) : Drafted(b, x)
    BY DEF DraftingGoesOn, Undoing
  <1>2. r \in Drafting(a)
    BY <1>1, PortalsAssumption DEF SinceTheStart, Drafting, Drafts, ToSet
  <1>3. session[a].todo = <<>> /\ ~session[a].failed
    BY DEF Succeeded, Ended
  <1>4. DOMAIN session[a].todo = {} /\ ToSet(session[a].todo) = {}
    BY <1>3, OneElement DEF ToSet
  <1>5. ~Touching(start, portal, session[a].todo, r)
    BY <1>4 DEF Touching
  <1> QED BY <1>1, <1>2, <1>3, <1>4, <1>5 DEF Drafted

\* cmd/oo/mails.go:277: whoever else works on invoices, copies and mail, and whatever requests
\* are lost, as long as nobody takes the invoice, its status or messages away, a draft message
\* that was made for an invoice in draft carries it as it was at the start, or newer.
THEOREM MessagesAreNotStale == Spec => []NoStalePDFIsMailed
  <1>1. Init => Sound /\ DraftingGoesOn
    BY BeginsSound, DraftingBegins
  <1>2. Sound /\ DraftingGoesOn /\ [Next]_vars => (Sound /\ DraftingGoesOn)'
    <2> SUFFICES ASSUME Sound, DraftingGoesOn, [Next]_vars PROVE (Sound /\ DraftingGoesOn)'
      OBVIOUS
    <2>1. CASE UNCHANGED vars
      BY <2>1, StaysSound DEF vars, DraftingGoesOn, SinceTheStart, PutsBack, Drafting, Drafted,
         NobodySends, Sends, NobodyRewritesDrafts
    <2>2. ASSUME NEW a \in Actors, Step(a) PROVE (Sound /\ DraftingGoesOn)'
      BY <2>2, MovesSoundly, DraftingMoves
    <2> QED BY <2>1, <2>2 DEF Next, Finished
  <1> QED BY <1>1, <1>2, DraftingEnds, PTL DEF Spec
-----------------------------------------------------------------------------
(* Walking a mail folder: every message of the start was noted, or is on a  *)
(* page that the walk has before it.                                       *)

LEMMA MailRecords ==
  ASSUME NEW p, IsPortal(p), NEW m \in DOMAIN p.mails
  PROVE  DOMAIN p.mails[m] = MailFields
  BY Records DEF Kinds, IsRecord

LEMMA MailAdded ==
  ASSUME NEW p, IsPortal(p), NEW to, NEW folder, NEW q,
         q = Add(p, "mails", [to |-> to, folder |-> folder, parts |-> {}])
  PROVE  MailsStay(p, q)
  <1> DEFINE mail == [to |-> to, folder |-> folder, parts |-> {}]
             kind == "mails"
  <1>1. kind \in Kinds /\ IsRecord(kind, mail, p.next + 1)
    BY DEF Kinds, IsRecord, MailFields
  <1>2. q = Add(p, kind, mail)
    OBVIOUS
  <1> HIDE DEF mail
  <1>3. Added(p, q, kind, mail)
    <2> HIDE DEF kind
    <2> QED BY <1>1, <1>2, AddOutcome
  <1> QED BY <1>3 DEF Added, MailsStay

LEMMA MailChanged ==
  ASSUME NEW p, IsPortal(p), NEW at \in DOMAIN p.mails, NEW x, x.folder = p.mails[at].folder,
         NEW q, q = WithRecord(p, "mails", at, x)
  PROVE  MailsStay(p, q)
  <1>1. "mails" \in DOMAIN p
    BY DEF IsPortal, Kinds
  <1> QED BY <1>1 DEF WithRecord, With, MailsStay

LEMMA EffectKeepsMails ==
  ASSUME NEW p, IsPortal(p), NEW r, IsRequest(r), Has(p, r), ~TakesMails(r), NEW q, q = WorkEffect(p, r)
  PROVE  MailsStay(p, q)
  <1>0. "mails" \in DOMAIN p
    BY DEF IsPortal, Kinds
  <1>1. CASE r.op \in OnProjects /\ q = ProjectsEffect(p, r)
    BY <1>1, <1>0, ProjectsEffectOutcome DEF InWork, ProjectsOutcome, MailsStay
  <1>2. CASE q = Docs!DocumentsEffect(p, r)
    <2>1. q.mails = p.mails
      BY <1>2, DocumentsLeaveBusiness
    <2> QED BY <2>1 DEF MailsStay
  <1>3. CASE q = p
    BY <1>3 DEF MailsStay
  <1>4. CASE q = BusinessEffect(p, r)
    <2>1. CASE r.op = "save draft" /\ r.at # 0
      <3> DEFINE x == [p.mails[r.at] EXCEPT !.to = r.val]
      <3>1. r.at \in DOMAIN p.mails
        BY <2>1 DEF Has
      <3>2. x.folder = p.mails[r.at].folder
        BY <3>1, MailRecords DEF MailFields
      <3>3. q = WithRecord(p, "mails", r.at, x)
        BY <1>4, <2>1 DEF BusinessEffect, SaveDraft, WithRecord, With
      <3> HIDE DEF x
      <3> QED BY <3>1, <3>2, <3>3, MailChanged
    <2>2. CASE r.op = "attach"
      BY <2>2, <1>4, MailRecords, MailChanged DEF Has, MailFields, BusinessEffect, WithRecord,
         With
    <2>3. CASE r.op \in {"send", "arrive"} \/ (r.op = "save draft" /\ r.at = 0)
      BY <1>4, <2>3, MailAdded DEF BusinessEffect, SaveDraft
    <2>4. CASE r.op \in {"add invoice", "add user", "add event"}
      BY <1>4, <2>4, <1>0 DEF BusinessEffect, Add, MailsStay
    <2>5. CASE r.op \in {"put invoice", "set status", "drop invoice", "drop copies", "put user", "activate",
                         "drop user", "drop event", "layout"}
      <3>1. q.mails = p.mails
        BY <1>0, <1>4, <2>5 DEF BusinessEffect
      <3> QED BY <3>1 DEF MailsStay
    <2>6. CASE r.op = "pdf"
      <3>1. q.mails = p.mails
        BY <1>0, <1>4, <2>6 DEF BusinessEffect, MakePDF, Add
      <3> QED BY <3>1 DEF MailsStay
    <2>7. CASE r.op \notin OnBusiness
      <3>1. q = p
        BY <1>4, <2>7, WhoseRequest
      <3> QED BY <1>3, <3>1
    <2> QED BY <2>1, <2>2, <2>3, <2>4, <2>5, <2>6, <2>7 DEF OnBusiness, TakesMails
  <1> QED BY <1>1, <1>2, <1>3, <1>4, EffectParts

LEMMA MailsStayTwice ==
  ASSUME NEW p, NEW q, NEW s, MailsStay(p, q), MailsStay(q, s)
  PROVE  MailsStay(p, s)
  BY DEF MailsStay

LEMMA HappensKeepsMails ==
  ASSUME IsPortal(portal), NEW a, NEW r, IsRequest(r), NEW rest, Happens(a, r, rest), ~TakesMails(r)
  PROVE  MailsStay(portal, portal')
  BY AcceptedHas, EffectOutcome, EffectKeepsMails, CreatesAgain, MailsStayTwice DEF MailsStay,
     Outcome, Happens

LEMMA MailsAreFinite ==
  ASSUME NEW p, IsPortal(p), NEW folder
  PROVE  IsFiniteSet(MailsIn(p, folder)) /\ Cardinality(MailsIn(p, folder)) \in Nat
  BY Collections, FS_CardinalityType DEF Kinds, MailsIn

LEMMA NewerIsFinite ==
  ASSUME NEW p, IsPortal(p), NEW folder, NEW m
  PROVE  IsFiniteSet(Newer(p, folder, m)) /\ Cardinality(Newer(p, folder, m)) \in Nat
  BY MailsAreFinite, FS_Subset, FS_CardinalityType DEF Newer

LEMMA NewerGrows ==
  ASSUME NEW p, IsPortal(p), NEW q, IsPortal(q), MailsStay(p, q), NEW folder, NEW m
  PROVE  Cardinality(Newer(p, folder, m)) <= Cardinality(Newer(q, folder, m))
  <1>1. Newer(p, folder, m) \subseteq Newer(q, folder, m)
    BY DEF Newer, MailsIn, MailsStay
  <1>2. IsFiniteSet(Newer(q, folder, m))
    BY NewerIsFinite
  <1> QED BY <1>1, <1>2, FS_Subset

\* Of two messages, the newer has less before it.
LEMMA NewerDiffers ==
  ASSUME NEW p, IsPortal(p), NEW folder, NEW m \in MailsIn(p, folder), NEW n \in MailsIn(p, folder), n > m
  PROVE  Cardinality(Newer(p, folder, n)) < Cardinality(Newer(p, folder, m))
  <1>1. MailsIn(p, folder) \subseteq Nat
    BY Collections DEF Kinds, MailsIn
  <1>2. Newer(p, folder, n) \subseteq Newer(p, folder, m) /\ Newer(p, folder, n) # Newer(p, folder, m)
    BY <1>1 DEF Newer
  <1>3. IsFiniteSet(Newer(p, folder, m))
    BY NewerIsFinite
  <1>4. Cardinality(Newer(p, folder, m)) \in Nat /\ Cardinality(Newer(p, folder, n)) \in Nat
    BY NewerIsFinite
  <1> QED BY <1>2, <1>3, <1>4, FS_Subset

\* The message with k others before it is in place k + 1.
LEMMA PlaceOfMail ==
  ASSUME NEW p, IsPortal(p), NEW folder, NEW m \in MailsIn(p, folder),
         NEW k, k = Cardinality(Newer(p, folder, m))
  PROVE  /\ k \in Nat /\ k < Cardinality(MailsIn(p, folder))
         /\ Newest(p, folder)[k + 1] = m
  <1> DEFINE S == MailsIn(p, folder)
  <1>1. S \subseteq Nat /\ IsFiniteSet(S) /\ Cardinality(S) \in Nat
    BY Collections, MailsAreFinite DEF Kinds, MailsIn
  <1>2. k \in Nat
    BY NewerIsFinite
  <1>3. k < Cardinality(S)
    <2>1. Newer(p, folder, m) \subseteq S /\ Newer(p, folder, m) # S
      BY <1>1 DEF Newer
    <2> HIDE DEF S
    <2> QED BY <1>1, <1>2, <2>1, FS_Subset
  <1>4. ASSUME NEW n \in S, Cardinality(Newer(p, folder, n)) = k
        PROVE  n = m
    <2>1. ~(n > m) /\ ~(m > n)
      BY <1>2, <1>4, NewerDiffers
    <2> QED BY <1>1, <2>1
  <1>5. Newest(p, folder) = [i \in 1 .. Cardinality(S) |->
                               CHOOSE n \in S : Cardinality(Newer(p, folder, n)) = i - 1]
    BY DEF Newest, MailsIn, Newer
  <1>6. k + 1 \in 1 .. Cardinality(S) /\ (k + 1) - 1 = k
    BY <1>1, <1>2, <1>3
  <1>7. Newest(p, folder)[k + 1] = CHOOSE n \in S : Cardinality(Newer(p, folder, n)) = k
    BY <1>5, <1>6
  <1> HIDE DEF S
  <1>8. m \in S
    BY DEF S
  <1> QED BY <1>2, <1>3, <1>4, <1>7, <1>8 DEF S

\* A message that is not on a page before this one is on it, or on a page after it.
LEMMA PageHolds ==
  ASSUME NEW p, IsPortal(p), NEW folder, NEW page \in Nat \ {0}, NEW m \in MailsIn(p, folder),
         Cardinality(Newer(p, folder, m)) >= (page - 1) * MailPage
  PROVE  LET batch == MailsPage(p, folder, page)
         IN  \/ \E i \in DOMAIN batch : batch[i] = m
             \/ Len(batch) = MailPage /\ Cardinality(Newer(p, folder, m)) >= page * MailPage
  <1> DEFINE all == Newest(p, folder)
             total == Cardinality(MailsIn(p, folder))
             last == Min({page * MailPage, Len(all)})
             batch == MailsPage(p, folder, page)
             first == (page - 1) * MailPage + 1
             k == Cardinality(Newer(p, folder, m))
  <1>1. total \in Nat
    BY MailsAreFinite
  <1>2. Len(all) = total
    BY <1>1, FunctionIsList DEF Newest, MailsIn
  <1>a. k \in Nat /\ k < total /\ all[k + 1] = m
    BY PlaceOfMail
  <1>b. k >= (page - 1) * MailPage
    OBVIOUS
  <1> HIDE DEF all, total, k
  <1>3. page * MailPage \in Nat /\ (page - 1) * MailPage \in Nat /\ MailPage \in Nat
        /\ page * MailPage = (page - 1) * MailPage + MailPage
    BY MailAssumption
  <1>4. last \in {page * MailPage, total} /\ last <= page * MailPage /\ last <= total
    BY <1>1, <1>2, <1>3, LeastNat
  <1>5. batch = SubSeq(all, first, last)
    BY DEF MailsPage, all
  <1> HIDE DEF last, batch
  <1>6. first \in Int /\ last \in Int
    BY <1>1, <1>3, <1>4
  <1>7. /\ Len(batch) = IF first <= last THEN last - first + 1 ELSE 0
        /\ DOMAIN batch = 1 .. last - first + 1
        /\ \A i \in 1 .. last - first + 1 : batch[i] = all[first + i - 1]
    <2> HIDE DEF first
    <2> QED BY <1>5, <1>6, SubSeqList
  <1>8. CASE k < page * MailPage
    <2> DEFINE i == k + 2 - first
    <2>1. i \in 1 .. last - first + 1 /\ first + i - 1 = k + 1
      BY <1>3, <1>4, <1>6, <1>8, <1>a, <1>b, <1>1
    <2> HIDE DEF i, first
    <2>2. i \in DOMAIN batch /\ batch[i] = m
      BY <1>7, <1>a, <2>1
    <2> QED BY <2>2 DEF batch
  <1>9. CASE ~(k < page * MailPage)
    <2>1. last = page * MailPage
      BY <1>1, <1>3, <1>4, <1>9, <1>a
    <2>2. Len(batch) = MailPage
      BY <1>3, <1>7, <2>1
    <2>3. k >= page * MailPage
      BY <1>3, <1>9, <1>a
    <2> QED BY <2>2, <2>3 DEF batch, k
  <1> QED BY <1>8, <1>9

LEMMA PageIsRead ==
  ASSUME NEW p, IsPortal(p), NEW x, IsRequest(x), Pages(x), Stops(x), x.val.limit = 0,
         NEW batch, batch = MailsPage(p, x.val.folder, x.at)
  PROVE  /\ IsList(batch)
         /\ \E read, y : PageReads(p, x, batch, read, y)
  <1> DEFINE skip  == x.val.skip
             past  == Max({skip - Len(batch), 0})
             stop  == LastPage(batch)
             rest  == [x.val EXCEPT !.skip = past, !.limit = 0]
             read  == [i \in DOMAIN batch |-> IF i <= skip THEN Counted(ReadMail(batch[i])) ELSE ReadMail(batch[i])]
             at    == x.at + 1
             y     == [x EXCEPT !.at = at, !.val = rest]
  <1>1. Hydrate(p, x) = read \o (IF stop THEN <<>> ELSE <<y>>)
    BY DEF Hydrate, Nothing
  <1>2. x.at \in Nat \ {0} /\ IsWalk(x.val) /\ DOMAIN x = RequestFields
    BY DEF IsRequest, Fits, Pages
  <1>3. IsList(batch)
    BY <1>2, MailsPageIsList
  <1>4. rest.folder = x.val.folder /\ rest.limit = 0
    BY <1>2 DEF IsWalk
  <1>5. Stops(y) /\ Pages(y) /\ y.at = x.at + 1 /\ y.val = rest
    BY <1>2 DEF RequestFields, Stops, Pages
  <1>6. stop = (Len(batch) < MailPage)
    BY DEF LastPage
  <1> HIDE DEF y, rest, past, stop
  <1>7. ASSUME NEW m
        PROVE  /\ NotesMail(ReadMail(m)) /\ ReadMail(m).at = m
               /\ NotesMail(Counted(ReadMail(m))) /\ Counted(ReadMail(m)).at = m
    BY DEF ReadMail, Counted, NotesMail, Stops, Must, Request, PlainUse
  <1>8. Len(batch) \in Nat /\ DOMAIN batch = 1 .. Len(batch)
    BY <1>3, ListShape
  <1>9. read = [i \in 1 .. Len(batch) |-> read[i]]
    BY <1>8
  <1>10. IsList(read) /\ Len(read) = Len(batch)
    <2> HIDE DEF read
    <2> QED BY <1>8, <1>9, FunctionIsList
  <1>11. \A i \in 1 .. Len(batch) : NotesMail(read[i]) /\ read[i].at = batch[i]
    BY <1>7, <1>8
  <1> HIDE DEF read
  <1>12. PageReads(p, x, batch, read, y)
    BY <1>1, <1>4, <1>5, <1>6, <1>10, <1>11 DEF PageReads
  <1> QED BY <1>3, <1>12

LEMMA PageAnswered ==
  ASSUME NEW s, NEW p, IsPortal(p), MailsStay(s, p),
         NEW r, NEW noted, NEW x, IsRequest(x), Walking(s, p, x, r, noted),
         NEW rest, IsList(rest)
  PROVE  \E n \in Nat : Reading(s, p, Hydrate(p, x) \o rest, r, noted, n)
  <1> DEFINE folder == r.val.folder
             batch == MailsPage(p, folder, x.at)
             n == Len(batch)
             todo == Hydrate(p, x) \o rest
             now == noted \cup Notes(todo, n)
  <1>1. /\ Pages(x) /\ Stops(x) /\ x.val.limit = 0 /\ x.val.folder = folder
        /\ \A m \in MailsIn(s, folder) : m \in noted \/ Cardinality(Newer(p, folder, m)) >= (x.at - 1) * MailPage
    BY DEF Walking
  <1>2. x.at \in Nat \ {0}
    BY <1>1 DEF IsRequest, Fits, Pages
  <1>3. IsList(batch) /\ \E read, y : PageReads(p, x, batch, read, y)
    BY <1>1, PageIsRead
  <1>4. \A m \in MailsIn(s, folder) :
          \/ m \in noted
          \/ \E i \in DOMAIN batch : batch[i] = m
          \/ Len(batch) = MailPage /\ Cardinality(Newer(p, folder, m)) >= x.at * MailPage
    <2>1. MailsIn(s, folder) \subseteq MailsIn(p, folder)
      BY DEF MailsIn, MailsStay
    <2> QED BY <1>1, <1>2, <2>1, PageHolds
  <1> HIDE DEF batch, folder
  <1>5. PICK read, y : PageReads(p, x, batch, read, y)
    BY <1>3
  <1>6. /\ IsList(read) /\ Len(read) = n
        /\ \A i \in 1 .. n : NotesMail(read[i]) /\ read[i].at = batch[i]
        /\ Hydrate(p, x) = read \o (IF n < MailPage THEN <<>> ELSE <<y>>)
        /\ Stops(y) /\ Pages(y) /\ y.at = x.at + 1 /\ y.val.folder = folder /\ y.val.limit = 0
    BY <1>1, <1>5 DEF PageReads
  <1>7. n \in Nat /\ DOMAIN batch = 1 .. n /\ DOMAIN read = 1 .. n
    BY <1>3, <1>6, ListShape
  <1> DEFINE script == IF n < MailPage THEN <<>> ELSE <<y>>
  <1>8. IsList(script) /\ (~(n < MailPage) => 1 \in DOMAIN script /\ script[1] = y)
    BY OneElement
  <1>9. todo = (read \o script) \o rest
    BY <1>6
  <1> HIDE DEF n, todo, script, now
  <1>10. /\ IsList(read \o script)
         /\ \A i \in DOMAIN read : i \in DOMAIN (read \o script) /\ (read \o script)[i] = read[i]
         /\ \A i \in DOMAIN script : Len(read) + i \in DOMAIN (read \o script) /\ (read \o script)[Len(read) + i] = script[i]
    BY <1>6, <1>8, ConcatPlaces, ConcatElements
  <1>11. \A i \in DOMAIN (read \o script) : i \in DOMAIN todo /\ todo[i] = (read \o script)[i]
    BY <1>9, <1>10, ConcatPlaces
  <1>12. \A i \in 1 .. n : i \in DOMAIN todo /\ NotesMail(todo[i]) /\ todo[i].at = batch[i]
    BY <1>6, <1>7, <1>10, <1>11
  <1>13. noted \subseteq now /\ \A i \in DOMAIN batch : batch[i] \in now
    BY <1>7, <1>12 DEF Notes, now
  <1>14. CASE n < MailPage
    <2>0. n # MailPage
      <3>1. n \in Nat /\ MailPage \in Nat /\ n < MailPage
        BY <1>7, <1>14, MailAssumption
      <3> QED BY <3>1
    <2>1. \A m \in MailsIn(s, folder) : m \in now
      BY <1>4, <1>13, <2>0 DEF n
    <2>2. AllNoted(s, r, now)
      BY <2>1 DEF AllNoted, folder
    <2> QED BY <1>7, <1>12, <2>2 DEF Reading, todo, now
  <1>15. CASE ~(n < MailPage)
    <2>1. n + 1 \in DOMAIN todo /\ todo[n + 1] = y
      BY <1>6, <1>8, <1>10, <1>11, <1>15
    <2>2. y.at - 1 = x.at
      BY <1>2, <1>6
    <2>3. \A m \in MailsIn(s, folder) : m \in now \/ Cardinality(Newer(p, folder, m)) >= (y.at - 1) * MailPage
      BY <1>4, <1>13, <2>2
    <2>4. Walking(s, p, y, r, now)
      BY <1>6, <2>3 DEF Walking, folder
    <2> QED BY <1>7, <1>12, <2>1, <2>4 DEF Reading, todo, now
  <1> QED BY <1>14, <1>15

\* What a step counts is noted; what it sends that counts is counted unless a breaks.
LEMMA DoneGrows ==
  ASSUME Sound, NEW a \in Actors, Step(a), NEW h, h = Head(session[a].todo)
  PROVE  /\ session[a].done \subseteq session'[a].done
         /\ h.counts /\ Alternatives(h) = {} /\ h.onErr = "stop" /\ ~session'[a].failed
              => session'[a].done = session[a].done \cup {h.at}
  <1> DEFINE d == session[a].done
  <1>1. DOMAIN session = Actors /\ DOMAIN session[a] = SessionFields
    BY DEF Sound
  <1>2. CASE Answered(a, h)
    BY <1>1, <1>2 DEF Answered, SessionFields, d
  <1>3. CASE Refused(a, h)
    <2>1. session'[a].done = d
      BY <1>1, <1>3 DEF Instead, SessionFields, Broken, Skipped, DealsWith, Refused
    <2>2. Alternatives(h) = {} /\ h.onErr = "stop" => session'[a].failed
      BY <1>3, <1>1 DEF Refused, DealsWith, Broken, SessionFields
    <2> QED BY <2>1, <2>2
  <1> QED BY <1>2, <1>3 DEF Step, Succeed, Reject, Fail, ApplyTwice

\* Reading and walking are tried once, and make nothing.
LEMMA ReadersStop ==
  ASSUME NEW x, Stops(x), Pages(x) \/ NotesMail(x)
  PROVE  Alternatives(x) = {} /\ x.onErr = "stop" /\ ~WorkCreates(x)
  BY NoOtherWay DEF Stops, Pages, NotesMail, BusinessUses, WorkCreates, ProjectsCreates,
     BusinessCreates, Docs!DocumentsCreates

LEMMA PageThen ==
  ASSUME NEW p, NEW x, Pages(x), NEW more \in WorkThen(p, x)
  PROVE  more = Hydrate(p, x)
  <1> DEFINE y == Hydrate(p, x)
  <1>1. BusinessThen(p, x) = {y} /\ x.use \in BusinessUses
    BY DEF BusinessThen, BusinessUses, Pages
  <1> HIDE DEF y
  <1>2. more = y
    BY <1>1, OnlyBusinessThen
  <1> QED BY <1>2 DEF y

\* The first of the messages is noted.
LEMMA OneRead ==
  ASSUME NEW s, NEW p, NEW todo, IsList(todo), NEW r, NEW noted, NEW n \in Nat \ {0},
         Reading(s, p, todo, r, noted, n)
  PROVE  /\ todo # <<>> /\ NotesMail(Head(todo))
         /\ Reading(s, p, Tail(todo), r, noted \cup {Head(todo).at}, n - 1)
  <1> DEFINE t == Tail(todo)
  <1>1. /\ \A i \in 1 .. n : i \in DOMAIN todo /\ NotesMail(todo[i])
        /\ \/ AllNoted(s, r, noted \cup Notes(todo, n))
           \/ n + 1 \in DOMAIN todo /\ Walking(s, p, todo[n + 1], r, noted \cup Notes(todo, n))
    BY DEF Reading
  <1>2. todo # <<>>
    BY <1>1, OneElement
  <1>3. Head(todo) = todo[1] /\ \A i \in DOMAIN t : t[i] = todo[i + 1]
    BY <1>2, TailList
  <1>4. Len(todo) \in Nat /\ DOMAIN todo = 1 .. Len(todo) /\ DOMAIN t = 1 .. Len(todo) - 1
    BY <1>2, TailList, ListShape, HeadTailProperties
  <1> HIDE DEF t
  <1>5. \A i \in 1 .. n - 1 : i \in DOMAIN t /\ t[i] = todo[i + 1] /\ i + 1 \in 1 .. n
    BY <1>1, <1>3, <1>4
  <1>6. \A i \in 1 .. n : i = 1 \/ (i - 1 \in 1 .. n - 1 /\ t[i - 1] = todo[i])
    <2>1. \A i \in 1 .. n : i = 1 \/ (i - 1 \in 1 .. n - 1 /\ (i - 1) + 1 = i)
      OBVIOUS
    <2> QED BY <1>5, <2>1
  <1>7. Notes(todo, n) = {Head(todo).at} \cup Notes(t, n - 1)
    <2>1. 1 \in 1 .. n
      OBVIOUS
    <2> QED BY <1>3, <1>5, <1>6, <2>1 DEF Notes
  <1>8. noted \cup Notes(todo, n) = (noted \cup {Head(todo).at}) \cup Notes(t, n - 1)
    BY <1>7
  <1>9. \A i \in 1 .. n - 1 : i \in DOMAIN t /\ NotesMail(t[i])
    BY <1>1, <1>5
  <1>10. n + 1 \in DOMAIN todo => (n - 1) + 1 \in DOMAIN t /\ t[(n - 1) + 1] = todo[n + 1]
    BY <1>3, <1>4
  <1>11. Reading(s, p, t, r, noted \cup {Head(todo).at}, n - 1)
    BY <1>1, <1>8, <1>9, <1>10 DEF Reading
  <1>12. NotesMail(Head(todo))
    BY <1>1, <1>3
  <1> QED BY <1>2, <1>11, <1>12 DEF t

LEMMA MailingIs ==
  ASSUME Sound, IsPortal(portal), NEW a \in Actors, NEW r \in Mailing(a), NEW noted
  PROVE  Walking(start, portal, r, r, noted)
  <1>1. r \in ToSet(jobs[a]) /\ r.use = "mail page" /\ r.val.limit = 0
    BY DEF Mailing
  <1>2. IsOpening(r)
    BY <1>1, JobsAssumption DEF Sound, ToSet
  <1> DEFINE q == For("mail page", Must("messages", 1, [folder |-> r.val.folder, skip |-> r.val.skip,
                                                         limit |-> r.val.limit]))
  <1>4. r = q
    <2>1. r = Head(<<q>>)
      BY <1>1, <1>2 DEF IsOpening, FetchMailFolder
    <2> HIDE DEF q
    <2>2. Head(<<q>>) = q
      OBVIOUS
    <2> QED BY <2>1, <2>2
  <1>5. Stops(q) /\ Pages(q) /\ q.at = 1
    BY DEF For, Must, Request, Stops, Pages
  <1> HIDE DEF q
  <1>6. \A m : Cardinality(Newer(portal, r.val.folder, m)) >= (1 - 1) * MailPage
    BY NewerIsFinite, MailAssumption
  <1> QED BY <1>1, <1>4, <1>5, <1>6 DEF Walking

\* Messages that come in, and more that is noted, do no harm.
LEMMA WalkingStays ==
  ASSUME NEW s, NEW p, IsPortal(p), NEW q, IsPortal(q), MailsStay(p, q), NEW x, IsRequest(x), NEW r,
         NEW noted, NEW now, noted \subseteq now, Walking(s, p, x, r, noted)
  PROVE  Walking(s, q, x, r, now)
  <1> DEFINE k == (x.at - 1) * MailPage
  <1>1. k \in Int
    <2>1. x.at \in Nat /\ MailPage \in Nat
      BY MailAssumption DEF Walking, IsRequest, Fits, Pages
    <2> QED BY <2>1
  <1>2. \A m \in MailsIn(s, r.val.folder) : m \in noted \/ Cardinality(Newer(p, r.val.folder, m)) >= k
    BY DEF Walking
  <1> HIDE DEF k
  <1>3. \A m \in MailsIn(s, r.val.folder) : m \in now \/ Cardinality(Newer(q, r.val.folder, m)) >= k
    BY <1>1, <1>2, NewerGrows, NewerIsFinite
  <1> QED BY <1>3 DEF Walking, k

LEMMA ReadingStays ==
  ASSUME NEW s, NEW p, IsPortal(p), NEW q, IsPortal(q), MailsStay(p, q),
         NEW todo, \A i \in DOMAIN todo : IsRequest(todo[i]), NEW r,
         NEW noted, NEW now, noted \subseteq now, NEW n \in Nat, Reading(s, p, todo, r, noted, n)
  PROVE  Reading(s, q, todo, r, now, n)
  <1> DEFINE d == noted \cup Notes(todo, n)
             e == now \cup Notes(todo, n)
  <1>1. d \subseteq e
    OBVIOUS
  <1>2. /\ \A i \in 1 .. n : i \in DOMAIN todo /\ NotesMail(todo[i])
        /\ AllNoted(s, r, d) \/ (n + 1 \in DOMAIN todo /\ Walking(s, p, todo[n + 1], r, d))
    BY DEF Reading
  <1> HIDE DEF d, e
  <1>3. AllNoted(s, r, d) => AllNoted(s, r, e)
    BY <1>1 DEF AllNoted
  <1>4. n + 1 \in DOMAIN todo /\ Walking(s, p, todo[n + 1], r, d) => Walking(s, q, todo[n + 1], r, e)
    BY <1>1, WalkingStays
  <1> QED BY <1>2, <1>3, <1>4 DEF Reading, e

LEMMA FetchingBegins == Init /\ Sound => FetchingGoesOn
  <1> SUFFICES ASSUME Init, Sound PROVE FetchingGoesOn
    OBVIOUS
  <1>1. start = portal /\ portal \in Portals /\ \A a \in Actors : session[a] = Fresh(jobs[a])
    BY DEF Init
  <1>2. ASSUME NEW a \in Actors PROVE session[a].todo = jobs[a]
    <2>1. session[a] = Fresh(jobs[a])
      BY <1>1
    <2>2. Fresh(jobs[a]).todo = jobs[a]
      BY DEF Fresh
    <2> QED BY <2>1, <2>2
  <1>3. MailsOfTheStart /\ IsPortal(portal)
    BY <1>1, PortalsAssumption DEF MailsStay, MailsOfTheStart
  <1>4. ASSUME NEW a \in Actors, NEW r \in Mailing(a) PROVE Fetched(a, r)
    <2>1. r \in ToSet(session[a].todo)
      BY <1>2 DEF Mailing
    <2>2. Walking(start, portal, r, r, session[a].done)
      BY <1>3, MailingIs
    <2> QED BY <2>1, <2>2 DEF Fetched
  <1> QED BY <1>3, <1>4 DEF FetchingGoesOn

\* Somebody else took a step.
LEMMA FetcherWaits ==
  ASSUME IsPortal(portal), IsPortal(portal'), MailsStay(portal, portal'), start' = start,
         NEW a, \A i \in DOMAIN session[a].todo : IsRequest(session[a].todo[i]), session'[a] = session[a],
         NEW r, Fetched(a, r)
  PROVE  Fetched(a, r)'
  <1>1. CASE session[a].failed
    BY <1>1 DEF Fetched
  <1>2. ASSUME NEW x \in ToSet(session[a].todo), Walking(start, portal, x, r, session[a].done) PROVE Fetched(a, r)'
    <2>1. IsRequest(x)
      BY DEF ToSet
    <2>2. Walking(start, portal', x, r, session[a].done)
      BY <1>2, <2>1, WalkingStays
    <2> QED BY <2>2 DEF Fetched
  <1>3. ASSUME NEW n \in Nat, Reading(start, portal, session[a].todo, r, session[a].done, n) PROVE Fetched(a, r)'
    <2>1. Reading(start, portal', session[a].todo, r, session[a].done, n)
      BY <1>3, ReadingStays
    <2> QED BY <2>1 DEF Fetched
  <1> QED BY <1>1, <1>2, <1>3 DEF Fetched

\* The first request of a was answered, or belongs to another part of its work.
LEMMA FetcherMoves ==
  ASSUME Sound, MailsStay(start, portal'), MailsStay(portal, portal'), IsPortal(portal'), start' = start,
         NEW a \in Actors, Step(a), NEW h, NEW rest, h = Head(session[a].todo), rest = Tail(session[a].todo),
         session[a].todo # <<>>, Good(Asked(a), h), GoodScript(Asked(a), rest), Happens(a, h, rest),
         ~session'[a].failed, ~session[a].failed,
         NEW r, Fetched(a, r)
  PROVE  Fetched(a, r)'
  <1> DEFINE d == session[a].done
             e == session'[a].done
  <1>1. d \subseteq e /\ IsPortal(portal)
    BY DoneGrows DEF Sound
  <1>2. /\ IsList(session[a].todo) /\ IsList(rest) /\ IsRequest(h) /\ \A x \in ToSet(rest) : IsRequest(x)
        /\ \A i \in DOMAIN rest : IsRequest(rest[i])
    BY DEF Sound, GoodScript, Good, ToSet
  <1>4. ASSUME NEW x \in ToSet(rest), Walking(start, portal, x, r, d) PROVE Fetched(a, r)'
    <2>1. x \in ToSet(session'[a].todo)
      BY RestStays
    <2>2. Walking(start, portal', x, r, e)
      BY <1>1, <1>2, <1>4, WalkingStays
    <2> QED BY <2>1, <2>2 DEF Fetched
  <1>5. ASSUME Walking(start, portal, h, r, d) PROVE Fetched(a, r)'
    <2>1. Alternatives(h) = {} /\ h.onErr = "stop" /\ ~WorkCreates(h) /\ Pages(h)
      BY <1>5, ReadersStop DEF Walking
    <2>2. PICK more \in WorkThen(portal', h) : session'[a].todo = more \o rest
      BY <2>1, StopperAnswered
    <2>3. more = Hydrate(portal', h)
      BY <2>1, PageThen
    <2>4. Walking(start, portal', h, r, e)
      BY <1>1, <1>2, <1>5, WalkingStays
    <2>5. PICK n \in Nat : Reading(start, portal', Hydrate(portal', h) \o rest, r, e, n)
      BY <1>2, <2>4, PageAnswered
    <2> QED BY <2>2, <2>3, <2>5 DEF Fetched
  <1>6. ASSUME NEW n \in Nat \ {0}, Reading(start, portal, session[a].todo, r, d, n) PROVE Fetched(a, r)'
    <2>1. NotesMail(h) /\ Reading(start, portal, rest, r, d \cup {h.at}, n - 1)
      BY <1>2, <1>6, OneRead
    <2>2. Alternatives(h) = {} /\ h.onErr = "stop" /\ ~WorkCreates(h) /\ h.counts /\ h.use = PlainUse
      BY <2>1, ReadersStop DEF NotesMail
    <2>3. PICK more \in WorkThen(portal', h) : session'[a].todo = more \o rest
      BY <2>2, StopperAnswered
    <2>4. session'[a].todo = rest
      BY <2>2, <2>3, <1>2, PlainThen, ListShape
    <2>5. e = d \cup {h.at}
      BY <2>2, DoneGrows
    <2>6. n - 1 \in Nat
      OBVIOUS
    <2> DEFINE k == n - 1
               f == d \cup {h.at}
    <2> HIDE DEF k, f, d, e
    <2>7. Reading(start, portal', rest, r, e, k)
      <3>1. Reading(start, portal, rest, r, f, k) /\ f \subseteq e /\ k \in Nat
        BY <2>1, <2>5, <2>6 DEF k, f
      <3> QED BY <1>1, <1>2, <3>1, ReadingStays
    <2> QED BY <2>4, <2>6, <2>7 DEF Fetched, k, e
  <1>7. ASSUME Reading(start, portal, session[a].todo, r, d, 0) PROVE Fetched(a, r)'
    <2>1. Notes(session[a].todo, 0) = {}
      BY DEF Notes
    <2>2. AllNoted(start, r, d) \/ (1 \in DOMAIN session[a].todo /\ Walking(start, portal, session[a].todo[1], r, d))
      <3>1. d \cup {} = d /\ 0 + 1 = 1
        OBVIOUS
      <3> HIDE DEF d
      <3> QED BY <1>7, <2>1, <3>1 DEF Reading
    <2>3. session[a].todo[1] = h
      BY <1>2, TailList
    <2>4. CASE AllNoted(start, r, d)
      <3>1. AllNoted(start, r, e \cup Notes(session'[a].todo, 0))
        BY <1>1, <2>4 DEF AllNoted
      <3>2. Reading(start, portal', session'[a].todo, r, e, 0)
        BY <3>1 DEF Reading
      <3> QED BY <3>2 DEF Fetched
    <2> QED BY <1>5, <2>2, <2>3, <2>4
  <1>8. ToSet(session[a].todo) = {h} \cup ToSet(rest)
    BY <1>2, FirstAndRest
  <1>9. \A n \in Nat : n = 0 \/ n \in Nat \ {0}
    OBVIOUS
  <1> HIDE DEF d, e
  <1>10. \/ \E x \in {h} \cup ToSet(rest) : Walking(start, portal, x, r, d)
         \/ \E n \in Nat : Reading(start, portal, session[a].todo, r, d, n)
    BY <1>8 DEF Fetched, d
  <1> QED BY <1>4, <1>5, <1>6, <1>7, <1>9, <1>10

LEMMA FetchingMoves ==
  ASSUME Sound, FetchingGoesOn, NEW a \in Actors, Step(a)
  PROVE  FetchingGoesOn'
  <1> DEFINE h == Head(session[a].todo)
             rest == Tail(session[a].todo)
  <1>1. /\ session[a].todo # <<>> /\ Good(Asked(a), h) /\ GoodScript(Asked(a), rest)
        /\ Moves(a, h, rest)
    BY StepMoves
  <1>2. Happens(a, h, rest)
    BY StepHappens
  <1>a. h = Head(session[a].todo) /\ rest = Tail(session[a].todo)
    OBVIOUS
  <1> HIDE DEF h, rest
  <1>3. Kept(a) /\ IsPortal(portal') /\ IsPortal(portal) /\ jobs' = jobs /\ start' = start /\ IsRequest(h)
    BY <1>1 DEF Moves, Outcome, Sound, Kept, Good
  <1>4. SUFFICES ASSUME NobodySends(TakenMails)
                 PROVE  MailsOfTheStart' /\ \A b \in Actors : \A r \in Mailing(b) : Fetched(b, r)'
    BY <1>3 DEF NobodySends, Sends, Mailing, TakenMails, FetchingGoesOn
  <1>5. MailsOfTheStart
    BY <1>4 DEF FetchingGoesOn
  <1>6. MailsStay(portal, portal')
    BY <1>1, <1>4, <1>2, <1>3, NobodyDoes, HappensKeepsMails DEF TakenMails, OnlyAsked, TakesMails
  <1>7. MailsOfTheStart' /\ MailsStay(start, portal')
    BY <1>5, <1>6, <1>3, MailsStayTwice DEF MailsOfTheStart
  <1>8. ASSUME NEW b \in Actors, NEW r \in Mailing(b) PROVE Fetched(b, r)'
    <2>1. Fetched(b, r)
      BY <1>4 DEF FetchingGoesOn
    <2>2. CASE b # a
      <3>1. session'[b] = session[b]
        BY <1>3, <2>2 DEF Kept
      <3>2. \A i \in DOMAIN session[b].todo : IsRequest(session[b].todo[i])
        BY DEF Sound, GoodScript, Good, ToSet
      <3> QED BY <1>3, <1>6, <2>1, <3>1, <3>2, FetcherWaits
    <2>3. CASE session'[b].failed
      BY <2>3 DEF Fetched
    <2>4. CASE b = a /\ ~session'[a].failed
      <3>1. ~session[a].failed
        BY <1>1, <2>4 DEF Moves, GoesOn, GoesElsewhere, Goes
      <3> QED BY <1>1, <1>2, <1>3, <1>6, <1>7, <1>a, <2>1, <2>4, <3>1, FetcherMoves
    <2> QED BY <2>2, <2>3, <2>4
  <1> QED BY <1>7, <1>8

LEMMA FetchingEnds == Sound /\ FetchingGoesOn => EveryMailIsFetched
  <1> SUFFICES ASSUME Sound, FetchingGoesOn, NobodySends(TakenMails), NEW a \in Actors, Succeeded(a),
                      NEW r \in Mailing(a)
               PROVE  AllNoted(start, r, session[a].done)
    BY DEF EveryMailIsFetched, TakenMails, Mailing, ToSet, AllNoted, MailsIn
  <1>1. Fetched(a, r)
    BY DEF FetchingGoesOn
  <1>2. session[a].todo = <<>> /\ ~session[a].failed
    BY DEF Succeeded, Ended
  <1>3. DOMAIN session[a].todo = {} /\ ToSet(session[a].todo) = {}
    BY <1>2, OneElement DEF ToSet
  <1>4. PICK n \in Nat : Reading(start, portal, session[a].todo, r, session[a].done, n)
    BY <1>1, <1>2, <1>3 DEF Fetched
  <1>5. n = 0
    BY <1>3, <1>4 DEF Reading
  <1>6. Notes(session[a].todo, 0) = {}
    BY DEF Notes
  <1>7. AllNoted(start, r, session[a].done \cup Notes(session[a].todo, 0))
    BY <1>3, <1>4, <1>5 DEF Reading
  <1> QED BY <1>6, <1>7

\* mailsync.go:49: however many messages come in and push others to the next page, as long as
\* nobody removes any, a walk of a mail folder without a limit that succeeds has read, or
\* passed over as one of those to skip, every message that the folder had at the start.
THEOREM MailIsFetched == Spec => []EveryMailIsFetched
  <1>1. Init => Sound /\ FetchingGoesOn
    BY BeginsSound, FetchingBegins
  <1>2. Sound /\ FetchingGoesOn /\ [Next]_vars => (Sound /\ FetchingGoesOn)'
    <2> SUFFICES ASSUME Sound, FetchingGoesOn, [Next]_vars PROVE (Sound /\ FetchingGoesOn)'
      OBVIOUS
    <2>1. CASE UNCHANGED vars
      <3>1. FetchingGoesOn'
        BY <2>1 DEF vars, FetchingGoesOn, MailsOfTheStart, Mailing, Fetched, NobodySends, Sends
      <3> QED BY <2>1, <3>1, StaysSound
    <2>2. ASSUME NEW a \in Actors, Step(a) PROVE (Sound /\ FetchingGoesOn)'
      BY <2>2, MovesSoundly, FetchingMoves
    <2> QED BY <2>1, <2>2 DEF Next, Finished
  <1> QED BY <1>1, <1>2, FetchingEnds, PTL DEF Spec
-----------------------------------------------------------------------------
(* Boards: what is in work stays, unless somebody removes it.              *)

LEMMA LeftAlone ==
  ASSUME NEW p, Tasked(p), NEW r, ~AddsTask(r), ~AddsMilestone(r), NEW q, IsPortal(q),
         q.tasks = p.tasks, q.milestones = p.milestones
  PROVE  WorkGrows(p, q, r)
  BY DEF WorkGrows, Tasked, InWorkStays, NewAsAsked, Makes

\* A change that leaves a task where it is.
LEMMA TaskChanged ==
  ASSUME NEW p, IsPortal(p), Tasked(p), NEW r, ~AddsTask(r), ~AddsMilestone(r), NEW at \in DOMAIN p.tasks, NEW x,
         DOMAIN x = TaskFields, x.project = p.tasks[at].project, x.title = p.tasks[at].title,
         x.milestone = p.tasks[at].milestone,
         NEW q, IsPortal(q), q = WithRecord(p, "tasks", at, x)
  PROVE  WorkGrows(p, q, r)
  BY DEF IsPortal, Kinds, WithRecord, With, Tasked, WorkGrows, InWorkStays, NewAsAsked, Makes

LEMMA MilestoneAdded ==
  ASSUME NEW p, IsPortal(p), Tasked(p), NEW r, AddsMilestone(r), ~AddsTask(r),
         NEW x, x.project = r.at, x.title = r.val, NEW q, q = Add(p, "milestones", x)
  PROVE  WorkGrows(p, q, r)
  <1> DEFINE kind == "milestones"
  <1>1. kind \in Kinds /\ IsRecord(kind, x, p.next + 1)
    BY AnyRecord DEF Kinds
  <1>2. q = Add(p, kind, x)
    OBVIOUS
  <1>3. Added(p, q, kind, x)
    <2> HIDE DEF kind
    <2> QED BY <1>1, <1>2, AddOutcome
  <1>4. q.tasks = p.tasks
    BY <1>3 DEF IsPortal, Kinds, Added
  <1>5. /\ IsPortal(q) /\ DOMAIN q.milestones = DOMAIN p.milestones \cup {p.next} /\ q.milestones[p.next] = x
        /\ \A m \in DOMAIN p.milestones : q.milestones[m] = p.milestones[m]
    BY <1>3 DEF Added
  <1>6. LastId(q) = p.next
    BY <1>3 DEF Added, LastId
  <1>7. HasMilestone(q, LastId(q), r.at, r.val)
    BY <1>5, <1>6 DEF HasMilestone
  <1> HIDE DEF kind
  <1> QED BY <1>4, <1>5, <1>7 DEF WorkGrows, Tasked, InWorkStays, NewAsAsked, Makes

LEMMA TaskAdded ==
  ASSUME NEW p, IsPortal(p), Tasked(p), NEW r, AddsTask(r), ~AddsMilestone(r),
         NEW q, q = Add(p, "tasks", NewTask(r.at, r.val.title, r.val.milestone))
  PROVE  WorkGrows(p, q, r)
  <1> DEFINE kind == "tasks"
             x == NewTask(r.at, r.val.title, r.val.milestone)
  <1>1. kind \in Kinds /\ IsRecord(kind, x, p.next + 1)
    BY AnyRecord DEF Kinds
  <1>2. q = Add(p, kind, x)
    OBVIOUS
  <1>3. DOMAIN x = TaskFields /\ x.project = r.at /\ x.title = r.val.title /\ x.milestone = r.val.milestone
    BY DEF NewTask, TaskFields
  <1> HIDE DEF x
  <1>4. Added(p, q, kind, x)
    <2> HIDE DEF kind
    <2> QED BY <1>1, <1>2, AddOutcome
  <1>5. q.milestones = p.milestones
    BY <1>4 DEF IsPortal, Kinds, Added
  <1>6. /\ IsPortal(q) /\ DOMAIN q.tasks = DOMAIN p.tasks \cup {p.next} /\ q.tasks[p.next] = x
        /\ \A t \in DOMAIN p.tasks : q.tasks[t] = p.tasks[t]
    BY <1>4 DEF Added
  <1> HIDE DEF kind
  <1>7. Tasked(q) /\ InWorkStays(p, q)
    BY <1>3, <1>5, <1>6 DEF Tasked, InWorkStays
  <1>8. HasTask(q, p.next, r.at, r.val.title)
    BY <1>3, <1>6 DEF HasTask
  <1> QED BY <1>3, <1>6, <1>7, <1>8 DEF WorkGrows, NewAsAsked, Makes

LEMMA GrowsTwice ==
  ASSUME NEW p, NEW q, NEW s, NEW r, WorkGrows(p, q, r), WorkGrows(q, s, r)
  PROVE  WorkGrows(p, s, r)
  BY DEF WorkGrows, InWorkStays, NewAsAsked, HasTask

LEMMA DocumentsLeave ==
  ASSUME NEW p, IsPortal(p), NEW r, r.op \notin {"attach file", "detach file"}, NEW q, q = Docs!DocumentsEffect(p, r)
  PROVE  /\ q.tasks = p.tasks /\ q.milestones = p.milestones
         /\ r.op \notin {"open", "fetch", "write", "remove"} => q.disk = p.disk
  <1>0. {"tasks", "milestones", "disk"} \subseteq DOMAIN p
    BY DEF IsPortal, Kinds
  <1>1. CASE r.op = "upload"
    BY <1>1, <1>0 DEF Docs!DocumentsEffect, Docs!Upload, Docs!Add
  <1>2. CASE r.op = "update"
    BY <1>2, <1>0 DEF Docs!DocumentsEffect, Docs!Update
  <1>3. CASE r.op = "mkdir"
    BY <1>3, <1>0 DEF Docs!DocumentsEffect, Docs!Add
  <1>4. CASE r.op = "move items"
    BY <1>4, <1>0 DEF Docs!DocumentsEffect, Docs!MoveItems
  <1>5. CASE r.op = "copy items"
    BY <1>5, <1>0 DEF Docs!DocumentsEffect, Docs!CopyItems
  <1>6. CASE r.op = "drop folder"
    BY <1>6, <1>0 DEF Docs!DocumentsEffect, Docs!DropFolder
  <1>7. CASE r.op \in {"rename folder", "rename file", "drop file"}
    BY <1>0, <1>7 DEF Docs!DocumentsEffect
  <1>8. CASE r.op \in {"open", "fetch", "write", "remove"}
    BY <1>0, <1>8 DEF Docs!DocumentsEffect
  <1>9. CASE r.op \notin {"upload", "update", "mkdir", "move items", "copy items", "drop folder", "rename folder",
                          "rename file", "drop file", "attach file", "detach file", "open", "fetch", "write",
                          "remove"}
    <2>1. q = p
      BY <1>9 DEF Docs!DocumentsEffect
    <2> QED BY <2>1
  <1> QED BY <1>1, <1>2, <1>3, <1>4, <1>5, <1>6, <1>7, <1>8, <1>9

LEMMA DocumentsLeaveWork ==
  ASSUME NEW p, IsPortal(p), NEW r, r.op \notin {"attach file", "detach file"}, NEW q, q = Docs!DocumentsEffect(p, r)
  PROVE  q.tasks = p.tasks /\ q.milestones = p.milestones
  BY DocumentsLeave

LEMMA BusinessLeavesWork ==
  ASSUME NEW p, IsPortal(p), NEW r, NEW q, q = BusinessEffect(p, r)
  PROVE  q.tasks = p.tasks /\ q.milestones = p.milestones /\ q.disk = p.disk
  <1>0. {"tasks", "milestones", "disk"} \subseteq DOMAIN p
    BY DEF IsPortal, Kinds
  <1>1. CASE r.op \in {"send", "arrive", "add invoice", "add user", "add event"} \/ (r.op = "save draft" /\ r.at = 0)
    BY <1>1, <1>0 DEF BusinessEffect, SaveDraft, Add
  <1>2. CASE r.op = "save draft" /\ r.at # 0
    BY <1>0, <1>2 DEF BusinessEffect, SaveDraft
  <1>3. CASE r.op \in {"put invoice", "set status", "drop invoice", "drop copies", "put user", "activate",
                       "drop user", "drop event", "layout", "attach", "remove mails"}
    BY <1>0, <1>3 DEF BusinessEffect
  <1>4. CASE r.op = "pdf"
    BY <1>0, <1>4 DEF BusinessEffect, MakePDF, Add
  <1>5. CASE r.op \notin OnBusiness
    <2>1. q = p
      BY <1>5, WhoseRequest
    <2> QED BY <2>1
  <1> QED BY <1>1, <1>2, <1>3, <1>4, <1>5 DEF OnBusiness

\* Whatever removes nothing lets the work of the portal grow.
LEMMA EffectGrows ==
  ASSUME NEW p, IsPortal(p), Tasked(p), NEW r, IsRequest(r), Has(p, r), ~Removing(r), NEW q, q = WorkEffect(p, r)
  PROVE  WorkGrows(p, q, r)
  <1>0. "tasks" \in DOMAIN p /\ "milestones" \in DOMAIN p
    BY DEF IsPortal, Kinds
  <1>a. IsPortal(q)
    BY EffectOutcome DEF Outcome
  <1> DEFINE task == p.tasks[r.at]
  <1>1. CASE r.op \in OnProjects /\ q = ProjectsEffect(p, r)
    <2>1. CASE r.op = "add milestone"
      BY <1>1, <2>1, MilestoneAdded DEF ProjectsEffect, AddsMilestone, AddsTask
    <2>2. CASE r.op = "add task"
      BY <1>1, <2>2, TaskAdded DEF ProjectsEffect, AddsMilestone, AddsTask
    <2>3. CASE r.op \in {"add subtask", "status"}
      <3> DEFINE x == IF r.op = "status" THEN [task EXCEPT !.open = (r.val = "1")]
                      ELSE [task EXCEPT !.parts = Append(@, r.val)]
      <3>1. q = WithRecord(p, "tasks", r.at, x)
        BY <1>1, <2>3 DEF ProjectsEffect, WithRecord, With
      <3>2. r.at \in DOMAIN p.tasks /\ ~AddsTask(r) /\ ~AddsMilestone(r)
        BY <2>3 DEF Has, AddsMilestone, AddsTask
      <3>3. DOMAIN task = TaskFields
        BY <3>2 DEF Tasked
      <3>4. DOMAIN x = TaskFields /\ x.project = task.project /\ x.title = task.title /\ x.milestone = task.milestone
        BY <3>3 DEF TaskFields
      <3> HIDE DEF x
      <3> QED BY <1>a, <3>1, <3>2, <3>4, TaskChanged
    <2>4. CASE r.op = "add project"
      BY <1>0, <1>1, <2>4, <1>a, LeftAlone DEF ProjectsEffect, Add, AddsMilestone, AddsTask
    <2>5. CASE r.op \in {"put project", "join", "leave", "link"}
      BY <1>0, <1>1, <2>5, <1>a, LeftAlone DEF ProjectsEffect, AddsMilestone, AddsTask
    <2> QED BY <1>1, <2>1, <2>2, <2>3, <2>4, <2>5 DEF OnProjects, Removing, Removals
  <1>2. CASE r.op \in OnBusiness /\ q = BusinessEffect(p, r)
    <2>1. q.tasks = p.tasks /\ q.milestones = p.milestones
      BY <1>2, BusinessLeavesWork
    <2>2. ~AddsTask(r) /\ ~AddsMilestone(r)
      BY <1>2 DEF OnBusiness, AddsMilestone, AddsTask
    <2> QED BY <1>a, <2>1, <2>2, LeftAlone
  <1>3. CASE r.op \in OnDocuments /\ q = Docs!DocumentsEffect(p, r)
    <2>0. ~AddsTask(r) /\ ~AddsMilestone(r)
      BY <1>3 DEF OnDocuments, AddsMilestone, AddsTask
    <2>1. CASE r.op \in {"attach file", "detach file"}
      BY <1>3, <2>1, <1>a, <2>0, TaskChanged DEF Docs!DocumentsEffect, WithRecord, With, Has,
         Tasked, TaskFields
    <2>2. CASE r.op \notin {"attach file", "detach file"}
      BY <1>3, <2>2, <1>a, <2>0, DocumentsLeaveWork, LeftAlone
    <2> QED BY <2>1, <2>2
  <1>4. CASE r.op \notin OnProjects \cup OnBusiness \cup OnDocuments /\ q = p
    BY <1>4, LeftAlone DEF OnProjects, AddsMilestone, AddsTask
  <1> QED BY <1>1, <1>2, <1>3, <1>4, EffectParts

\* What a step leaves: no milestone goes, no task moves, and it makes what was accepted.
LEMMA HappensGrows ==
  ASSUME IsPortal(portal), Tasked(portal), NEW a, NEW r, IsRequest(r), NEW rest, Happens(a, r, rest), ~Removing(r)
  PROVE  /\ IsPortal(portal') /\ Tasked(portal') /\ InWorkStays(portal, portal') /\ NewAsAsked(portal, portal', r)
         /\ GoesElsewhere(a, r, rest) \/ Makes(portal', r)
  <1> DEFINE q == WorkEffect(portal, r)
  <1>1. CASE portal' = portal /\ GoesElsewhere(a, r, rest)
    BY <1>1 DEF InWorkStays, NewAsAsked, Tasked
  <1>2. WorkAccepts(portal, r) => Has(portal, r) /\ WorkGrows(portal, q, r)
    BY AcceptedHas, EffectGrows
  <1>3. CASE WorkAccepts(portal, r) /\ portal' = q
    BY <1>2, <1>3 DEF WorkGrows
  <1>4. CASE WorkAccepts(portal, r) /\ WorkCreates(r) /\ portal' = WorkEffect(q, r)
    BY <1>2, <1>4, CreatesAgain, EffectGrows, GrowsTwice DEF WorkGrows
  <1> QED BY <1>1, <1>3, <1>4 DEF Happens
-----------------------------------------------------------------------------
(* What is left of a board, and the requests that see to it.               *)

LEMMA OnBoardStays ==
  ASSUME NEW p, NEW q, InWorkStays(p, q)
  PROVE  /\ \A x : OnBoard(p, x) => OnBoard(q, x)
         /\ \A z : IsSeen(p, z) => IsSeen(q, z)
         /\ \A project, s, titles : BoardFits(p, project, s, titles) => BoardFits(q, project, s, titles)
  BY DEF InWorkStays, HasMilestone, HasTask, Listed, BoardFits, OnBoard, IsSeen

LEMMA WiderNested ==
  ASSUME NEW items, NEW T, NEW U, T \subseteq U, NestedIn(items, T)
  PROVE  NestedIn(items, U)
  BY DEF NestedIn

\* The request a project of a board begins with.
LEMMA FirstOfProject ==
  ASSUME NEW p, NEW at, NEW s, NEW op, NEW x, Sure(x, op, at, s, "board", <<>>), op # "add task", op # "add milestone",
         s.apply => Remaining(at, s) \subseteq AllItems /\ BoardFits(p, at, s, {})
  PROVE  /\ OnBoard(p, x)
         /\ \A z \in Remaining(at, s) : s.apply => Carry(x, z)
  <1>1. /\ Syncing(x) /\ StartsProject(x) /\ ~Upserting(x) /\ ~AddsTask(x)
        /\ x.at = at /\ x.val = s /\ Stops(x)
    BY DEF Sure, Is, Syncing, StartsProject, Upserting, AddsTask, Stops
  <1>2. StateOf(x) = s /\ Known(x) = {}
    BY <1>1 DEF StateOf, Known
  <1> QED BY <1>1, <1>2 DEF OnBoard, Carry

LEMMA NextProject ==
  ASSUME NEW p, NEW more, IsMore(more), NEW apply, NEW self,
         apply => MoreItems(more) \subseteq AllItems /\ \A b \in ToSet(more) : NestedIn(b.items, {}),
         NEW script, script = SyncProjects(more, apply, self)
  PROVE  /\ \A x \in ToSet(script) : OnBoard(p, x)
         /\ apply => \A z \in MoreItems(more) : \E x \in ToSet(script) : Carry(x, z)
  <1>1. CASE more = <<>>
    BY <1>1, OneElement DEF SyncProjects, Nothing, ToSet, MoreItems
  <1>2. CASE more # <<>>
    <2> DEFINE first == Head(more)
               rest == Tail(more)
               s == [items |-> first.items, apply |-> apply, ms |-> <<>>, have |-> {}, self |-> self, more |-> rest]
               at == first.project
               x == For("board", Must("milestones", at, s))
    <2>1. script = <<x>>
      BY <1>2 DEF SyncProjects
    <2>2. Sure(x, "milestones", at, s, "board", <<>>)
      BY SureRequests
    <2>3. ToSet(more) = {first} \cup ToSet(rest)
      BY <1>2, FirstAndRest DEF IsMore
    <2>4. s.items = first.items /\ s.more = rest /\ s.apply = apply /\ s.ms = <<>> /\ s.have = {}
      OBVIOUS
    <2>5. DOMAIN <<>> = {}
      BY OneElement
    <2> HIDE DEF x, s, first, rest
    <2>6. Remaining(at, s) = MoreItems(more)
      BY <2>3, <2>4 DEF Remaining, MoreItems
    <2>7. apply => BoardFits(p, at, s, {})
      BY <2>3, <2>4, <2>5 DEF BoardFits
    <2> HIDE DEF at
    <2>8. OnBoard(p, x) /\ \A z \in Remaining(at, s) : s.apply => Carry(x, z)
      BY <2>2, <2>4, <2>6, <2>7, FirstOfProject
    <2>9. \A y \in ToSet(script) : y = x
      BY <2>1, OnlyElement
    <2>10. x \in ToSet(script)
      BY <2>1, InScript
    <2> QED BY <2>4, <2>6, <2>8, <2>9, <2>10
  <1> QED BY <1>1, <1>2

\* The items after one of them.
LEMMA ItemsAfter ==
  ASSUME NEW items, IsList(items), NEW m \in DOMAIN items,
         NEW rest, rest = SubSeq(items, m + 1, Len(items))
  PROVE  /\ IsList(rest)
         /\ \A i \in DOMAIN rest : m + i \in DOMAIN items /\ rest[i] = items[m + i]
         /\ \A i \in DOMAIN items : i > m => i - m \in DOMAIN rest /\ rest[i - m] = items[i]
         /\ m \in Nat /\ DOMAIN items \subseteq Nat /\ DOMAIN rest \subseteq Nat \ {0}
  <1> DEFINE n == Len(items)
  <1>1. n \in Nat /\ DOMAIN items = 1 .. n
    BY ListShape
  <1>2. m \in Nat /\ m + 1 \in Int /\ n \in Int /\ n - (m + 1) + 1 = n - m
    BY <1>1
  <1>3. /\ IsList(rest) /\ DOMAIN rest = 1 .. n - (m + 1) + 1
        /\ \A i \in 1 .. n - (m + 1) + 1 : rest[i] = items[(m + 1) + i - 1]
    BY <1>2, SubSeqList
  <1> HIDE DEF n
  <1>4. DOMAIN rest = 1 .. n - m
    BY <1>2, <1>3
  <1>5. ASSUME NEW i \in DOMAIN rest PROVE m + i \in DOMAIN items /\ rest[i] = items[m + i]
    BY <1>1, <1>2, <1>4, <1>3
  <1>6. ASSUME NEW i \in DOMAIN items, i > m PROVE i - m \in DOMAIN rest /\ rest[i - m] = items[i]
    <2>1. i - m \in 1 .. n - m /\ m + (i - m) = i
      BY <1>1, <1>2, <1>6
    <2> QED BY <1>4, <1>5, <2>1
  <1>7. DOMAIN items \subseteq Nat /\ DOMAIN rest \subseteq Nat \ {0}
    BY <1>1, <1>2, <1>4
  <1> QED BY <1>2, <1>3, <1>5, <1>6, <1>7

LEMMA ThereIs ==
  ASSUME NEW s, NEW i
  PROVE  IsThere(s, i) <=> IF ForMilestone(s.items[i]) THEN s.items[i].milestone \in DOMAIN s.ms
                                                      ELSE s.items[i].task \in s.have
  BY DEF IsThere, ForMilestone

LEMMA ThereIsSeen ==
  ASSUME NEW p, NEW project, NEW s, NEW titles, BoardFits(p, project, s, titles), NEW i \in DOMAIN s.items,
         IsThere(s, i)
  PROVE  IsSeen(p, <<project, s.items[i]>>)
  BY ThereIs DEF BoardFits, IsSeen

LEMMA BehindItem ==
  ASSUME NEW s, IsBoard(s), NEW m \in DOMAIN s.items, NEW rest, rest = Behind(s, m)
  PROVE  /\ rest.items = SubSeq(s.items, m + 1, Len(s.items))
         /\ rest.apply = s.apply /\ rest.ms = s.ms /\ rest.have = s.have /\ rest.more = s.more
         /\ IsBoard(rest)
  BY ItemsAfter DEF IsBoard, Behind

LEMMA BehindFits ==
  ASSUME NEW p, NEW project, NEW s, IsBoard(s), NEW m \in DOMAIN s.items,
         \A i \in DOMAIN s.items : i < m => IsThere(s, i),
         BoardFits(p, project, s, DOMAIN s.ms), NEW rest, rest = Behind(s, m),
         NEW titles, DOMAIN s.ms \subseteq titles, ForMilestone(s.items[m]) => s.items[m].milestone \in titles
  PROVE  /\ BoardFits(p, project, rest, titles)
         /\ Remaining(project, rest) \subseteq Remaining(project, s)
         /\ \A z \in Remaining(project, s) :
               IsSeen(p, z) \/ z = <<project, s.items[m]>> \/ z \in Remaining(project, rest)
  <1> DEFINE old == s.items
             new == rest.items
  <1>1. /\ rest.ms = s.ms /\ rest.have = s.have /\ rest.more = s.more
        /\ new = SubSeq(old, m + 1, Len(old)) /\ IsList(old)
    BY BehindItem DEF IsBoard
  <1> HIDE DEF new
  <1>2. /\ \A i \in DOMAIN new : m + i \in DOMAIN old /\ new[i] = old[m + i]
        /\ \A i \in DOMAIN old : i > m => i - m \in DOMAIN new /\ new[i - m] = old[i]
        /\ m \in Nat /\ DOMAIN old \subseteq Nat /\ DOMAIN new \subseteq Nat \ {0}
    <2>1. m \in DOMAIN old
      OBVIOUS
    <2> HIDE DEF old
    <2> QED BY <1>1, <2>1, ItemsAfter
  <1>3. NestedIn(new, titles)
    BY <1>2, ThereIs DEF NestedIn, BoardFits
  <1>4. BoardFits(p, project, rest, titles)
    BY <1>1, <1>3 DEF BoardFits, new
  <1>5. OfProject(project, new) \subseteq OfProject(project, old)
    BY <1>2 DEF OfProject
  <1>6. ASSUME NEW z \in OfProject(project, old)
        PROVE  IsSeen(p, z) \/ z = <<project, old[m]>> \/ z \in OfProject(project, new)
    BY <1>6, <1>2, ThereIsSeen DEF OfProject
  <1> QED BY <1>1, <1>4, <1>5, <1>6 DEF Remaining, new

\* The request that creates the first missing item.
LEMMA CreatorOnBoard ==
  ASSUME NEW p, NEW project, NEW s, IsBoard(s), s.apply, NEW m \in DOMAIN s.items, ~IsThere(s, m),
         \A i \in DOMAIN s.items : i < m => IsThere(s, i),
         Remaining(project, s) \subseteq AllItems, BoardFits(p, project, s, DOMAIN s.ms),
         NEW x, NEW val,
         \/ /\ ForMilestone(s.items[m]) /\ val = s.items[m].milestone
            /\ Sure(x, "add milestone", project, val, "upsert", Behind(s, m))
         \/ /\ ~ForMilestone(s.items[m]) /\ val.title = s.items[m].task /\ val.milestone = s.ms[s.items[m].milestone]
            /\ Sure(x, "add task", project, val, "upsert", Behind(s, m))
  PROVE  /\ OnBoard(p, x)
         /\ \A z \in Remaining(project, s) : IsSeen(p, z) \/ Carry(x, z)
  <1> DEFINE rest == Behind(s, m)
             item == s.items[m]
  <1>1. /\ Upserting(x) /\ ~Syncing(x) /\ ~StartsProject(x) /\ Stops(x)
        /\ x.at = project /\ x.val = val /\ x.extra = rest
        /\ \/ ForMilestone(item) /\ val = item.milestone /\ AddsMilestone(x) /\ ~AddsTask(x)
           \/ /\ ~ForMilestone(item) /\ val.title = item.task /\ val.milestone = s.ms[item.milestone]
              /\ AddsTask(x) /\ ~AddsMilestone(x)
    BY DEF Sure, Is, Upserting, Syncing, StartsProject, Stops, AddsMilestone, AddsTask
  <1>2. rest.apply = s.apply /\ rest.ms = s.ms
    BY BehindItem
  <1> HIDE DEF rest
  <1>3. StateOf(x) = rest /\ Known(x) = IF AddsMilestone(x) THEN DOMAIN s.ms \cup {val} ELSE DOMAIN s.ms
    BY <1>1, <1>2 DEF StateOf, Known
  <1>4. DOMAIN s.ms \subseteq Known(x) /\ (ForMilestone(item) => item.milestone \in Known(x))
    BY <1>1, <1>3
  <1>5. /\ BoardFits(p, project, rest, Known(x))
        /\ Remaining(project, rest) \subseteq Remaining(project, s)
        /\ \A z \in Remaining(project, s) :
              IsSeen(p, z) \/ z = <<project, item>> \/ z \in Remaining(project, rest)
    BY <1>4, BehindFits DEF rest
  <1>6. <<project, item>> \in AllItems
    BY DEF Remaining, OfProject
  <1>7. AddsTask(x) => Listed(p, val.milestone, project, val.title)
    BY <1>1, <1>6, ThereIs DEF BoardFits, NestedIn, Listed
  <1>8. OnBoard(p, x)
    BY <1>1, <1>2, <1>3, <1>5, <1>7 DEF OnBoard
  <1>9. MakesItem(x, <<project, item>>)
    BY <1>1 DEF MakesItem
  <1> QED BY <1>1, <1>2, <1>3, <1>5, <1>8, <1>9 DEF Carry

\* Requests that are of no board.
LEMMA OtherRequest ==
  ASSUME NEW p, NEW x, ~Syncing(x), ~Upserting(x), ~AddsTask(x)
  PROVE  OnBoard(p, x)
  BY DEF OnBoard

LEMMA UpsertOnBoard ==
  ASSUME NEW p, NEW project, NEW s, IsBoard(s),
         s.apply => Remaining(project, s) \subseteq AllItems /\ BoardFits(p, project, s, DOMAIN s.ms),
         NEW script, script = Upsert(project, s)
  PROVE  /\ \A x \in ToSet(script) : OnBoard(p, x)
         /\ s.apply => \A z \in Remaining(project, s) : IsSeen(p, z) \/ \E x \in ToSet(script) : Carry(x, z)
  <1> DEFINE M == MissingItems(s)
             item == s.items[Min(M)]
             rest == Behind(s, Min(M))
             T == [For("upsert", Must("add task", project, [title |-> item.task, milestone |-> s.ms[item.milestone]]))
                     EXCEPT !.extra = rest, !.counts = TRUE]
             A == [For("upsert", Must("add milestone", project, item.milestone)) EXCEPT !.extra = rest, !.counts = TRUE]
             own == [s EXCEPT !.self = TRUE]
             O == For("own id", Must("self", project, own))
             next == SyncProjects(s.more, s.apply, s.self)
             dry == ForEach(SetToSeq(M), LAMBDA i : Counted(Must("", 0, 0)))
             bad == Must("bad date", 0, 0)
  <1>1. script = IF M = {} THEN next
                 ELSE IF ~s.apply THEN dry \o next
                 ELSE IF item.day = "bad" THEN <<bad>>
                 ELSE IF item.task # "" THEN <<T>>
                 ELSE IF ~s.self THEN <<O>>
                 ELSE <<A>>
    BY DEF Upsert, Behind
  <1>2. IsFiniteSet(M) /\ M \subseteq Nat /\ M \subseteq DOMAIN s.items
    <2>1. Len(s.items) \in Nat /\ DOMAIN s.items = 1 .. Len(s.items)
      BY ListShape DEF IsBoard
    <2>2. M \subseteq DOMAIN s.items
      BY DEF MissingItems
    <2> HIDE DEF M
    <2>3. IsFiniteSet(1 .. Len(s.items))
      BY <2>1, FS_Interval
    <2>4. 1 .. Len(s.items) \subseteq Nat
      BY <2>1
    <2> QED BY <2>1, <2>2, <2>3, <2>4, FS_Subset
  <1>3. \A i \in DOMAIN s.items : i \in M \/ IsThere(s, i)
    BY DEF MissingItems
  <1>4. \A i \in M : ~IsThere(s, i)
    BY DEF MissingItems
  <1>5. IsMore(s.more)
    BY DEF IsBoard, IsMore
  <1>6. /\ \A x \in ToSet(next) : OnBoard(p, x)
        /\ s.apply => \A z \in MoreItems(s.more) : \E x \in ToSet(next) : Carry(x, z)
    BY <1>5, NextProject DEF Remaining, BoardFits, next
  <1>7. CASE M = {}
    BY <1>3, <1>7, <1>1, <1>6, ThereIsSeen DEF OfProject, Remaining
  <1>8. CASE M # {} /\ ~s.apply
    <2> DEFINE list == SetToSeq(M)
    <2>1. dry = [i \in DOMAIN list |-> Counted(Must("", 0, 0))]
      BY DEF ForEach
    <2>2. GoodScript({"add task"}, next)
      BY <1>5, GoodProjects DEF MayAddTasks
    <2>3. script = dry \o next
      BY <1>1, <1>8
    <2> HIDE DEF M, next
    <2>4. IsList(list)
      BY <1>2, SetList
    <2> HIDE DEF list, dry
    <2>5. Len(list) \in Nat /\ DOMAIN list = 1 .. Len(list)
      BY <2>4, ListShape
    <2>6. IsList(dry) /\ DOMAIN dry = DOMAIN list
      BY <2>1, <2>5, FunctionIsList
    <2>7. IsList(next)
      BY <2>2 DEF GoodScript
    <2>8. ToSet(script) = ToSet(dry) \cup ToSet(next)
      BY <2>3, <2>6, <2>7, ConcatElements
    <2>9. ASSUME NEW x \in ToSet(dry) PROVE OnBoard(p, x)
      <3>1. PICK i \in DOMAIN list : x = Counted(Must("", 0, 0))
        BY <2>1, <2>6, <2>9 DEF ToSet
      <3>2. Is(x, "nothing", 0, 0, "", <<>>)
        BY <3>1, RequestShapes
      <3>3. ~Syncing(x) /\ ~Upserting(x) /\ ~AddsTask(x)
        BY <3>2 DEF Is, Syncing, Upserting, AddsTask
      <3> QED BY <3>3, OtherRequest
    <2> QED BY <1>6, <1>8, <2>8, <2>9
  <1>9. CASE M # {} /\ s.apply
    <2> DEFINE m == Min(M)
    <2>1. m \in M /\ \A i \in M : m <= i
      <3> HIDE DEF M
      <3> QED BY <1>2, <1>9, LeastNat
    <2>2. m \in DOMAIN s.items /\ ~IsThere(s, m)
      BY <1>2, <1>4, <2>1
    <2>3. ASSUME NEW i \in DOMAIN s.items, i < m PROVE IsThere(s, i)
      <3>1. i \notin M
        <4> HIDE DEF M
        <4>1. ASSUME i \in M PROVE FALSE
          <5>1. i \in Nat /\ m \in Nat /\ m <= i
            BY <1>2, <2>1, <4>1
          <5> QED BY <2>3, <5>1
        <4> QED BY <4>1
      <3> QED BY <1>3, <3>1
    <2>4. item = s.items[m] /\ rest = Behind(s, m)
      OBVIOUS
    <2> HIDE DEF m, M, item, rest
    <2>5. CASE script = <<bad>>
      <3>1. Is(bad, "bad date", 0, 0, "", <<>>) /\ bad.onErr = "stop" /\ bad.ways = 1
        BY DEF Is, Must, Request, RequestFields
      <3> HIDE DEF bad
      <3>2. GivesUp(bad) /\ Stops(bad) /\ ~Syncing(bad) /\ ~Upserting(bad) /\ ~AddsTask(bad)
        BY <3>1 DEF Is, GivesUp, PlainUse, Stops, Syncing, Upserting, AddsTask
      <3>3. bad \in ToSet(script) /\ \A x \in ToSet(script) : x = bad
        BY <2>5, OnlyElement, InScript
      <3> QED BY <3>2, <3>3, OtherRequest DEF Carry
    <2>6. CASE script = <<T>> /\ ~ForMilestone(item)
      <3> DEFINE val == [title |-> item.task, milestone |-> s.ms[item.milestone]]
      <3>1. Sure(T, "add task", project, val, "upsert", rest)
        BY SureRequests
      <3>2. val.title = item.task /\ val.milestone = s.ms[item.milestone]
        OBVIOUS
      <3> HIDE DEF T, val
      <3>3. OnBoard(p, T) /\ \A z \in Remaining(project, s) : IsSeen(p, z) \/ Carry(T, z)
        BY <1>9, <2>2, <2>3, <2>4, <2>6, <3>1, <3>2, CreatorOnBoard
      <3>4. T \in ToSet(script) /\ \A x \in ToSet(script) : x = T
        BY <2>6, OnlyElement, InScript
      <3> QED BY <3>3, <3>4
    <2>7. CASE script = <<A>> /\ ForMilestone(item)
      <3> DEFINE val == item.milestone
      <3>1. Sure(A, "add milestone", project, val, "upsert", rest)
        BY SureRequests
      <3> HIDE DEF A
      <3>3. OnBoard(p, A) /\ \A z \in Remaining(project, s) : IsSeen(p, z) \/ Carry(A, z)
        BY <1>9, <2>2, <2>3, <2>4, <2>7, <3>1, CreatorOnBoard
      <3>4. A \in ToSet(script) /\ \A x \in ToSet(script) : x = A
        BY <2>7, OnlyElement, InScript
      <3> QED BY <3>3, <3>4
    <2>8. CASE script = <<O>>
      <3>1. /\ own.items = s.items /\ own.apply = s.apply /\ own.ms = s.ms /\ own.have = s.have /\ own.more = s.more
        BY DEF IsBoard
      <3>2. Sure(O, "self", project, own, "own id", <<>>)
        BY SureRequests
      <3> HIDE DEF O, own
      <3>3. /\ Syncing(O) /\ ~StartsProject(O) /\ ~Upserting(O) /\ ~AddsTask(O) /\ Stops(O)
            /\ O.at = project /\ O.val = own
        BY <3>2 DEF Sure, Is, Syncing, StartsProject, Upserting, AddsTask, Stops
      <3>4. StateOf(O) = own /\ Known(O) = DOMAIN s.ms /\ Remaining(project, own) = Remaining(project, s)
        BY <3>1, <3>3 DEF StateOf, Known, Remaining
      <3>5. BoardFits(p, project, own, DOMAIN s.ms)
        BY <1>9, <3>1 DEF BoardFits
      <3>6. OnBoard(p, O) /\ \A z \in Remaining(project, s) : Carry(O, z)
        BY <1>9, <3>1, <3>3, <3>4, <3>5 DEF OnBoard, Carry
      <3>7. O \in ToSet(script) /\ \A x \in ToSet(script) : x = O
        BY <2>8, OnlyElement, InScript
      <3> QED BY <3>6, <3>7
    <2>9. \/ script = <<bad>>
          \/ script = <<T>> /\ ~ForMilestone(item)
          \/ script = <<O>>
          \/ script = <<A>> /\ ForMilestone(item)
      <3> HIDE DEF T, A, O, bad, next, dry
      <3> QED BY <1>1, <1>9 DEF ForMilestone
    <2> QED BY <2>5, <2>6, <2>7, <2>8, <2>9
  <1> QED BY <1>7, <1>8, <1>9

LEMMA BoardThen ==
  ASSUME NEW p, NEW q, Syncing(q) \/ Upserting(q), ProjectsThen(p, q) # {}, NEW more \in WorkThen(p, q)
  PROVE  more \in ProjectsThen(p, q)
  <1> DEFINE P == ProjectsThen(p, q)
             none == <<>>
  <1>1. BusinessThen(p, q) = {none}
    BY DEF BusinessThen, Nothing, Syncing, Upserting
  <1>2. Docs!DocumentsThen(p, q) = {none}
    BY DEF Docs!DocumentsThen, Docs!Nothing, Syncing, Upserting
  <1>3. more \in IF (P \cup {none} \cup {none}) \ {none} = {} THEN {none} ELSE (P \cup {none} \cup {none}) \ {none}
    BY <1>1, <1>2 DEF WorkThen, Nothing
  <1> HIDE DEF P, none
  <1>4. more \in P
    <2>1. P # {}
      BY DEF P
    <2> QED BY <1>3, <2>1
  <1> QED BY <1>4 DEF P

LEMMA SyncStops ==
  ASSUME NEW q, Syncing(q) \/ Upserting(q), Stops(q)
  PROVE  Alternatives(q) = {} /\ q.onErr = "stop"
  <1>1. BusinessOtherwise(q) = {}
    BY DEF BusinessOtherwise, Syncing, Upserting
  <1>2. Docs!DocumentsOtherwise(q) = {}
    BY DEF Docs!DocumentsOtherwise, Syncing, Upserting
  <1>3. WorkOtherwise(q) = {}
    BY <1>1, <1>2 DEF WorkOtherwise
  <1>4. ~(q.ways > 1) /\ q.onErr = "stop"
    BY DEF Stops
  <1> QED BY <1>3, <1>4 DEF Alternatives

\* What a listing of milestones says is so.
LEMMA MilestonesListed ==
  ASSUME NEW p, NEW at
  PROVE  /\ BoardMilestoneIDs(p, at) # {}
         /\ \A ms \in BoardMilestoneIDs(p, at) : \A t \in DOMAIN ms : HasMilestone(p, ms[t], at, t)
  <1> DEFINE rows == {m \in DOMAIN p.milestones : p.milestones[m].project = at}
             titles == {p.milestones[m].title : m \in rows}
             f == [t \in titles |-> CHOOSE m \in rows : p.milestones[m].title = t]
  <1>1. BoardMilestoneIDs(p, at) = {g \in [titles -> rows] : \A t \in DOMAIN g : p.milestones[g[t]].title = t}
    BY DEF BoardMilestoneIDs
  <1>2. \A t \in titles : f[t] \in rows /\ p.milestones[f[t]].title = t
    OBVIOUS
  <1>3. f \in [titles -> rows] /\ \A t \in DOMAIN f : p.milestones[f[t]].title = t
    BY <1>2
  <1>4. f \in BoardMilestoneIDs(p, at)
    BY <1>1, <1>3
  <1>5. ASSUME NEW ms \in BoardMilestoneIDs(p, at), NEW t \in DOMAIN ms PROVE HasMilestone(p, ms[t], at, t)
    BY <1>1, <1>5 DEF HasMilestone
  <1> QED BY <1>4, <1>5

\* A board's state with other knowledge of the project.
LEMMA BoardWithIDs ==
  ASSUME NEW s, IsBoard(s), NEW ms, NEW t, t = [s EXCEPT !.ms = ms]
  PROVE  /\ IsBoard(t) /\ t.items = s.items /\ t.more = s.more /\ t.apply = s.apply
         /\ t.ms = ms /\ t.have = s.have
         /\ \A project : Remaining(project, t) = Remaining(project, s)
  BY DEF IsBoard, Remaining

LEMMA BoardWithTitles ==
  ASSUME NEW s, IsBoard(s), NEW have, NEW t, t = [s EXCEPT !.have = have]
  PROVE  /\ IsBoard(t) /\ t.items = s.items /\ t.more = s.more /\ t.apply = s.apply
         /\ t.have = have /\ t.ms = s.ms
         /\ \A project : Remaining(project, t) = Remaining(project, s)
  BY DEF IsBoard, Remaining

\* The milestones are listed: the tasks are, next.
LEMMA BoardListed ==
  ASSUME NEW q, NEW h, IsRequest(h), StartsProject(h), OnBoard(q, h), NEW more \in WorkThen(q, h)
  PROVE  /\ \A x \in ToSet(more) : OnBoard(q, x)
         /\ \A z : Carry(h, z) /\ ~GivesUp(h) => \E x \in ToSet(more) : Carry(x, z)
  <1>1. Syncing(h) /\ ~Upserting(h) /\ StateOf(h) = h.val /\ Known(h) = {} /\ IsBoard(h.val) /\ Stops(h)
    BY DEF StartsProject, Syncing, Upserting, StateOf, Known, IsRequest, Fits, OnBoard
  <1>2. PICK ms \in BoardMilestoneIDs(q, h.at) : more = Tasks(h, ms)
    <2>1. ProjectsThen(q, h) = {Tasks(h, ms) : ms \in BoardMilestoneIDs(q, h.at)}
      BY DEF ProjectsThen, StartsProject
    <2>2. ProjectsThen(q, h) # {}
      BY <2>1, MilestonesListed
    <2>3. more \in ProjectsThen(q, h)
      BY <1>1, <2>2, BoardThen
    <2> QED BY <2>1, <2>3
  <1> DEFINE s == [h.val EXCEPT !.ms = ms]
             x == For("board tasks", Must("tasks of", h.at, s))
  <1>3. more = <<x>>
    BY <1>2 DEF Tasks
  <1>4. Sure(x, "tasks of", h.at, s, "board tasks", <<>>)
    BY SureRequests
  <1> HIDE DEF x
  <1>5. /\ Syncing(x) /\ ~StartsProject(x) /\ ~Upserting(x) /\ ~AddsTask(x) /\ Stops(x)
        /\ x.at = h.at /\ x.val = s
    BY <1>4 DEF Sure, Is, Syncing, StartsProject, Upserting, AddsTask, Stops
  <1>6. /\ IsBoard(s) /\ s.items = h.val.items /\ s.more = h.val.more /\ s.apply = h.val.apply
        /\ \A project : Remaining(project, s) = Remaining(project, h.val)
        /\ s.ms = ms /\ s.have = h.val.have
    BY <1>1, BoardWithIDs
  <1> HIDE DEF s
  <1>7. StateOf(x) = s /\ Known(x) = DOMAIN ms
    BY <1>5, <1>6 DEF StateOf, Known
  <1>8. s.apply => Remaining(h.at, s) \subseteq AllItems /\ BoardFits(q, h.at, s, DOMAIN ms)
    BY <1>1, <1>6, WiderNested, MilestonesListed DEF OnBoard, BoardFits
  <1>9. OnBoard(q, x)
    BY <1>5, <1>7, <1>8 DEF OnBoard
  <1>10. ASSUME NEW z, Carry(h, z), ~GivesUp(h) PROVE Carry(x, z)
    BY <1>1, <1>5, <1>6, <1>7, <1>10 DEF Carry, MakesItem
  <1>11. x \in ToSet(more) /\ \A y \in ToSet(more) : y = x
    BY <1>3, OnlyElement, InScript
  <1> QED BY <1>9, <1>10, <1>11

\* What a creation leaves the sync to know.
LEMMA UpsertedFits ==
  ASSUME NEW q, NEW h, IsRequest(h), Upserting(h), OnBoard(q, h), Makes(q, h), NEW s, s = Upserted(q, h)
  PROVE  /\ IsBoard(s) /\ s.apply /\ Remaining(h.at, s) = Remaining(h.at, h.extra)
         /\ BoardFits(q, h.at, s, DOMAIN s.ms)
  <1>1. /\ StateOf(h) = h.extra /\ IsBoard(h.extra) /\ h.extra.apply /\ (AddsMilestone(h) \/ AddsTask(h))
        /\ BoardFits(q, h.at, h.extra, Known(h)) /\ ~StartsProject(h)
    BY DEF StateOf, Upserting, StartsProject, IsRequest, Fits, OnBoard
  <1>2. CASE AddsMilestone(h)
    <2> DEFINE ms == Put(h.extra.ms, h.val, LastId(q))
    <2>1. s = [h.extra EXCEPT !.ms = ms]
      BY <1>2 DEF Upserted, AddsMilestone
    <2>2. Known(h) = DOMAIN h.extra.ms \cup {h.val}
      BY <1>1, <1>2 DEF Known
    <2>3. /\ DOMAIN ms = DOMAIN h.extra.ms \cup {h.val} /\ ms[h.val] = LastId(q)
          /\ \A t \in DOMAIN h.extra.ms \ {h.val} : ms[t] = h.extra.ms[t]
      BY DEF Put
    <2> HIDE DEF ms
    <2>4. /\ IsBoard(s) /\ s.items = h.extra.items /\ s.more = h.extra.more /\ s.apply = h.extra.apply
          /\ Remaining(h.at, s) = Remaining(h.at, h.extra) /\ s.ms = ms /\ s.have = h.extra.have
      <3> DEFINE e == h.extra
      <3>1. IsBoard(e) /\ s = [e EXCEPT !.ms = ms]
        BY <1>1, <2>1
      <3> HIDE DEF e
      <3>2. /\ IsBoard(s) /\ s.items = e.items /\ s.more = e.more /\ s.apply = e.apply
            /\ s.ms = ms /\ s.have = e.have
            /\ \A project : Remaining(project, s) = Remaining(project, e)
        BY <3>1, BoardWithIDs
      <3> QED BY <3>2 DEF e
    <2>5. HasMilestone(q, LastId(q), h.at, h.val)
      BY <1>2 DEF Makes
    <2>6. \A t \in DOMAIN ms : HasMilestone(q, ms[t], h.at, t)
      BY <1>1, <2>3, <2>5 DEF BoardFits
    <2> QED BY <1>1, <2>2, <2>3, <2>4, <2>6 DEF BoardFits
  <1>3. CASE ~AddsMilestone(h)
    <2> DEFINE have == h.extra.have \cup {h.val.title}
    <2>1. s = [h.extra EXCEPT !.have = have]
      BY <1>3 DEF Upserted, AddsMilestone
    <2>2. Known(h) = DOMAIN h.extra.ms
      BY <1>1, <1>3 DEF Known
    <2> HIDE DEF have
    <2>4. /\ IsBoard(s) /\ s.items = h.extra.items /\ s.more = h.extra.more /\ s.apply = h.extra.apply
          /\ Remaining(h.at, s) = Remaining(h.at, h.extra) /\ s.ms = h.extra.ms /\ s.have = have
      <3> DEFINE e == h.extra
      <3>1. IsBoard(e) /\ s = [e EXCEPT !.have = have]
        BY <1>1, <2>1
      <3> HIDE DEF e
      <3>2. /\ IsBoard(s) /\ s.items = e.items /\ s.more = e.more /\ s.apply = e.apply
            /\ s.have = have /\ s.ms = e.ms
            /\ \A project : Remaining(project, s) = Remaining(project, e)
        BY <3>1, BoardWithTitles
      <3> QED BY <3>2 DEF e
    <2>5. \E t : HasTask(q, t, h.at, h.val.title)
      BY <1>1, <1>3 DEF Makes
    <2>6. \A t \in have : \E u : HasTask(q, u, h.at, t)
      BY <1>1, <2>5 DEF BoardFits, have
    <2> QED BY <1>1, <2>2, <2>4, <2>6 DEF BoardFits
  <1> QED BY <1>2, <1>3

\* A request of a board was answered: what follows is of the board, and leaves no item out.
LEMMA BoardAnswered ==
  ASSUME NEW q, NEW h, IsRequest(h), Syncing(h) \/ Upserting(h), OnBoard(q, h), Makes(q, h),
         NEW more \in WorkThen(q, h)
  PROVE  /\ \A x \in ToSet(more) : OnBoard(q, x)
         /\ \A z : Carry(h, z) /\ ~GivesUp(h) => IsSeen(q, z) \/ \E x \in ToSet(more) : Carry(x, z)
  <1>1. ASSUME NEW s, IsBoard(s), more = Upsert(h.at, s), s.apply = StateOf(h).apply,
               Remaining(h.at, s) = Remaining(h.at, StateOf(h)),
               s.apply => BoardFits(q, h.at, s, DOMAIN s.ms),
               \A z : MakesItem(h, z) => IsSeen(q, z)
        PROVE  /\ \A x \in ToSet(more) : OnBoard(q, x)
               /\ \A z : Carry(h, z) /\ ~GivesUp(h) => IsSeen(q, z) \/ \E x \in ToSet(more) : Carry(x, z)
    BY <1>1, UpsertOnBoard DEF OnBoard, Carry
  <1>2. CASE StartsProject(h)
    BY <1>2, BoardListed
  <1>3. CASE Syncing(h) /\ ~StartsProject(h)
    <2> DEFINE have == BoardTaskTitles(q, h.at)
               s == IF h.use = "own id" THEN h.val ELSE [h.val EXCEPT !.have = have]
               script == Upsert(h.at, s)
    <2>1. ProjectsThen(q, h) = {script}
      BY <1>3 DEF ProjectsThen, Syncing, StartsProject
    <2>2. IsBoard(h.val) /\ ~Upserting(h) /\ StateOf(h) = h.val /\ Known(h) = DOMAIN h.val.ms
      BY <1>3 DEF Syncing, StartsProject, Upserting, StateOf, Known, IsRequest, Fits
    <2>3. s = h.val \/ s = [h.val EXCEPT !.have = have]
      OBVIOUS
    <2> HIDE DEF s
    <2>4. more = script
      <3> HIDE DEF script
      <3> QED BY <1>3, <2>1, BoardThen
    <2>5. \A t \in have : \E u : HasTask(q, u, h.at, t)
      BY DEF BoardTaskTitles, HasTask
    <2> HIDE DEF have
    <2>6. /\ IsBoard(s) /\ s.items = h.val.items /\ s.more = h.val.more /\ s.apply = h.val.apply
          /\ Remaining(h.at, s) = Remaining(h.at, h.val) /\ s.ms = h.val.ms
          /\ s.have = h.val.have \/ s.have = have
      BY <2>2, <2>3, BoardWithTitles
    <2>7. s.apply => BoardFits(q, h.at, h.val, DOMAIN h.val.ms)
      BY <1>3, <2>2, <2>6 DEF OnBoard
    <2>8. s.apply => BoardFits(q, h.at, s, DOMAIN s.ms)
      BY <2>5, <2>6, <2>7 DEF BoardFits
    <2>9. \A z : ~MakesItem(h, z)
      BY <2>2 DEF MakesItem
    <2> QED BY <1>1, <2>2, <2>4, <2>6, <2>8, <2>9
  <1>4. CASE Upserting(h)
    <2> DEFINE s == Upserted(q, h)
               script == Upsert(h.at, s)
    <2>1. ProjectsThen(q, h) = {script}
      BY <1>4 DEF ProjectsThen, Upserting
    <2>2. StateOf(h) = h.extra /\ h.extra.apply
      BY <1>4 DEF StateOf, OnBoard
    <2>3. /\ IsBoard(s) /\ s.apply /\ Remaining(h.at, s) = Remaining(h.at, h.extra)
          /\ BoardFits(q, h.at, s, DOMAIN s.ms)
      BY <1>4, UpsertedFits
    <2>4. more = script
      <3> HIDE DEF script
      <3> QED BY <1>4, <2>1, BoardThen
    <2> HIDE DEF s
    <2>5. \A z : MakesItem(h, z) => IsSeen(q, z)
      BY DEF Makes, MakesItem, IsSeen
    <2> QED BY <1>1, <2>2, <2>3, <2>4, <2>5
  <1> QED BY <1>2, <1>3, <1>4

\* Requests of no board bring none.
LEMMA OthersBringNone ==
  ASSUME NEW h, IsRequest(h), ~Syncing(h), ~Upserting(h), ~AddsTask(h), NEW more, GoodScript(Asks(h), more),
         NEW x \in ToSet(more)
  PROVE  ~Syncing(x) /\ ~Upserting(x) /\ ~AddsTask(x)
  <1>1. "add task" \notin Asks(h)
    BY DEF IsRequest, Fits, IsJob, Brings, Asks, Syncing, Upserting, AddsTask
  <1>2. Syncing(x) \/ Upserting(x) \/ AddsTask(x) => "add task" \in Asks(x) \cap OnlyAsked
    BY DEF Asks, OnlyAsked, Syncing, Upserting, AddsTask
  <1> QED BY <1>1, <1>2 DEF GoodScript, Good

\* Whatever a request of a sync, or another, brings is of a board that fits.
LEMMA BoardKeepsOn ==
  ASSUME Sound, NEW a \in Actors, NEW h, Good(Asked(a), h), NEW rest, GoodScript(Asked(a), rest),
         Happens(a, h, rest), IsPortal(portal'), OnBoard(portal', h),
         GoesElsewhere(a, h, rest) \/ Makes(portal', h),
         \A x \in ToSet(rest) : OnBoard(portal', x), NEW y \in ToSet(session'[a].todo)
  PROVE  OnBoard(portal', y)
  <1>1. IsRequest(h)
    BY DEF Good
  <1>2. CASE y \in ToSet(rest)
    BY <1>2
  <1>3. CASE Syncing(h) \/ Upserting(h)
    <2>1. Alternatives(h) = {}
      BY <1>3, SyncStops DEF OnBoard
    <2>2. CASE GoesElsewhere(a, h, rest)
      BY <2>1, <2>2, <1>2, OneElement DEF GoesElsewhere, Goes, ToSet
    <2>3. CASE \E more \in WorkThen(portal', h) : y \in ToSet(more)
      BY <2>2, <1>1, <1>3, <2>3, BoardAnswered
    <2> QED BY <1>2, <2>1, <2>3, ScriptsCome
  <1>4. CASE ~Syncing(h) /\ ~Upserting(h)
    <2>0. ~AddsTask(h)
      BY <1>4 DEF OnBoard
    <2>1. ASSUME NEW more, GoodScript(Asks(h), more), y \in ToSet(more) PROVE OnBoard(portal', y)
      BY <1>1, <1>4, <2>0, <2>1, OthersBringNone, OtherRequest
    <2>2. Good(Asks(h), h)
      BY <1>1 DEF Good
    <2>3. ASSUME NEW more \in Alternatives(h), y \in ToSet(more) PROVE OnBoard(portal', y)
      BY <2>1, <2>2, <2>3, AlternativesAreGood
    <2>4. ASSUME WorkAccepts(portal, h), h.op = "invoice" => portal' = portal,
                 NEW more \in WorkThen(portal', h), y \in ToSet(more)
          PROVE  OnBoard(portal', y)
      BY <2>4, <2>1, <2>2, AcceptedInvoice, WorkThenIsGood
    <2> QED BY <1>2, <2>3, <2>4, ScriptsCome
  <1> QED BY <1>3, <1>4

\* A date that cannot be read ends the command.
LEMMA NoBadDate ==
  ASSUME NEW p, NEW h, GivesUp(h)
  PROVE  ~WorkAccepts(p, h)
  BY DEF GivesUp, InProject, AtTask, WorkAccepts, ProjectsAccepts

LEMMA BadDateStops ==
  ASSUME NEW h, GivesUp(h), Stops(h)
  PROVE  Alternatives(h) = {} /\ h.onErr = "stop"
  BY NoOtherWay DEF GivesUp, Stops

\* The item that h sees to is there, or is seen to after the step.
LEMMA BoardCarriesOn ==
  ASSUME Sound, NEW a \in Actors, NEW h, Good(Asked(a), h), NEW rest, GoodScript(Asked(a), rest),
         Happens(a, h, rest), IsPortal(portal'), OnBoard(portal', h),
         GoesElsewhere(a, h, rest) \/ Makes(portal', h), ~session'[a].failed,
         NEW z, Carry(h, z)
  PROVE  IsSeen(portal', z) \/ \E x \in ToSet(session'[a].todo) : Carry(x, z)
  <1>1. IsRequest(h) /\ Stops(h)
    BY DEF Good, Carry
  <1>2. CASE Syncing(h) \/ Upserting(h)
    BY <1>1, <1>2, SyncStops, AnswerIsList, ConcatElements, NoBadDate, BoardAnswered DEF
       GoesElsewhere, Goes, Happens, GoesOn, GoodScript
  <1>3. CASE ~Syncing(h) /\ ~Upserting(h)
    BY <1>3, <1>1, NoBadDate, BadDateStops DEF Carry, MakesItem, Happens, GoesElsewhere, Goes
  <1> QED BY <1>2, <1>3
-----------------------------------------------------------------------------
(* Boards at work.                                                         *)

\* A board's file, before anything is known of its projects.
LEMMA FileNested ==
  ASSUME NEW items, IsList(items), Nested(items)
  PROVE  NestedIn(items, {})
  <1>1. Len(items) \in Nat /\ DOMAIN items = 1 .. Len(items)
    BY ListShape
  <1>2. \A i \in DOMAIN items : ~ForMilestone(items[i]) =>
           \E j \in 1 .. i - 1 : ForMilestone(items[j]) /\ items[j].milestone = items[i].milestone
    BY DEF Nested, ForMilestone
  <1>3. ASSUME NEW i \in DOMAIN items, NEW j \in 1 .. i - 1 PROVE j \in DOMAIN items /\ j < i
    BY <1>1, <1>3
  <1> QED BY <1>2, <1>3 DEF NestedIn

LEMMA ItemsRemain ==
  ASSUME NEW r
  PROVE  ItemsOf(r) = Remaining(r.at, r.val)
  BY DEF MoreItems, OfProject, ToSet, ItemsOf, Remaining

LEMMA OpeningIsSure ==
  ASSUME NEW r, IsOpening(r), StartsProject(r)
  PROVE  /\ Sure(r, "milestones", r.at, r.val, "board", <<>>)
         /\ IsBoard(r.val) /\ r.val.ms = <<>> /\ r.val.have = {}
         /\ NestedIn(r.val.items, {}) /\ \A b \in ToSet(r.val.more) : NestedIn(b.items, {})
  <1>1. /\ IsBoard(r.val)
        /\ r = Head(SyncBoard(<<[project |-> r.at, items |-> r.val.items]>> \o r.val.more, r.val.apply))
        /\ Nested(r.val.items) /\ \A k \in DOMAIN r.val.more : Nested(r.val.more[k].items)
    BY DEF IsOpening, StartsProject, IsRequest, Fits
  <1> DEFINE first == [project |-> r.at, items |-> r.val.items]
             list == <<first>> \o r.val.more
             s == [items |-> Head(list).items, apply |-> r.val.apply, ms |-> <<>>, have |-> {},
                   self |-> FALSE, more |-> Tail(list)]
             at == Head(list).project
             q == For("board", Must("milestones", at, s))
  <1>2. list # <<>>
    BY <1>1, OnlyElement, ConcatElements, OneElement DEF IsBoard, ToSet
  <1>3. r = Head(SyncProjects(list, r.val.apply, FALSE))
    BY <1>1 DEF SyncBoard
  <1>4. SyncProjects(list, r.val.apply, FALSE) = <<q>>
    <2> HIDE DEF list
    <2> QED BY <1>2 DEF SyncProjects
  <1>5. Sure(q, "milestones", at, s, "board", <<>>)
    BY SureRequests
  <1>6. s.ms = <<>> /\ s.have = {}
    OBVIOUS
  <1> HIDE DEF q, s, at, list
  <1>7. r = q
    <2>1. Head(<<q>>) = q
      OBVIOUS
    <2> QED BY <1>3, <1>4, <2>1
  <1>8. Sure(r, "milestones", r.at, r.val, "board", <<>>) /\ r.val = s
    BY <1>5, <1>7 DEF Sure, Is
  <1>9. NestedIn(r.val.items, {})
    BY <1>1, FileNested DEF IsBoard
  <1>10. \A b \in ToSet(r.val.more) : NestedIn(b.items, {})
    BY <1>1, FileNested DEF IsBoard, ToSet
  <1> QED BY <1>1, <1>6, <1>8, <1>9, <1>10

LEMMA OpeningOnBoard ==
  ASSUME jobs \in Jobs, NEW a \in Actors, NEW r \in ToSet(jobs[a]), ~AddsTask(r), NEW p
  PROVE  /\ OnBoard(p, r)
         /\ r \in Boards(a) => \A z \in ItemsOf(r) : Carry(r, z)
  <1>1. IsOpening(r)
    BY JobsAssumption DEF ToSet
  <1>2. ~Upserting(r) /\ (Syncing(r) => StartsProject(r))
    BY <1>1 DEF IsOpening, Openings, Upserting, Syncing, StartsProject
  <1>3. r \in Boards(a) => StartsProject(r) /\ r.val.apply
    BY DEF Boards, StartsProject
  <1>4. CASE ~StartsProject(r)
    BY <1>2, <1>3, <1>4, OtherRequest
  <1>5. CASE StartsProject(r)
    <2>1. /\ Sure(r, "milestones", r.at, r.val, "board", <<>>)
          /\ IsBoard(r.val) /\ r.val.ms = <<>> /\ r.val.have = {}
          /\ NestedIn(r.val.items, {}) /\ \A b \in ToSet(r.val.more) : NestedIn(b.items, {})
      BY <1>1, <1>5, OpeningIsSure
    <2>2. ItemsOf(r) = Remaining(r.at, r.val)
      BY ItemsRemain
    <2>3. r.val.apply => Remaining(r.at, r.val) \subseteq AllItems
      BY <1>5, <2>2 DEF Boards, StartsProject, ToSet, AllItems
    <2>4. DOMAIN <<>> = {}
      BY OneElement
    <2>5. BoardFits(p, r.at, r.val, {})
      BY <2>1, <2>4 DEF BoardFits
    <2>6. /\ OnBoard(p, r)
          /\ \A z \in Remaining(r.at, r.val) : r.val.apply => Carry(r, z)
      BY <2>1, <2>3, <2>5, FirstOfProject
    <2> QED BY <1>3, <2>2, <2>6
  <1> QED BY <1>4, <1>5

LEMMA BoardBegins == Init /\ Sound => BoardGoesOn
  <1> SUFFICES ASSUME Init, Sound, NobodySends(UndoesBoards)
               PROVE  /\ Tasked(portal) /\ NewListed(portal)
                      /\ \A a \in Actors : \A x \in ToSet(session[a].todo) : OnBoard(portal, x)
                      /\ \A a \in Actors : \A r \in Boards(a) : \A z \in ItemsOf(r) : Synced(a, z)
    BY DEF BoardGoesOn
  <1>1. start = portal /\ portal \in Portals /\ jobs \in Jobs /\ \A a \in Actors : session[a].todo = jobs[a]
    BY DEF Init, Fresh
  <1>2. Tasked(portal) /\ NewListed(portal)
    BY <1>1, PortalsAssumption DEF Tasked, NewListed
  <1>3. ASSUME NEW a \in Actors, NEW x \in ToSet(jobs[a]) PROVE ~AddsTask(x)
    BY <1>3 DEF NobodySends, Sends, UndoesBoards, AddsTask, ToSet
  <1>4. ASSUME NEW a \in Actors, NEW x \in ToSet(session[a].todo) PROVE OnBoard(portal, x)
    BY <1>1, <1>3, <1>4, OpeningOnBoard
  <1>5. ASSUME NEW a \in Actors, NEW r \in Boards(a), NEW z \in ItemsOf(r) PROVE Synced(a, z)
    BY <1>1, <1>3, OpeningOnBoard DEF Boards, ToSet, Synced
  <1> QED BY <1>2, <1>4, <1>5

LEMMA BoardMoves ==
  ASSUME Sound, BoardGoesOn, NEW a \in Actors, Step(a)
  PROVE  BoardGoesOn'
  <1> DEFINE h == Head(session[a].todo)
             rest == Tail(session[a].todo)
  <1>1. /\ session[a].todo # <<>> /\ Good(Asked(a), h) /\ GoodScript(Asked(a), rest)
        /\ Moves(a, h, rest)
    BY StepMoves
  <1>2. Happens(a, h, rest)
    BY StepHappens
  <1>3. ToSet(session[a].todo) = {h} \cup ToSet(rest)
    BY <1>1, FirstAndRest DEF Sound, GoodScript
  <1> HIDE DEF h, rest
  <1>4. Kept(a) /\ jobs' = jobs /\ start' = start /\ IsPortal(portal) /\ IsRequest(h)
    BY <1>1 DEF Moves, Sound, Kept, Good
  <1>5. AllItems' = AllItems /\ \A b \in Actors : Boards(b)' = Boards(b)
    BY <1>4 DEF AllItems, Boards
  <1>6. SUFFICES ASSUME NobodySends(UndoesBoards)
                 PROVE  /\ Tasked(portal') /\ NewListed(portal)'
                        /\ \A b \in Actors : \A x \in ToSet(session'[b].todo) : OnBoard(portal, x)'
                        /\ \A b \in Actors : \A r \in Boards(b) : \A z \in ItemsOf(r) : Synced(b, z)'
    BY <1>4, <1>5 DEF NobodySends, Sends, UndoesBoards, BoardGoesOn
  <1>7. /\ Tasked(portal) /\ NewListed(portal)
        /\ \A b \in Actors : \A x \in ToSet(session[b].todo) : OnBoard(portal, x)
        /\ \A b \in Actors : \A r \in Boards(b) : \A z \in ItemsOf(r) : Synced(b, z)
    BY <1>6 DEF BoardGoesOn
  <1>8. ~Removing(h)
    BY <1>6, <1>1, NobodyDoes DEF NobodySends, Sends, UndoesBoards, Removals, OnlyAsked, Removing
  <1>9. /\ IsPortal(portal') /\ Tasked(portal') /\ InWorkStays(portal, portal') /\ NewAsAsked(portal, portal', h)
        /\ GoesElsewhere(a, h, rest) \/ Makes(portal', h)
    BY <1>2, <1>4, <1>7, <1>8, HappensGrows
  <1>10. /\ \A x : OnBoard(portal, x) => OnBoard(portal', x)
         /\ \A z : IsSeen(portal, z) => IsSeen(portal', z)
    BY <1>9, OnBoardStays
  <1>11. \A m, project, title : Listed(portal, m, project, title) => Listed(portal', m, project, title)
    BY <1>9 DEF InWorkStays, HasMilestone, Listed
  <1>12. \A x : OnBoard(portal', x) => OnBoard(portal, x)'
    BY <1>5 DEF OnBoard, Listed
  <1>13. OnBoard(portal', h)
    BY <1>3, <1>7, <1>10
  <1>14. NewListed(portal)'
    <2> SUFFICES ASSUME NEW t \in DOMAIN portal'.tasks \ DOMAIN start.tasks
                 PROVE  Listed(portal', portal'.tasks[t].milestone, portal'.tasks[t].project, portal'.tasks[t].title)
      BY <1>4, <1>5 DEF NewListed, Listed
    <2>1. CASE t \in DOMAIN portal.tasks
      BY <1>7, <1>9, <1>11, <2>1 DEF NewListed, InWorkStays
    <2>2. CASE t \notin DOMAIN portal.tasks
      BY <1>9, <1>13, <2>2 DEF NewAsAsked, OnBoard, HasTask
    <2> QED BY <2>1, <2>2
  <1>15. ASSUME NEW b \in Actors, NEW x \in ToSet(session'[b].todo) PROVE OnBoard(portal, x)'
    <2>1. CASE b # a
      BY <1>4, <2>1, <1>7, <1>10, <1>12, <1>15 DEF Kept
    <2>2. CASE b = a
      <3>1. \A y \in ToSet(rest) : OnBoard(portal', y)
        BY <1>3, <1>7, <1>10
      <3> QED BY <1>1, <1>2, <1>9, <1>12, <1>13, <1>15, <2>2, <3>1, BoardKeepsOn
    <2> QED BY <2>1, <2>2
  <1>16. ASSUME NEW b \in Actors, NEW r \in Boards(b), NEW z \in ItemsOf(r) PROVE Synced(b, z)'
    <2>1. Synced(b, z)
      BY <1>7
    <2>2. CASE session'[b].failed \/ IsSeen(portal', z)
      BY <2>2 DEF Synced
    <2>3. CASE ~session'[b].failed /\ ~IsSeen(portal', z)
      <3>1. ~IsSeen(portal, z)
        BY <1>10, <2>3
      <3>2. CASE b # a
        BY <1>4, <3>2, <2>1, <2>3, <3>1 DEF Kept, Synced
      <3>3. CASE b = a
        <4>1. ~session[a].failed
          BY <1>1, <2>3, <3>3 DEF Moves, GoesOn, GoesElsewhere, Goes
        <4>2. PICK x \in {h} \cup ToSet(rest) : Carry(x, z)
          BY <1>3, <2>1, <3>1, <3>3, <4>1 DEF Synced
        <4>3. CASE x \in ToSet(rest)
          <5>1. x \in ToSet(session'[a].todo)
            BY <1>1, <1>2, <1>9, <2>3, <3>3, <4>3, RestStays
          <5> QED BY <3>3, <4>2, <5>1 DEF Synced
        <4>4. CASE x = h
          <5>1. \E y \in ToSet(session'[a].todo) : Carry(y, z)
            BY <1>1, <1>2, <1>9, <1>13, <2>3, <3>3, <4>2, <4>4, BoardCarriesOn
          <5> QED BY <3>3, <5>1 DEF Synced
        <4> QED BY <4>2, <4>3, <4>4
      <3> QED BY <3>2, <3>3
    <2> QED BY <2>2, <2>3
  <1> QED BY <1>9, <1>14, <1>15, <1>16

LEMMA BoardEnds == Sound /\ BoardGoesOn => BoardIsThere
  <1> SUFFICES ASSUME Sound, BoardGoesOn, NobodySends(UndoesBoards), NEW a \in Actors, Succeeded(a),
                      NEW r \in Boards(a), NEW z \in ItemsOf(r)
               PROVE  StandsOnTheBoard(z[1], z[2])
    BY DEF BoardIsThere, UndoesBoards
  <1>1. Synced(a, z) /\ NewListed(portal)
    BY DEF BoardGoesOn
  <1>2. session[a].todo = <<>> /\ ~session[a].failed
    BY DEF Succeeded, Ended
  <1>3. ToSet(session[a].todo) = {}
    BY <1>2, OneElement DEF ToSet
  <1>4. IsSeen(portal, z)
    BY <1>1, <1>2, <1>3 DEF Synced
  <1>5. CASE ForMilestone(z[2])
    BY <1>4, <1>5 DEF IsSeen, HasMilestone, MilestonesOf, StandsOnTheBoard, ForMilestone
  <1>6. CASE ~ForMilestone(z[2])
    <2>1. PICK t : HasTask(portal, t, z[1], z[2].task)
      BY <1>4, <1>6 DEF IsSeen
    <2>2. t \in TasksOf(z[1], z[2].task)
      BY <2>1 DEF HasTask, TasksOf
    <2>3. t \in DOMAIN start.tasks \/ \E title \in TitlesFor(z[1], z[2].task) :
                                        portal.tasks[t].milestone \in MilestonesOf(z[1], title)
      <3>1. CASE t \notin DOMAIN start.tasks
        <4>1. Listed(portal, portal.tasks[t].milestone, z[1], z[2].task)
          BY <1>1, <2>1, <3>1 DEF NewListed, HasTask
        <4>2. PICK y \in AllItems : /\ y[1] = z[1] /\ y[2].task = z[2].task
                                    /\ HasMilestone(portal, portal.tasks[t].milestone, z[1], y[2].milestone)
          BY <4>1 DEF Listed
        <4>3. y[2].milestone \in TitlesFor(z[1], z[2].task)
          BY <4>2 DEF TitlesFor, AllItems
        <4>4. portal.tasks[t].milestone \in MilestonesOf(z[1], y[2].milestone)
          BY <4>2 DEF HasMilestone, MilestonesOf
        <4> QED BY <4>3, <4>4
      <3> QED BY <3>1
    <2> QED BY <1>6, <2>2, <2>3 DEF StandsOnTheBoard, ForMilestone
  <1> QED BY <1>5, <1>6

\* board.go:125: whoever else works on the projects, with boards or by hand, and whatever
\* requests are lost or repeated, as long as nobody removes things or makes tasks by hand, a
\* sync that succeeds has every item of its board on the portal, and the tasks that are new
\* are under milestones that a board lists them under.
THEOREM BoardStands == Spec => []BoardIsThere
  <1>1. Init => Sound /\ BoardGoesOn
    BY BeginsSound, BoardBegins
  <1>2. Sound /\ BoardGoesOn /\ [Next]_vars => (Sound /\ BoardGoesOn)'
    <2> SUFFICES ASSUME Sound, BoardGoesOn, [Next]_vars PROVE (Sound /\ BoardGoesOn)'
      OBVIOUS
    <2>1. CASE UNCHANGED vars
      <3>1. BoardGoesOn'
        BY <2>1 DEF vars, BoardGoesOn, NewListed, Listed, OnBoard, AllItems, Boards, Synced, NobodySends, Sends
      <3> QED BY <2>1, <3>1, StaysSound
    <2>2. ASSUME NEW a \in Actors, Step(a) PROVE (Sound /\ BoardGoesOn)'
      BY <2>2, MovesSoundly, BoardMoves
    <2> QED BY <2>1, <2>2 DEF Next, Finished
  <1> QED BY <1>1, <1>2, BoardEnds, PTL DEF Spec
-----------------------------------------------------------------------------
(* Downloads: whoever begins a file of the user's disk fetches it next, or *)
(* removes it.                                                             *)

LEMMA InTurnConcat ==
  ASSUME NEW a, NEW s, IsList(s), InTurn(a, s), NEW t, IsList(t), InTurn(a, t)
  PROVE  InTurn(a, s \o t)
  <1> DEFINE u == s \o t
  <1>1. /\ \A i \in DOMAIN s : i \in DOMAIN u /\ u[i] = s[i]
        /\ \A i \in DOMAIN t : Len(s) + i \in DOMAIN u /\ u[Len(s) + i] = t[i]
    BY ConcatPlaces
  <1>2. IsList(u)
    BY ConcatElements
  <1>3. Len(u) = Len(s) + Len(t)
    BY ListShape, SeqMonotonic, ConcatProperties
  <1> HIDE DEF u
  <1>4. /\ Len(s) \in Nat /\ DOMAIN s = 1 .. Len(s) /\ Len(t) \in Nat /\ DOMAIN t = 1 .. Len(t)
        /\ DOMAIN u = 1 .. Len(u)
    BY <1>2, ListShape
  <1>5. ASSUME NEW i \in DOMAIN s PROVE OwnFile(a, u[i]) /\ FollowedUp(a, u, i)
    BY <1>1 DEF InTurn, FollowedUp
  <1>6. ASSUME NEW i \in DOMAIN t PROVE OwnFile(a, u[Len(s) + i]) /\ FollowedUp(a, u, Len(s) + i)
    BY <1>1, <1>4 DEF InTurn, FollowedUp
  <1>7. ASSUME NEW i \in DOMAIN u PROVE i \in DOMAIN s \/ \E j \in DOMAIN t : i = Len(s) + j
    <2>1. CASE i <= Len(s)
      BY <1>4, <2>1
    <2>2. CASE ~(i <= Len(s))
      <3>1. i - Len(s) \in DOMAIN t /\ i = Len(s) + (i - Len(s))
        BY <1>3, <1>4, <2>2
      <3> QED BY <3>1
    <2> QED BY <2>1, <2>2
  <1>8. InTurn(a, u)
    BY <1>5, <1>6, <1>7 DEF InTurn
  <1> QED BY <1>8 DEF u

LEMMA InTurnRest ==
  ASSUME NEW a, NEW s, IsList(s), InTurn(a, s), s # <<>>
  PROVE  InTurn(a, Tail(s)) /\ OwnFile(a, Head(s))
  BY TailList, ListShape, HeadTailProperties DEF InTurn, FollowedUp

\* Where nothing is begun, all is in turn.
LEMMA NothingBegun ==
  ASSUME NEW a, NEW s, IsList(s), \A x \in ToSet(s) : OwnFile(a, x) /\ ~MakesFile(x) /\ ~ReadsBody(x)
  PROVE  InTurn(a, s)
  <1>1. ASSUME NEW i \in DOMAIN s PROVE OwnFile(a, s[i]) /\ FollowedUp(a, s, i)
    <2>1. s[i] \in ToSet(s)
      BY DEF ToSet
    <2> QED BY <2>1 DEF FollowedUp, ReadsBody, BodyOf
  <1> QED BY <1>1 DEF InTurn

LEMMA PlainInTurn ==
  ASSUME NEW a, NEW s, IsList(s), \A x \in ToSet(s) : ~Writes(x)
  PROVE  InTurn(a, s)
  BY NothingBegun DEF Writes, OwnFile
-----------------------------------------------------------------------------
(* What requests do to the files of the user's disk.                       *)

LEMMA SameDisk ==
  ASSUME NEW p, NEW r, r.op \notin OnDisk, NEW q, q.disk = p.disk
  PROVE  DiskMoves(p, q, r)
  BY DEF DiskMoves, CutOff, OnDisk, MakesFile

LEMMA DocumentsOnDisk ==
  ASSUME NEW p, IsPortal(p), NEW r, NEW q, q = Docs!DocumentsEffect(p, r)
  PROVE  DiskMoves(p, q, r)
  <1>0. "disk" \in DOMAIN p
    BY DEF IsPortal
  <1>1. CASE r.op = "open"
    BY <1>0, <1>1 DEF Docs!DocumentsEffect, DiskMoves, CutOff, Docs!Put, MakesFile
  <1>2. CASE r.op = "fetch"
    BY <1>0, <1>2 DEF Docs!Whole, Docs!DocumentsEffect, DiskMoves, CutOff, Docs!Put, MakesFile
  <1>3. CASE r.op = "write"
    BY <1>0, <1>3 DEF Docs!Whole, Docs!DocumentsEffect, DiskMoves, CutOff, Docs!Put, MakesFile
  <1>4. CASE r.op = "remove"
    BY <1>0, <1>4 DEF Docs!DocumentsEffect, Docs!Drop, Docs!Restrict, DiskMoves, CutOff, MakesFile
  <1>5. CASE r.op \in {"attach file", "detach file"}
    <2>1. q.disk = p.disk
      BY <1>0, <1>5 DEF Docs!DocumentsEffect
    <2> QED BY <1>5, <2>1, SameDisk DEF OnDisk
  <1>6. CASE r.op \notin OnDisk \cup {"attach file", "detach file"}
    <2>1. q.disk = p.disk
      BY <1>6, DocumentsLeave DEF OnDisk
    <2> QED BY <1>6, <2>1, SameDisk
  <1> QED BY <1>1, <1>2, <1>3, <1>4, <1>5, <1>6 DEF OnDisk

LEMMA EffectOnDisk ==
  ASSUME NEW p, IsPortal(p), NEW r, IsRequest(r), Has(p, r), NEW q, q = WorkEffect(p, r)
  PROVE  DiskMoves(p, q, r)
  <1>1. CASE r.op \in OnProjects /\ q = ProjectsEffect(p, r)
    <2>1. ProjectsOutcome(p, q, r)
      BY <1>1, ProjectsEffectOutcome
    <2>2. "disk" \in DOMAIN p \ (InWork \cup {"next"})
      BY DEF IsPortal, InWork
    <2>3. q.disk = p.disk
      BY <2>1, <2>2 DEF ProjectsOutcome
    <2> QED BY <1>1, <2>3, SameDisk DEF OnProjects, OnDisk
  <1>2. CASE r.op \in OnBusiness /\ q = BusinessEffect(p, r)
    <2>1. q.disk = p.disk
      BY <1>2, BusinessLeavesWork
    <2> QED BY <1>2, <2>1, SameDisk DEF OnBusiness, OnDisk
  <1>3. CASE q = Docs!DocumentsEffect(p, r)
    BY <1>3, DocumentsOnDisk
  <1>4. CASE r.op \notin OnProjects \cup OnBusiness \cup OnDocuments /\ q = p
    BY <1>4, SameDisk DEF OnDocuments, OnDisk
  <1> QED BY <1>1, <1>2, <1>3, <1>4, EffectParts

LEMMA HappensOnDisk ==
  ASSUME IsPortal(portal), NEW a, NEW r, IsRequest(r), NEW rest, Happens(a, r, rest)
  PROVE  /\ CutOff(portal') \subseteq CutOff(portal) \cup (IF MakesFile(r) THEN {r.at} ELSE {})
         /\ portal' = WorkEffect(portal, r) /\ WorkAccepts(portal, r) => DiskMoves(portal, portal', r)
  BY AcceptedHas, EffectOutcome, EffectOnDisk, CreatesAgain DEF Outcome, DiskMoves, Happens
-----------------------------------------------------------------------------
(* The requests of downloads come in turn.                                 *)

LEMMA OnlyDocumentsThen ==
  ASSUME NEW p, NEW q, q.use \in WriterUses, NEW more \in WorkThen(p, q)
  PROVE  more \in Docs!DocumentsThen(p, q) \/ more = <<>>
  BY DEF ProjectsThen, Nothing, WriterUses, BusinessThen, WorkThen

\* What does not write brings nothing that does.
LEMMA OthersWriteNothing ==
  ASSUME NEW h, IsRequest(h), ~Writes(h), NEW more, GoodScript(Asks(h), more), NEW x \in ToSet(more)
  PROVE  ~Writes(x)
  <1>1. "open" \notin Asks(h)
    <2>1. h.use \in {"stat", "stat file"} => "open" \notin Brings(h.val.op)
      BY DEF IsRequest, Fits, IsJob, Brings, Writes, LooksUp
    <2> QED BY <2>1 DEF Asks, Writes, MakesFile, ReadsBody, Scratches
  <1>2. LooksUp(x) => "open" \in Brings(x.val.op)
    BY DEF LooksUp, Brings
  <1>3. Writes(x) => "open" \in Asks(x) \cap OnlyAsked
    BY <1>2 DEF Asks, OnlyAsked, Writes, MakesFile, ReadsBody, LooksUp, Scratches
  <1> QED BY <1>1, <1>3 DEF GoodScript, Good

LEMMA NoScriptInTurn ==
  ASSUME NEW a
  PROVE  IsList(<<>>) /\ InTurn(a, <<>>)
  BY OneElement DEF InTurn

LEMMA OneInTurn ==
  ASSUME NEW a, NEW x, OwnFile(a, x), ~MakesFile(x), ~ReadsBody(x)
  PROVE  IsList(<<x>>) /\ InTurn(a, <<x>>)
  BY OnlyElement, NothingBegun

\* A request as the documents' commands make it, with one way.
LEMMA DocsWays ==
  ASSUME NEW op, NEW at, NEW val, NEW use
  PROVE  Docs!For(use, Docs!Must(op, at, val)).ways = 1 /\ Docs!Must(op, at, val).ways = 1
  BY DEF Docs!For, Docs!Must, Docs!Request

LEMMA FetchInTurn ==
  ASSUME NEW a, NEW file, NEW path, Downloads(a, path)
  PROVE  IsList(Docs!FetchTo(file, path)) /\ InTurn(a, Docs!FetchTo(file, path))
  <1> DEFINE x == Docs!Must("open", path, 0)
             y == Docs!For("body", Docs!Must("file", file, path))
             z == Docs!For("body", Docs!Must("fetch", file, path))
             s == <<x, y, z>>
  <1>1. Docs!FetchTo(file, path) = s
    BY DEF Docs!FetchTo
  <1>2. /\ Is(x, "open", path, 0, "", <<>>) /\ Is(y, "file", file, path, "body", <<>>)
        /\ Is(z, "fetch", file, path, "body", <<>>) /\ y.ways = 1 /\ z.ways = 1
    BY DocsShapes, DocsWays
  <1> HIDE DEF x, y, z
  <1>3. BodyOf(y, "file", path) /\ BodyOf(z, "fetch", path) /\ OwnFile(a, x) /\ OwnFile(a, y) /\ OwnFile(a, z)
    BY <1>2 DEF Is, BodyOf, OwnFile, MakesFile, ReadsBody, LooksUp, Scratches
  <1>4. s \in Seq({x, y, z}) /\ (\A i \in DOMAIN s : s[i] \in {x, y, z})
    OBVIOUS
  <1>5. DOMAIN s = {1, 2, 3} /\ s[1] = x /\ s[2] = y /\ s[3] = z
    OBVIOUS
  <1> HIDE DEF s
  <1>6. IsList(s)
    BY <1>4, SeqIsList
  <1>7. FollowedUp(a, s, 1)
    <2>1. 1 + 1 = 2
      OBVIOUS
    <2> QED BY <1>2, <1>3, <1>5, <2>1 DEF FollowedUp, Is, BodyOf
  <1>8. FollowedUp(a, s, 2)
    <2>1. 2 + 1 = 3
      OBVIOUS
    <2> QED BY <1>2, <1>3, <1>5, <2>1 DEF FollowedUp, Is, BodyOf, MakesFile
  <1>9. FollowedUp(a, s, 3)
    BY <1>2, <1>5 DEF FollowedUp, Is, BodyOf, MakesFile
  <1>10. InTurn(a, s)
    BY <1>3, <1>5, <1>7, <1>8, <1>9 DEF InTurn
  <1> QED BY <1>1, <1>6, <1>10

LEMMA SplitInTurn ==
  ASSUME NEW a, NEW job, IsJob(job), job.op = "download", Downloads(a, job.arg)
  PROVE  IsList(Docs!Split(job)) /\ InTurn(a, Docs!Split(job))
  BY FetchInTurn DEF Docs!Split

LEMMA StatFileInTurn ==
  ASSUME NEW a, NEW r, LooksUp(r), Downloads(a, r.val.arg)
  PROVE  IsList(Docs!StatFile(r)) /\ InTurn(a, Docs!StatFile(r))
  <1> DEFINE q == Docs!For("stat file", Docs!Must("file", r.at, r.val))
  <1>1. Docs!StatFile(r) = <<q>> /\ Is(q, "file", r.at, r.val, "stat file", <<>>)
    BY DocsShapes DEF Docs!StatFile
  <1> HIDE DEF q
  <1>2. OwnFile(a, q) /\ ~MakesFile(q) /\ ~ReadsBody(q)
    BY <1>1 DEF Is, OwnFile, MakesFile, ReadsBody, LooksUp, Scratches
  <1> QED BY <1>1, <1>2, OneInTurn

LEMMA LookedInTurn ==
  ASSUME NEW a, NEW job, IsJob(job), job.op = "download", Downloads(a, job.arg)
  PROVE  IsList(Docs!Looked(job)) /\ InTurn(a, Docs!Looked(job))
  <1>1. CASE job.ids = <<>>
    BY <1>1, SplitInTurn DEF Docs!Looked
  <1>2. CASE job.ids # <<>>
    <2> DEFINE ids == Tail(job.ids)
               at == Head(job.ids)
               next == [job EXCEPT !.ids = ids]
               q == Docs!For("stat", Docs!Must("dir", at, next))
    <2>1. Docs!Looked(job) = <<q>>
      BY <1>2 DEF Docs!Looked, Docs!Stat
    <2> HIDE DEF ids, at
    <2>2. next.op = job.op /\ next.arg = job.arg
      BY DEF IsJob
    <2> HIDE DEF next
    <2>3. Is(q, "dir", at, next, "stat", <<>>)
      BY DocsShapes
    <2> HIDE DEF q
    <2>4. OwnFile(a, q) /\ ~MakesFile(q) /\ ~ReadsBody(q)
      BY <2>2, <2>3 DEF Is, OwnFile, MakesFile, ReadsBody, LooksUp, Scratches
    <2> QED BY <2>1, <2>4, OneInTurn
  <1> QED BY <1>1, <1>2

LEMMA StatedInTurn ==
  ASSUME NEW a, NEW p, NEW r, IsRequest(r), LooksUp(r), Downloads(a, r.val.arg), NEW s \in Docs!DocumentsThen(p, r)
  PROVE  IsList(s) /\ InTurn(a, s)
  <1> DEFINE folders == Append(r.val.folders, r.at)
             files == Append(r.val.files, r.at)
             x == [r.val EXCEPT !.folders = folders]
             y == [r.val EXCEPT !.files = files]
  <1>1. IsJob(r.val)
    BY DEF IsRequest, Fits, LooksUp
  <1>2. s \in {Docs!Looked(x), Docs!StatFile(r), Docs!Looked(y)}
    BY DEF Docs!DocumentsThen, Docs!Stated, Docs!StatedFile, LooksUp
  <1>3. IsList(folders) /\ IsList(files)
    BY <1>1, AppendList DEF IsJob
  <1> HIDE DEF folders, files
  <1>4. IsJob(x) /\ x.op = "download" /\ x.arg = r.val.arg /\ IsJob(y) /\ y.op = "download" /\ y.arg = r.val.arg
    BY <1>1, <1>3 DEF IsJob, LooksUp
  <1> HIDE DEF x, y
  <1> QED BY <1>2, <1>4, LookedInTurn, StatFileInTurn

LEMMA ScrapInTurn ==
  ASSUME NEW a, NEW id, NEW local
  PROVE  IsList(Docs!Scrap(id, local)) /\ InTurn(a, Docs!Scrap(id, local))
  <1> DEFINE q == Docs!Try("drop file", id, 0)
  <1>1. Docs!Scrap(id, local) \in {<<>>, <<q>>}
    BY DEF Docs!Scrap, Docs!Nothing
  <1>2. Is(q, "drop file", id, 0, "", <<>>)
    BY DocsShapes
  <1> HIDE DEF q
  <1>3. OwnFile(a, q) /\ ~MakesFile(q) /\ ~ReadsBody(q)
    BY <1>2 DEF Is, OwnFile, MakesFile, ReadsBody, LooksUp, Scratches
  <1> QED BY <1>1, <1>3, OneInTurn, NoScriptInTurn

LEMMA ConvertInTurn ==
  ASSUME NEW a, NEW id, NEW name, NEW path, NEW local, Converts(a, path)
  PROVE  IsList(Docs!Convert(id, name, path, local)) /\ InTurn(a, Docs!Convert(id, name, path, local))
  <1> DEFINE v == Docs!Must("presigned", id, 0)
             w == Docs!Must("convert", 0, name)
             x == Docs!Must("open", path, 0)
             y == Docs!For("converted", Docs!Must("result", id, local))
             z == Docs!Must("write", path, "pdf")
             s == <<v, w, x, y, z>>
             t == Docs!Scrap(id, local)
             u == s \o t
  <1>1. Docs!Convert(id, name, path, local) = u
    BY DEF Docs!Convert
  <1>2. /\ Is(v, "presigned", id, 0, "", <<>>) /\ Is(w, "convert", 0, name, "", <<>>)
        /\ Is(x, "open", path, 0, "", <<>>) /\ Is(y, "result", id, local, "converted", <<>>)
        /\ Is(z, "write", path, "pdf", "", <<>>)
    BY DocsShapes
  <1> HIDE DEF v, w, x, y, z
  <1>3. s \in Seq({v, w, x, y, z}) /\ (\A i \in DOMAIN s : s[i] \in {v, w, x, y, z})
    OBVIOUS
  <1> HIDE DEF s
  <1>4. IsList(s)
    BY <1>3, SeqIsList
  <1>5. \A e \in {v, w, x, y, z} : OwnFile(a, e) /\ ~ReadsBody(e) /\ (MakesFile(e) => e.at = path)
    BY <1>2 DEF Is, OwnFile, MakesFile, ReadsBody, LooksUp, Scratches
  <1>6. InTurn(a, s)
    BY <1>3, <1>5 DEF InTurn, FollowedUp, BodyOf, ReadsBody
  <1>7. IsList(t) /\ InTurn(a, t)
    BY ScrapInTurn
  <1> HIDE DEF t
  <1>8. IsList(u) /\ InTurn(a, u)
    BY <1>4, <1>6, <1>7, InTurnConcat, ConcatElements
  <1> QED BY <1>1, <1>8

LEMMA ThenInTurn ==
  ASSUME NEW a, NEW p, IsPortal(p), NEW h, IsRequest(h), OwnFile(a, h), h.op = "invoice" => h.at \in DOMAIN p.invoices,
         NEW more \in WorkThen(p, h)
  PROVE  IsList(more) /\ InTurn(a, more)
  <1>1. CASE ~Writes(h)
    BY <1>1, WorkThenIsGood, OthersWriteNothing, PlainInTurn DEF Good, GoodScript
  <1>2. CASE MakesFile(h)
    <2>1. more = <<>>
      BY <1>2, PlainThen DEF OwnFile, PlainUse
    <2> QED BY <2>1, NoScriptInTurn
  <1>3. CASE ReadsBody(h)
    <2>0. h.use \in WriterUses
      BY <1>3 DEF ReadsBody, WriterUses
    <2>1. more \in Docs!DocumentsThen(p, h) \/ more = <<>>
      BY <2>0, OnlyDocumentsThen
    <2>2. Docs!DocumentsThen(p, h) = {<<>>}
      BY <1>3 DEF Docs!DocumentsThen, Docs!Nothing, ReadsBody
    <2> QED BY <2>1, <2>2, NoScriptInTurn
  <1>4. CASE LooksUp(h)
    <2>0. h.use \in WriterUses
      BY <1>4 DEF LooksUp, WriterUses
    <2>1. more \in Docs!DocumentsThen(p, h) \/ more = <<>>
      BY <2>0, OnlyDocumentsThen
    <2>2. Downloads(a, h.val.arg)
      BY <1>4 DEF OwnFile
    <2> QED BY <1>4, <2>1, <2>2, StatedInTurn, NoScriptInTurn
  <1>5. CASE Scratches(h)
    <2>0. h.use \in WriterUses
      BY <1>5 DEF Scratches, WriterUses
    <2>1. more \in Docs!DocumentsThen(p, h) \/ more = <<>>
      BY <2>0, OnlyDocumentsThen
    <2>2. Docs!DocumentsThen(p, h) = {Docs!Convert(Docs!LastId(p), h.val.name, h.extra[1], TRUE)}
      BY <1>5 DEF Docs!DocumentsThen, Scratches
    <2>3. Converts(a, h.extra[1])
      BY <1>5 DEF OwnFile
    <2> QED BY <2>1, <2>2, <2>3, ConvertInTurn, NoScriptInTurn
  <1> QED BY <1>1, <1>2, <1>3, <1>4, <1>5 DEF Writes

\* A download that fails removes what it has begun.
LEMMA FetchFails ==
  ASSUME NEW h, ReadsBody(h), h.ways = 1
  PROVE  Alternatives(h) = {Docs!DownloadFailed(h)}
  BY DEF BusinessOtherwise, Docs!DocumentsOtherwise, ReadsBody, Alternatives, WorkOtherwise

LEMMA GivenUp ==
  ASSUME NEW a, NEW h
  PROVE  LET s == Docs!DownloadFailed(h)
         IN  /\ IsList(s) /\ InTurn(a, s) /\ 1 \in DOMAIN s /\ Removes(s[1], h.val)
             /\ IsList(<<Docs!GiveUp>>) /\ InTurn(a, <<Docs!GiveUp>>)
  <1> DEFINE x == Docs!Must("remove", h.val, 0)
             y == Docs!GiveUp
             s == <<x, y>>
  <1>1. Is(x, "remove", h.val, 0, "", <<>>) /\ Is(y, "give up", 0, 0, "", <<>>)
    BY DocsShapes DEF Docs!GiveUp
  <1>2. Docs!DownloadFailed(h) = s
    BY DEF Docs!DownloadFailed
  <1> HIDE DEF x, y
  <1>3. \A e \in {x, y} : ~Writes(e) /\ OwnFile(a, e) /\ ~MakesFile(e) /\ ~ReadsBody(e)
    BY <1>1 DEF Is, Writes, OwnFile, MakesFile, ReadsBody, LooksUp, Scratches
  <1>4. s \in Seq({x, y}) /\ (\A i \in DOMAIN s : s[i] \in {x, y}) /\ 1 \in DOMAIN s /\ s[1] = x
    OBVIOUS
  <1> HIDE DEF s
  <1>5. IsList(s)
    BY <1>4, SeqIsList
  <1>6. InTurn(a, s)
    BY <1>3, <1>4, <1>5, PlainInTurn DEF ToSet
  <1>7. Removes(s[1], h.val)
    BY <1>1, <1>4 DEF Is, Removes
  <1>8. IsList(<<y>>) /\ InTurn(a, <<y>>)
    BY <1>3, OneInTurn
  <1> QED BY <1>2, <1>4, <1>5, <1>6, <1>7, <1>8 DEF y

LEMMA ElsewhereInTurn ==
  ASSUME NEW a, NEW h, IsRequest(h), OwnFile(a, h), ~MakesFile(h), NEW more \in Alternatives(h)
  PROVE  IsList(more) /\ InTurn(a, more)
  <1>1. CASE ~Writes(h)
    BY <1>1, AlternativesAreGood, OthersWriteNothing, PlainInTurn DEF Good, GoodScript
  <1>2. CASE ReadsBody(h)
    BY <1>2, FetchFails, GivenUp DEF OwnFile
  <1>3. CASE LooksUp(h) \/ Scratches(h)
    <2> DEFINE ways == h.ways - 1
               q == [h EXCEPT !.ways = ways]
    <2>1. more = <<q>> \/ more \in BusinessOtherwise(h) \/ more \in Docs!DocumentsOtherwise(h)
      BY DEF Alternatives, WorkOtherwise
    <2>2. BusinessOtherwise(h) = {} /\ Docs!DocumentsOtherwise(h) \subseteq {Docs!StatFile(h), <<Docs!GiveUp>>}
      BY <1>3 DEF BusinessOtherwise, Docs!DocumentsOtherwise, LooksUp, Scratches
    <2>3. Scratches(h) => Docs!DocumentsOtherwise(h) = {}
      BY DEF Docs!DocumentsOtherwise, Scratches
    <2> HIDE DEF ways
    <2>4. q.op = h.op /\ q.at = h.at /\ q.val = h.val /\ q.use = h.use /\ q.extra = h.extra
      BY DEF IsRequest, RequestFields
    <2> HIDE DEF q
    <2>5. OwnFile(a, q) /\ ~MakesFile(q) /\ ~ReadsBody(q)
      BY <1>3, <2>4 DEF OwnFile, MakesFile, ReadsBody, LooksUp, Scratches
    <2>6. IsList(<<q>>) /\ InTurn(a, <<q>>)
      BY <2>5, OneInTurn
    <2>7. ASSUME LooksUp(h) PROVE IsList(Docs!StatFile(h)) /\ InTurn(a, Docs!StatFile(h))
      BY <2>7, StatFileInTurn DEF OwnFile
    <2> QED BY <1>3, <2>1, <2>2, <2>3, <2>6, <2>7, GivenUp
  <1> QED BY <1>1, <1>2, <1>3 DEF Writes

\* The user's own disk does not fail.
LEMMA DiskObeys ==
  ASSUME NEW a, Step(a), NEW h, h = Head(session[a].todo), h.op \in {"open", "remove"}
  PROVE  Succeed(a) /\ WorkAccepts(portal, h) /\ portal' = WorkEffect(portal, h)
  <1>1. ProjectsAccepts(portal, h)
    BY DEF ProjectsAccepts, InProject, AtTask
  <1>2. BusinessAccepts(portal, h)
    BY DEF BusinessAccepts, AtInvoice, AtUser
  <1>3. Docs!DocumentsAccepts(portal, h)
    BY DEF Docs!DocumentsAccepts, Docs!AtFile, Docs!AtFolder, Docs!AtTask
  <1>4. WorkAccepts(portal, h)
    BY <1>1, <1>2, <1>3 DEF WorkAccepts
  <1>5. ~Sent(h)
    BY DEF Sent, Local
  <1>6. ~WorkCreates(h)
    BY DEF WorkCreates, ProjectsCreates, BusinessCreates, Docs!DocumentsCreates
  <1>7. Succeed(a)
    BY <1>4, <1>5, <1>6 DEF Step, Reject, Fail, ApplyTwice
  <1> QED BY <1>4, <1>7 DEF Succeed

LEMMA OpeningOwnFile ==
  ASSUME NEW a \in Actors, NEW i \in DOMAIN jobs[a], IsOpening(jobs[a][i])
  PROVE  OwnFile(a, jobs[a][i]) /\ ~ReadsBody(jobs[a][i]) /\ (MakesFile(jobs[a][i]) => Converts(a, jobs[a][i].at))
  <1> DEFINE r == jobs[a][i]
  <1>1. r.use \notin {"body", "stat file"} /\ (r.op = "open" => r.use = "")
    BY DEF IsOpening, Openings, Local
  <1>2. r.op = "open" => Converts(a, r.at)
    BY DEF Converts
  <1>3. r.use = "scratch" => Converts(a, r.extra[1])
    BY DEF Converts
  <1>4. r.use = "stat" /\ r.val.op = "download" => Downloads(a, r.val.arg)
    BY DEF Downloads
  <1> HIDE DEF r
  <1>5. OwnFile(a, r) /\ ~ReadsBody(r) /\ (MakesFile(r) => Converts(a, r.at))
    BY <1>1, <1>2, <1>3, <1>4 DEF OwnFile, MakesFile, ReadsBody, LooksUp, Scratches
  <1> QED BY <1>5 DEF r

LEMMA WritersBegin == Init => WritersGoOn
  <1> SUFFICES ASSUME Init PROVE WritersGoOn
    OBVIOUS
  <1>1. start = portal /\ jobs \in Jobs /\ session = [a \in Actors |-> Fresh(jobs[a])]
    BY DEF Init
  <1>2. ASSUME NEW b \in Actors PROVE InTurn(b, session[b].todo)
    BY <1>1, JobsAssumption, OpeningOwnFile DEF Fresh, FollowedUp, BodyOf, ReadsBody, InTurn
  <1> QED BY <1>1, <1>2 DEF WritersGoOn

LEMMA WriterSteps ==
  ASSUME Sound, NEW a \in Actors, Step(a), NEW h, h = Head(session[a].todo), NEW rest, rest = Tail(session[a].todo),
         Moves(a, h, rest), Happens(a, h, rest)
  PROVE  /\ Answers(a, h, rest) \/ Evades(a, h, rest)
         /\ Answers(a, h, rest) /\ ~WorkCreates(h) /\ ~Evades(a, h, rest) => portal' = WorkEffect(portal, h)
  BY DiskObeys, AnsweredGoesOn DEF Succeed, Answers, Moves, Evades, MakesFile, Happens

LEMMA WriterInTurn ==
  ASSUME Sound, NEW a \in Actors, NEW h, IsRequest(h), NEW rest, IsPortal(portal'),
         OwnFile(a, h), IsList(rest), InTurn(a, rest), Answers(a, h, rest) \/ Evades(a, h, rest)
  PROVE  InTurn(a, session'[a].todo)
  <1>1. ASSUME NEW more, IsList(more), InTurn(a, more), Goes(a, more \o rest, session[a].failed)
        PROVE  InTurn(a, session'[a].todo)
    BY <1>1, InTurnConcat DEF Goes
  <1>2. CASE Answers(a, h, rest)
    BY <1>2, <1>1, AcceptedInvoice, ThenInTurn DEF Answers, GoesOn
  <1>3. CASE Evades(a, h, rest)
    BY <1>3, <1>1, ElsewhereInTurn, NoScriptInTurn DEF Evades, Goes, GoesElsewhere
  <1> QED BY <1>2, <1>3

\* The answer to a plain request brings nothing.
LEMMA OnlyRest ==
  ASSUME NEW a, NEW h, NEW rest, IsList(rest), h.use \in {PlainUse, "body"}, Answers(a, h, rest)
  PROVE  session'[a].todo = rest
  <1>1. PICK more \in WorkThen(portal', h) : session'[a].todo = more \o rest
    BY DEF Answers, GoesOn, Goes
  <1>2. more = <<>>
    <2>1. CASE h.use = PlainUse
      BY <1>1, <2>1, PlainThen
    <2>2. CASE h.use = "body"
      <3>1. h.use \in WriterUses
        BY <2>2 DEF WriterUses
      <3>2. Docs!DocumentsThen(portal', h) = {<<>>}
        BY <2>2 DEF Docs!DocumentsThen, Docs!Nothing
      <3> QED BY <1>1, <3>1, <3>2, OnlyDocumentsThen
    <2> QED BY <2>1, <2>2
  <1>3. rest \in Seq(ToSet(rest))
    BY ListShape
  <1>4. <<>> \o rest = rest
    BY <1>3
  <1> QED BY <1>1, <1>2, <1>4

LEMMA FetcherLooksAfter ==
  ASSUME Sound, NEW a \in Actors, NEW h, IsRequest(h), NEW rest, IsPortal(portal'),
         IsList(session[a].todo), session[a].todo # <<>>, h = Head(session[a].todo), rest = Tail(session[a].todo),
         IsList(rest), InTurn(a, session[a].todo),
         Answers(a, h, rest) \/ Evades(a, h, rest),
         Answers(a, h, rest) /\ ~WorkCreates(h) /\ ~Evades(a, h, rest) => portal' = WorkEffect(portal, h),
         Happens(a, h, rest), NEW path \in CutOff(portal'), SeesTo(h, path)
  PROVE  1 \in DOMAIN session'[a].todo /\ SeesTo(session'[a].todo[1], path)
  <1>1. 1 \in DOMAIN session[a].todo /\ h = session[a].todo[1]
    BY TailList
  <1>2. h.op \in {"remove", "file", "fetch"}
    BY DEF SeesTo, BodyOf, Removes
  <1>3. ~WorkCreates(h)
    BY <1>2 DEF WorkCreates, ProjectsCreates, BusinessCreates, Docs!DocumentsCreates
  <1>4. ASSUME Answers(a, h, rest), ~Evades(a, h, rest) PROVE DiskMoves(portal, portal', h)
    BY <1>3, <1>4, HappensOnDisk DEF Answers, Sound
  <1>5. CASE Removes(h, path)
    BY <1>5, <1>4 DEF Removes, Evades, DiskMoves
  <1>6. CASE BodyOf(h, h.op, path) /\ h.op \in {"file", "fetch"} /\ Evades(a, h, rest)
    <2> DEFINE s == Docs!DownloadFailed(h)
    <2>1. Alternatives(h) = {s}
      BY <1>6, FetchFails DEF BodyOf, ReadsBody
    <2>2. IsList(s) /\ 1 \in DOMAIN s /\ Removes(s[1], path)
      BY <1>6, GivenUp DEF BodyOf
    <2> HIDE DEF s
    <2>3. session'[a].todo = s \o rest
      BY <1>6, <2>1 DEF Evades, GoesElsewhere, Goes
    <2>4. 1 \in DOMAIN (s \o rest) /\ (s \o rest)[1] = s[1]
      BY <2>2, ConcatPlaces
    <2> QED BY <2>2, <2>3, <2>4 DEF SeesTo
  <1>7. CASE BodyOf(h, "file", path) /\ ~Evades(a, h, rest)
    <2>1. session'[a].todo = rest
      BY <1>7, OnlyRest DEF BodyOf
    <2>2. BodyOf(session[a].todo[1], "file", session[a].todo[1].val) /\ session[a].todo[1].val = path
      BY <1>1, <1>7 DEF BodyOf
    <2>3. 1 + 1 = 2
      OBVIOUS
    <2>4. 2 \in DOMAIN session[a].todo /\ BodyOf(session[a].todo[2], "fetch", path)
      BY <1>1, <2>2, <2>3 DEF InTurn, FollowedUp
    <2>5. 1 \in DOMAIN rest /\ rest[1] = session[a].todo[2]
      BY <2>4, RestPlaces
    <2> QED BY <2>1, <2>4, <2>5 DEF SeesTo
  <1>8. CASE BodyOf(h, "fetch", path) /\ ~Evades(a, h, rest)
    BY <1>4, <1>8 DEF DiskMoves, BodyOf
  <1>9. Removes(h, path) \/ (BodyOf(h, "file", path) /\ h.op = "file") \/ (BodyOf(h, "fetch", path) /\ h.op = "fetch")
    BY DEF SeesTo, BodyOf
  <1> QED BY <1>5, <1>6, <1>7, <1>8, <1>9

LEMMA OpenerLooksAfter ==
  ASSUME NEW a \in Actors, NEW h, NEW rest,
         IsList(session[a].todo), session[a].todo # <<>>, h = Head(session[a].todo), rest = Tail(session[a].todo),
         IsList(rest), InTurn(a, session[a].todo), MakesFile(h), ~Converts(a, h.at),
         Answers(a, h, rest) \/ Evades(a, h, rest)
  PROVE  Downloads(a, h.at) /\ 1 \in DOMAIN session'[a].todo /\ SeesTo(session'[a].todo[1], h.at)
  <1>1. 1 \in DOMAIN session[a].todo /\ h = session[a].todo[1]
    BY TailList
  <1>2. OwnFile(a, h) /\ FollowedUp(a, session[a].todo, 1)
    BY <1>1 DEF InTurn
  <1>3. h.use = PlainUse /\ Downloads(a, h.at)
    BY <1>2 DEF OwnFile, PlainUse
  <1>4. session'[a].todo = rest
    BY <1>3, OnlyRest DEF Evades
  <1>5. 1 + 1 = 2
    OBVIOUS
  <1>6. 2 \in DOMAIN session[a].todo /\ BodyOf(session[a].todo[2], "file", h.at)
    BY <1>1, <1>2, <1>5 DEF FollowedUp
  <1>7. 1 \in DOMAIN rest /\ rest[1] = session[a].todo[2]
    BY <1>6, RestPlaces
  <1> QED BY <1>3, <1>4, <1>6, <1>7 DEF SeesTo

LEMMA InTurnStays ==
  ASSUME \A c, path : (Converts(c, path)' <=> Converts(c, path)) /\ (Downloads(c, path)' <=> Downloads(c, path)),
         NEW b, InTurn(b, session'[b].todo)
  PROVE  InTurn(b, session[b].todo)'
  BY DEF InTurn, OwnFile, FollowedUp, BodyOf, MakesFile, ReadsBody, LooksUp, Scratches

LEMMA WritersMove ==
  ASSUME Sound, WritersGoOn, NEW a \in Actors, Step(a)
  PROVE  WritersGoOn'
  <1> DEFINE h == Head(session[a].todo)
             rest == Tail(session[a].todo)
  <1>1. /\ session[a].todo # <<>> /\ Good(Asked(a), h) /\ GoodScript(Asked(a), rest)
        /\ Moves(a, h, rest) /\ Happens(a, h, rest)
    BY StepMoves, StepHappens
  <1>2. /\ Answers(a, h, rest) \/ Evades(a, h, rest)
        /\ Answers(a, h, rest) /\ ~WorkCreates(h) /\ ~Evades(a, h, rest) => portal' = WorkEffect(portal, h)
    BY <1>1, WriterSteps
  <1>a. h = Head(session[a].todo) /\ rest = Tail(session[a].todo)
    OBVIOUS
  <1>3. IsList(session[a].todo) /\ InTurn(a, session[a].todo)
    BY DEF Sound, GoodScript, WritersGoOn
  <1>4. OwnFile(a, h) /\ InTurn(a, rest)
    BY <1>1, <1>3, InTurnRest
  <1> HIDE DEF h, rest
  <1>5. Kept(a) /\ IsPortal(portal') /\ IsPortal(portal) /\ IsRequest(h) /\ IsList(rest)
    BY <1>1 DEF Moves, Outcome, Sound, Good, GoodScript
  <1>6. /\ start' = start /\ \A b \in Actors \ {a} : session'[b] = session[b]
        /\ \A b, path : (Converts(b, path)' <=> Converts(b, path)) /\ (Downloads(b, path)' <=> Downloads(b, path))
    BY <1>5 DEF Kept, Converts, Downloads
  <1>7. InTurn(a, session'[a].todo)
    BY <1>2, <1>4, <1>5, WriterInTurn
  <1>8. ASSUME NEW b \in Actors PROVE InTurn(b, session[b].todo)'
    BY <1>6, <1>7, InTurnStays DEF WritersGoOn
  <1>9. ASSUME NEW path \in CutOff(portal') \ CutOff(start) PROVE LookedAfter(path)'
    <2>1. CASE path \in CutOff(portal)
      <3>1. PICK b \in Actors : \/ Converts(b, path)
                                \/ /\ Downloads(b, path) /\ 1 \in DOMAIN session[b].todo
                                   /\ SeesTo(session[b].todo[1], path)
        BY <2>1 DEF WritersGoOn, LookedAfter
      <3>2. CASE Converts(b, path)
        BY <1>6, <3>2 DEF LookedAfter
      <3>3. CASE Downloads(b, path) /\ 1 \in DOMAIN session[b].todo /\ SeesTo(session[b].todo[1], path) /\ b # a
        BY <1>6, <3>3 DEF LookedAfter, SeesTo, BodyOf, Removes
      <3>4. CASE Downloads(b, path) /\ SeesTo(session[b].todo[1], path) /\ b = a
        <4>1. SeesTo(h, path)
          BY <1>1, <1>3, <1>a, <3>4, TailList
        <4>2. 1 \in DOMAIN session'[a].todo /\ SeesTo(session'[a].todo[1], path)
          BY <1>1, <1>2, <1>3, <1>5, <1>a, <4>1, FetcherLooksAfter
        <4> QED BY <1>6, <3>4, <4>2 DEF LookedAfter, SeesTo, BodyOf, Removes
      <3> QED BY <3>1, <3>2, <3>3, <3>4
    <2>2. CASE path \notin CutOff(portal)
      <3>1. MakesFile(h) /\ path = h.at
        BY <1>1, <1>5, <2>2, HappensOnDisk
      <3>2. CASE Converts(a, path)
        BY <1>6, <3>2 DEF LookedAfter
      <3>3. CASE ~Converts(a, path)
        <4>1. Downloads(a, path) /\ 1 \in DOMAIN session'[a].todo /\ SeesTo(session'[a].todo[1], path)
          BY <1>1, <1>2, <1>3, <1>5, <1>a, <3>1, <3>3, OpenerLooksAfter
        <4> QED BY <1>6, <4>1 DEF LookedAfter, SeesTo, BodyOf, Removes
      <3> QED BY <3>2, <3>3
    <2> QED BY <2>1, <2>2
  <1>10. \A path : path \in (CutOff(portal) \ CutOff(start))' <=> path \in CutOff(portal') \ CutOff(start)
    BY <1>6 DEF CutOff
  <1> QED BY <1>8, <1>9, <1>10 DEF WritersGoOn

LEMMA WritersEnd == WritersGoOn => DownloadsAreWhole
  BY DEF DownloadsAreWhole, Ended, WritersGoOn, LookedAfter

\* cmd/oo/dav.go:438 and projects_files.go:237: whatever others do to the file meanwhile, and
\* whichever request of it fails, a download that has ended leaves no file that is cut off.
THEOREM NoFileIsCutOff == Spec => []DownloadsAreWhole
  <1>1. Init => Sound /\ WritersGoOn
    BY BeginsSound, WritersBegin
  <1>2. Sound /\ WritersGoOn /\ [Next]_vars => (Sound /\ WritersGoOn)'
    <2> SUFFICES ASSUME Sound, WritersGoOn, [Next]_vars PROVE (Sound /\ WritersGoOn)'
      OBVIOUS
    <2>1. CASE UNCHANGED vars
      BY <2>1, InTurnStays, StaysSound DEF vars, Converts, Downloads, CutOff, WritersGoOn,
         LookedAfter, SeesTo, BodyOf, Removes
    <2>2. ASSUME NEW a \in Actors, Step(a) PROVE (Sound /\ WritersGoOn)'
      BY <2>2, MovesSoundly, WritersMove
    <2> QED BY <2>1, <2>2 DEF Next, Finished
  <1> QED BY <1>1, <1>2, WritersEnd, PTL DEF Spec
-----------------------------------------------------------------------------
(* Files of tasks: what requests do to files and to the tasks they are on. *)

LEMMA InOrder ==
  ASSUME NEW i \in Nat, NEW j \in Nat, NEW k \in Nat, i <= j
  PROVE  (j <= k => i <= k) /\ (j < k => i < k)
  OBVIOUS

LEMMA FilesStayTwice ==
  ASSUME NEW p, NEW q, NEW s, NEW r, r.op \notin {"drop file", "update"}, FilesStay(p, q, r), FilesStay(q, s, r)
  PROVE  FilesStay(p, s, r)
  <1>1. p.next \in Nat /\ q.next \in Nat /\ s.next \in Nat /\ p.next <= q.next /\ q.next <= s.next
    BY DEF FilesStay
  <1>2. TasksKeep(p, s)
    BY DEF FilesStay, TasksKeep
  <1>3. BodiesStay(p, s, r)
    BY DEF FilesStay, BodiesStay, ChangesFile
  <1>4. FileMade(p, s, r)
    BY <1>1, InOrder DEF FilesStay, FileMade
  <1>5. p.next <= s.next
    BY <1>1, InOrder
  <1> QED BY <1>1, <1>2, <1>3, <1>4, <1>5 DEF FilesStay

LEMMA BusinessLeavesFiles ==
  ASSUME NEW p, IsPortal(p), NEW r, NEW q, q = BusinessEffect(p, r)
  PROVE  q.files = p.files /\ q.folders = p.folders
  <1>0. "files" \in DOMAIN p /\ "folders" \in DOMAIN p
    BY DEF IsPortal, Kinds
  <1>1. CASE r.op \in {"send", "arrive", "add invoice", "add user", "add event"} \/ (r.op = "save draft" /\ r.at = 0)
    BY <1>1, <1>0 DEF BusinessEffect, SaveDraft, Add
  <1>2. CASE r.op = "save draft" /\ r.at # 0
    BY <1>0, <1>2 DEF BusinessEffect, SaveDraft
  <1>3. CASE r.op \in {"put invoice", "set status", "drop invoice", "drop copies", "put user", "activate",
                       "drop user", "drop event", "layout", "attach", "remove mails"}
    BY <1>0, <1>3 DEF BusinessEffect
  <1>4. CASE r.op = "pdf"
    BY <1>0, <1>4 DEF BusinessEffect, MakePDF, Add
  <1>5. CASE r.op \notin OnBusiness
    <2>1. q = p
      BY <1>5, WhoseRequest
    <2> QED BY <2>1
  <1> QED BY <1>1, <1>2, <1>3, <1>4, <1>5 DEF OnBusiness

\* Tasks under the requests on projects.
LEMMA ProjectsKeepTasks ==
  ASSUME NEW p, IsPortal(p), Tasked(p), NEW r, Has(p, r), r.op \notin Losses, NEW q, q = ProjectsEffect(p, r)
  PROVE  TasksKeep(p, q)
  <1>0. "tasks" \in DOMAIN p /\ "tasks" \in Kinds
    BY DEF IsPortal, Kinds
  <1>1. CASE q.tasks = p.tasks
    BY <1>1 DEF TasksKeep, Tasked
  <1>2. CASE r.op = "add task"
    <2> DEFINE x == NewTask(r.at, r.val.title, r.val.milestone)
               kind == "tasks"
    <2>1. q = Add(p, kind, x)
      BY <1>2 DEF ProjectsEffect
    <2>2. DOMAIN x = TaskFields
      BY DEF NewTask, TaskFields
    <2>3. IsRecord(kind, x, p.next + 1) /\ kind \in Kinds
      BY AnyRecord DEF Kinds
    <2> HIDE DEF x
    <2>4. Added(p, q, kind, x)
      BY <2>1, <2>3, AddOutcome
    <2>5. /\ DOMAIN q.tasks = DOMAIN p.tasks \cup {p.next} /\ q.tasks[p.next] = x
          /\ \A i \in DOMAIN p.tasks : q.tasks[i] = p.tasks[i]
      BY <2>4 DEF Added
    <2> QED BY <2>2, <2>5 DEF TasksKeep, Tasked
  <1>3. CASE r.op \in {"add subtask", "status"}
    BY <1>0, <1>3 DEF ProjectsEffect, Has, Tasked, TaskFields, TasksKeep
  <1>4. CASE r.op = "drop milestone"
    BY <1>0, <1>4 DEF ProjectsEffect, DropMilestone, Unset, Tasked, TaskFields, TasksKeep
  <1>5. CASE r.op \notin {"add task", "add subtask", "status", "drop milestone"}
    <2>1. q.tasks = p.tasks
      BY <1>0, <1>5 DEF ProjectsEffect, Add, Losses
    <2> QED BY <1>1, <2>1
  <1> QED BY <1>2, <1>3, <1>4, <1>5

\* Files under the requests on documents.
LEMMA NewNumbers ==
  ASSUME NEW p, IsPortal(p), NEW f \in DOMAIN p.files
  PROVE  f \in 1 .. p.next - 1 /\ p.next \in Nat \ {0}
  <1>1. "files" \in Kinds
    BY DEF Kinds
  <1> QED BY <1>1, Records

LEMMA DocumentsKeepBodies ==
  ASSUME NEW p, IsPortal(p), NEW r, Has(p, r), r.op \notin Losses, NEW q, q = Docs!DocumentsEffect(p, r)
  PROVE  BodiesStay(p, q, r) /\ (r.op = "upload" => p.next < q.next /\ Uploaded(q, r))
  <1>0. {"files", "next", "tasks", "folders", "disk"} \subseteq DOMAIN p
    BY DEF IsPortal, Kinds
  <1>1. CASE r.op = "upload"
    <2> DEFINE x == Docs!NewFile(r.val.name, r.at, r.val.body, p.next)
               kind == "files"
    <2>1. q = Add(p, kind, x)
      BY <1>1 DEF Docs!DocumentsEffect, Docs!Upload, Docs!Add, Docs!Put, Docs!NewId, Add, Put, NewId
    <2>2. DOMAIN x = FileFields /\ x.time = p.next /\ x.body = r.val.body
      BY DEF Docs!NewFile, FileFields
    <2>3. p.next \in 0 .. (p.next + 1) - 1
      BY DEF IsPortal
    <2> HIDE DEF x
    <2>4. kind \in Kinds /\ IsRecord(kind, x, p.next + 1)
      BY <2>2, <2>3, FileIsRecord DEF Kinds
    <2>5. Added(p, q, kind, x)
      BY <2>1, <2>4, AddOutcome
    <2>6. /\ p.next \in DOMAIN q.files /\ q.files[p.next] = x
          /\ \A f \in DOMAIN p.files : f \in DOMAIN q.files /\ q.files[f] = p.files[f]
      BY <2>5 DEF Added
    <2>7. q.next - 1 = p.next /\ p.next < q.next
      BY <2>5 DEF Added
    <2> HIDE DEF kind
    <2> QED BY <2>2, <2>6, <2>7 DEF BodiesStay, Uploaded
  <1>2. CASE r.op = "update"
    BY <1>2, <1>0, FileRecords DEF Has, Docs!DocumentsEffect, Docs!Update, Docs!NewId, WithNew,
       FileFields, BodiesStay, ChangesFile
  <1>3. CASE r.op = "move items"
    BY <1>0, <1>3, FileRecords DEF Docs!DocumentsEffect, Docs!MoveItems, FileFields, BodiesStay
  <1>4. CASE r.op = "copy items"
    <2>1. ASSUME NEW f \in DOMAIN p.files
          PROVE  f \in DOMAIN q.files /\ q.files[f] = p.files[f]
      <3> DEFINE moved == Docs!SetToSeq(Docs!Moving(p, r.val.files, r.at))
                 n == p.next + Len(moved)
                 g == [i \in p.next .. n - 1 |-> [p.files[moved[i - p.next + 1]] EXCEPT !.in = r.at, !.time = i]]
      <3>1. f \notin p.next .. n - 1
        <4> HIDE DEF n
        <4> QED BY NewNumbers
      <3>2. q.files = Docs!WithCopies(p.files, g)
        BY <1>4, <1>0 DEF Docs!DocumentsEffect, Docs!CopyItems
      <3>3. DOMAIN g = p.next .. n - 1
        OBVIOUS
      <3> HIDE DEF g
      <3> HIDE DEF n
      <3> QED BY <3>1, <3>2, <3>3 DEF Docs!WithCopies
    <2> QED BY <1>4, <2>1 DEF BodiesStay
  <1>5. CASE r.op = "rename file"
    BY <1>5, <1>0, FileRecords DEF Has, FileFields, Docs!DocumentsEffect, BodiesStay
  <1>6. CASE r.op = "drop file"
    BY <1>0, <1>6 DEF Docs!DocumentsEffect, Docs!Drop, Docs!Restrict, BodiesStay, ChangesFile
  <1>7. CASE r.op \in {"mkdir", "rename folder", "attach file", "open", "fetch", "write", "remove"}
    BY <1>0, <1>7 DEF Docs!DocumentsEffect, Docs!Add, BodiesStay
  <1>8. CASE r.op \notin OnDocuments
    <2>1. q = p
      BY <1>8, WhoseRequest
    <2> QED BY <1>8, <2>1 DEF BodiesStay, OnDocuments
  <1> QED BY <1>1, <1>2, <1>3, <1>4, <1>5, <1>6, <1>7, <1>8 DEF OnDocuments, Losses

LEMMA DocumentsKeepTasks ==
  ASSUME NEW p, IsPortal(p), Tasked(p), NEW r, Has(p, r), r.op \notin Losses, NEW q, q = Docs!DocumentsEffect(p, r)
  PROVE  /\ TasksKeep(p, q)
         /\ r.op = "attach file" => r.at \in DOMAIN q.tasks /\ r.val \in q.tasks[r.at].files
  <1>1. CASE r.op = "attach file"
    BY <1>1 DEF Has, Tasked, IsPortal, Kinds, Docs!DocumentsEffect, TaskFields, TasksKeep
  <1>2. CASE r.op # "attach file"
    BY <1>2, DocumentsLeave DEF Losses, TasksKeep, Tasked
  <1> QED BY <1>1, <1>2

\* No request takes a file off a task, or changes one, unless it says so.
LEMMA EffectFiles ==
  ASSUME NEW p, IsPortal(p), Tasked(p), NEW r, IsRequest(r), Has(p, r), r.op \notin Losses, NEW q, q = WorkEffect(p, r)
  PROVE  FilesStay(p, q, r) /\ IsPortal(q)
  <1>0. IsPortal(q)
    BY EffectOutcome DEF Outcome
  <1>1. p.next \in Nat /\ q.next \in Nat
    BY <1>0 DEF IsPortal
  <1>2. CASE r.op \in OnProjects /\ q = ProjectsEffect(p, r)
    <2>1. ProjectsOutcome(p, q, r)
      BY <1>2, ProjectsEffectOutcome
    <2>2. "files" \in DOMAIN p \ (InWork \cup {"next"})
      BY DEF IsPortal, InWork, Kinds
    <2>3. q.files = p.files /\ p.next <= q.next
      BY <1>1, <2>1, <2>2 DEF ProjectsOutcome
    <2>4. TasksKeep(p, q)
      BY <1>2, ProjectsKeepTasks
    <2>5. BodiesStay(p, q, r) /\ FileMade(p, q, r)
      BY <1>2, <2>3 DEF BodiesStay, FileMade, OnProjects
    <2> QED BY <1>0, <1>1, <2>3, <2>4, <2>5 DEF FilesStay
  <1>3. CASE r.op \in OnBusiness /\ q = BusinessEffect(p, r)
    <2>1. q.files = p.files /\ q.tasks = p.tasks
      BY <1>3, BusinessLeavesFiles, BusinessLeavesWork
    <2>2. p.next <= q.next
      <3>1. q.next >= p.next
        BY <1>3, BusinessEffectBeside DEF Beside
      <3> QED BY <1>1, <3>1
    <2>3. TasksKeep(p, q) /\ BodiesStay(p, q, r) /\ FileMade(p, q, r)
      BY <1>3, <2>1 DEF TasksKeep, Tasked, BodiesStay, FileMade, OnBusiness
    <2> QED BY <1>0, <1>1, <2>2, <2>3 DEF FilesStay
  <1>4. CASE r.op \in OnDocuments /\ q = Docs!DocumentsEffect(p, r)
    <2>1. p.next <= q.next
      <3>1. q.next >= p.next
        BY <1>4, DocumentsEffectBeside DEF Beside
      <3> QED BY <1>1, <3>1
    <2>2. TasksKeep(p, q) /\ BodiesStay(p, q, r) /\ FileMade(p, q, r)
      BY <1>4, DocumentsKeepBodies, DocumentsKeepTasks DEF FileMade
    <2> QED BY <1>0, <1>1, <2>1, <2>2 DEF FilesStay
  <1>5. CASE r.op \notin OnProjects \cup OnBusiness \cup OnDocuments /\ q = p
    <2>1. TasksKeep(p, q) /\ BodiesStay(p, q, r) /\ FileMade(p, q, r)
      BY <1>5 DEF TasksKeep, Tasked, BodiesStay, FileMade, OnDocuments
    <2>2. p.next <= q.next
      BY <1>1, <1>5
    <2> QED BY <1>0, <1>1, <2>1, <2>2 DEF FilesStay
  <1> QED BY <1>2, <1>3, <1>4, <1>5, EffectParts

\* What a step leaves of the files and the tasks.
LEMMA HappensFiles ==
  ASSUME IsPortal(portal), Tasked(portal), NEW a, NEW r, IsRequest(r), NEW rest, Happens(a, r, rest), r.op \notin Losses
  PROVE  /\ portal'.next \in Nat /\ portal.next \in Nat /\ portal.next <= portal'.next
         /\ TasksKeep(portal, portal') /\ BodiesStay(portal, portal', r)
         /\ GoesElsewhere(a, r, rest) \/ FileMade(portal, portal', r)
  <1> DEFINE q == WorkEffect(portal, r)
  <1>1. CASE portal' = portal /\ GoesElsewhere(a, r, rest)
    <2>1. portal.next \in Nat
      BY DEF IsPortal
    <2> QED BY <1>1, <2>1 DEF TasksKeep, Tasked, BodiesStay
  <1>2. WorkAccepts(portal, r) => Has(portal, r) /\ FilesStay(portal, q, r) /\ IsPortal(q)
    BY AcceptedHas, EffectFiles
  <1>3. CASE WorkAccepts(portal, r) /\ portal' = q
    BY <1>2, <1>3 DEF FilesStay
  <1>4. CASE WorkAccepts(portal, r) /\ WorkCreates(r) /\ portal' = WorkEffect(q, r)
    BY <1>2, <1>4, CreatesAgain, EffectFiles, FilesStayTwice DEF FilesStay, TasksKeep,
       WorkCreates, ProjectsCreates, BusinessCreates, Docs!DocumentsCreates
  <1> QED BY <1>1, <1>3, <1>4 DEF Happens
-----------------------------------------------------------------------------
(* What the commands do to files that they were not told of, when nobody   *)
(* asks for what is banned, replaces or cleans up.                         *)

LEMMA AimingAlters ==
  ASSUME NEW x
  PROVE  Alters(x) \/ (Mild(x) /\ \A f : ~Aims(x, f))
  BY DEF Mild, Aims, Alters, Asks, Changing

LEMMA Banned ==
  ASSUME NEW banned \in Bans
  PROVE  banned \subseteq OnlyAsked \ {"open", "drop file", "update"}
  BY DEF Bans, Unasked, Losses, Rearrangements, OnlyAsked, Removals

\* Nothing that comes from a request that alters nothing alters anything.
LEMMA TameByAsking ==
  ASSUME NEW banned \in Bans, NEW h, Tame(banned, h), ~Alters(h), NEW x, Asks(x) \cap OnlyAsked \subseteq Asks(h)
  PROVE  Tame(banned, x) /\ Mild(x) /\ \A f : ~Aims(x, f)
  BY Banned, AimingAlters DEF Changing, OnlyAsked, Alters, Tame

LEMMA HarmlessTame ==
  ASSUME NEW banned \in Bans, NEW x, Harmless(x)
  PROVE  Tame(banned, x) /\ Mild(x) /\ \A f : ~Aims(x, f)
  BY Banned DEF Harmless, Asks, PlainUse, Tame, Mild, Aims, Changing, OnlyAsked

\* What a conversion sends.
LEMMA ScrapIsList ==
  ASSUME NEW id, NEW local
  PROVE  IsList(Docs!Scrap(id, local))
  BY ScrapInTurn

LEMMA ScrapTame ==
  ASSUME NEW banned \in Bans, NEW id, NEW local \in BOOLEAN, NEW x \in ToSet(Docs!Scrap(id, local))
  PROVE  Tame(banned, x) /\ Mild(x) /\ \A f : Aims(x, f) => f = id /\ local
  <1> DEFINE q == Docs!Try("drop file", id, 0)
  <1>1. ToSet(<<>>) = {}
    BY OneElement DEF ToSet
  <1>2. CASE local
    <2>1. Docs!Scrap(id, local) = <<q>>
      BY <1>2 DEF Docs!Scrap
    <2>2. Is(q, "drop file", id, 0, "", <<>>)
      BY DocsShapes
    <2> HIDE DEF q
    <2>3. x = q
      BY <2>1, OnlyElement
    <2>0. "drop file" \notin banned
      BY Banned
    <2>a. q.op = "drop file" /\ q.use = "" /\ q.at = id
      BY <2>2 DEF Is
    <2>4. Tame(banned, q) /\ Mild(q) /\ \A f : Aims(q, f) => f = id
      BY <2>0, <2>a DEF Tame, Asks, Mild, Aims, PlainUse
    <2> QED BY <1>2, <2>3, <2>4
  <1>3. CASE ~local
    BY <1>3, <1>1 DEF Docs!Scrap, Docs!Nothing
  <1> QED BY <1>2, <1>3

LEMMA ConvertTame ==
  ASSUME NEW banned \in Bans, NEW id, NEW name, NEW path, NEW x \in ToSet(Docs!Convert(id, name, path, TRUE))
  PROVE  Tame(banned, x) /\ Mild(x) /\ \A f : Aims(x, f) => f = id
  <1> DEFINE a == Docs!Must("presigned", id, 0)
             b == Docs!Must("convert", 0, name)
             c == Docs!Must("open", path, 0)
             d == Docs!For("converted", Docs!Must("result", id, TRUE))
             e == Docs!Must("write", path, "pdf")
             s == <<a, b, c, d, e>>
             t == Docs!Scrap(id, TRUE)
  <1>1. Docs!Convert(id, name, path, TRUE) = s \o t
    BY DEF Docs!Convert
  <1>2. /\ Is(a, "presigned", id, 0, "", <<>>) /\ Is(b, "convert", 0, name, "", <<>>)
        /\ Is(c, "open", path, 0, "", <<>>) /\ Is(d, "result", id, TRUE, "converted", <<>>)
        /\ Is(e, "write", path, "pdf", "", <<>>)
    BY DocsShapes
  <1> HIDE DEF a, b, c, d, e
  <1>3. s \in Seq({a, b, c, d, e}) /\ \A i \in DOMAIN s : s[i] \in {a, b, c, d, e}
    OBVIOUS
  <1> HIDE DEF s
  <1>4. IsList(s) /\ ToSet(s) \subseteq {a, b, c, d, e}
    BY <1>3, SeqIsList DEF ToSet
  <1>5. IsList(t)
    BY ScrapIsList
  <1>6. x \in {a, b, c, d, e} \cup ToSet(t)
    <2> HIDE DEF t
    <2> QED BY <1>1, <1>4, <1>5, ConcatElements
  <1>7. \A y \in {a, b, c, e} : Tame(banned, y) /\ Mild(y) /\ \A f : Aims(y, f) => f = id
    BY <1>2, HarmlessTame DEF Is, Harmless, PlainUse, OnlyAsked, Removals
  <1>8. Tame(banned, d) /\ Mild(d) /\ \A f : Aims(d, f) => f = id
    BY <1>2 DEF Is, Asks, Tame, Mild, Aims, Bans, Unasked, Losses, Rearrangements
  <1>9. \A y \in ToSet(t) : Tame(banned, y) /\ Mild(y) /\ \A f : Aims(y, f) => f = id
    BY ScrapTame
  <1> HIDE DEF t
  <1> QED BY <1>6, <1>7, <1>8, <1>9

\* Wherever the answer to a tame request leads, only its own copy is changed besides.
LEMMA AnswerTame ==
  ASSUME NEW banned \in Bans, NEW p, IsPortal(p), NEW h, IsRequest(h), Tame(banned, h),
         h.op = "invoice" => h.at \in DOMAIN p.invoices, NEW more \in WorkThen(p, h), NEW x \in ToSet(more)
  PROVE  Tame(banned, x) /\ Mild(x) /\ \A f : Aims(x, f) => h.use = "scratch" /\ h.op = "upload" /\ f = LastId(p)
  <1>0. ToSet(<<>>) = {}
    BY OneElement DEF ToSet
  <1>1. CASE ~Alters(h)
    BY <1>1, WorkThenIsGood, TameByAsking DEF Good, GoodScript
  <1>2. CASE h.use = PlainUse
    BY <1>0, <1>2, PlainThen
  <1>3. CASE h.use = "scratch" /\ Alters(h)
    <2>1. h.use \in WriterUses /\ h.op = "upload"
      BY <1>3 DEF WriterUses, Tame, PlainUse
    <2> DEFINE s == Docs!Convert(Docs!LastId(p), h.val.name, h.extra[1], TRUE)
    <2>2. Docs!DocumentsThen(p, h) = {s}
      BY <1>3 DEF Docs!DocumentsThen
    <2>3. \A y \in ToSet(s) : Tame(banned, y) /\ Mild(y) /\ \A f : Aims(y, f) => f = Docs!LastId(p)
      <3> DEFINE id == Docs!LastId(p)
                 name == h.val.name
                 path == h.extra[1]
      <3> HIDE DEF id, name, path
      <3>1. \A y \in ToSet(Docs!Convert(id, name, path, TRUE)) : Tame(banned, y) /\ Mild(y) /\ \A f : Aims(y, f) => f = id
        BY ConvertTame
      <3> QED BY <3>1 DEF id, name, path
    <2> HIDE DEF s
    <2>4. more = s
      BY <1>0, <2>1, <2>2, OnlyDocumentsThen
    <2>5. Docs!LastId(p) = LastId(p)
      BY DEF LastId, Docs!LastId
    <2> QED BY <1>3, <2>1, <2>3, <2>4, <2>5
  <1>4. CASE h.use = "converted"
    BY <1>4, <1>0 DEF ProjectsThen, BusinessThen, Docs!DocumentsThen, Nothing, Docs!Nothing,
       WorkThen
  <1> QED BY <1>1, <1>2, <1>3, <1>4 DEF Tame

LEMMA ElsewhereTame ==
  ASSUME NEW banned \in Bans, NEW h, IsRequest(h), Tame(banned, h), NEW more \in Alternatives(h), NEW x \in ToSet(more)
  PROVE  /\ Tame(banned, x) /\ \A f : Aims(x, f) => Aims(h, f)
         /\ \/ Mild(x) /\ h.op # "update"
            \/ x.op = h.op /\ x.at = h.at /\ x.val = h.val /\ x.use = h.use
  <1> DEFINE ways == h.ways - 1
             q == [h EXCEPT !.ways = ways]
  <1>1. more = <<q>> \/ more \in WorkOtherwise(h)
    BY DEF Alternatives
  <1>2. CASE more = <<q>>
    <2> HIDE DEF ways
    <2>1. q.op = h.op /\ q.at = h.at /\ q.val = h.val /\ q.use = h.use /\ q.extra = h.extra
      BY DEF IsRequest, RequestFields
    <2> HIDE DEF q
    <2>2. x = q
      BY <1>2, OnlyElement
    <2>3. Asks(q) = Asks(h)
      BY <2>1 DEF Asks
    <2> QED BY <2>1, <2>2, <2>3 DEF Tame, Aims, Alters
  <1>3. CASE ~Alters(h)
    <2>1. h.op # "update"
      BY <1>3 DEF Alters, Asks, Changing
    <2> QED BY <1>3, <2>1, AlternativesAreGood, TameByAsking DEF Good, GoodScript
  <1>4. CASE h.use \in {PlainUse, "scratch"} /\ more \in WorkOtherwise(h)
    BY <1>4 DEF WorkOtherwise, BusinessOtherwise, Docs!DocumentsOtherwise, PlainUse
  <1>5. CASE h.use = "converted" /\ Alters(h) /\ more \in WorkOtherwise(h)
    <2>1. more = Docs!Scrap(h.at, h.val) \o <<Docs!GiveUp>>
      BY <1>5 DEF WorkOtherwise, BusinessOtherwise, Docs!DocumentsOtherwise, Docs!ConvertedFailed
    <2>2. h.val \in BOOLEAN /\ h.op # "update"
      BY <1>5 DEF Tame, PlainUse
    <2>3. IsList(Docs!Scrap(h.at, h.val))
      BY ScrapIsList
    <2>4. x \in ToSet(Docs!Scrap(h.at, h.val)) \/ x = Docs!GiveUp
      BY <2>1, <2>3, OnlyElement, ConcatElements
    <2>5. CASE x \in ToSet(Docs!Scrap(h.at, h.val))
      <3>1. Tame(banned, x) /\ Mild(x) /\ \A f : Aims(x, f) => f = h.at /\ h.val
        BY <2>2, <2>5, ScrapTame
      <3> QED BY <1>5, <2>2, <3>1 DEF Aims
    <2>6. CASE x = Docs!GiveUp
      <3>1. Is(x, "give up", 0, 0, "", <<>>)
        BY <2>6, DocsShapes DEF Docs!GiveUp
      <3>2. Harmless(x)
        BY <3>1 DEF Is, Harmless, PlainUse, OnlyAsked, Removals
      <3> QED BY <2>2, <3>2, HarmlessTame
    <2> QED BY <2>4, <2>5, <2>6
  <1> QED BY <1>1, <1>2, <1>3, <1>4, <1>5 DEF Tame
-----------------------------------------------------------------------------
(* Files for tasks: until the file is on the task, a request to come will  *)
(* bring it there, and nobody changes it meanwhile.                        *)

LEMMA ElsewhereScripts ==
  ASSUME NEW a, NEW asked, NEW r, Good(asked, r), NEW rest, IsList(rest), GoesElsewhere(a, r, rest),
         NEW x \in ToSet(session'[a].todo)
  PROVE  x \in ToSet(rest) \/ \E more \in Alternatives(r) : x \in ToSet(more)
  <1>1. CASE \E more \in Alternatives(r) : Goes(a, more \o rest, session[a].failed)
    BY <1>1, AlternativesAreGood, ConcatElements DEF GoodScript, Goes
  <1>2. CASE Goes(a, <<>>, TRUE)
    <2>1. ToSet(<<>>) = {}
      BY OneElement DEF ToSet
    <2> QED BY <1>2, <2>1 DEF Goes
  <1>3. CASE Goes(a, rest, session[a].failed)
    BY <1>3 DEF Goes
  <1> QED BY <1>1, <1>2, <1>3 DEF GoesElsewhere

LEMMA Newcomers ==
  ASSUME Sound, Peaceful(portal, session), NEW a \in Actors, NEW h, NEW rest, FileStep(a, h, rest),
         NEW b \in Actors, NEW x \in ToSet(session'[b].todo)
  PROVE  \/ \E c \in Actors : x \in ToSet(session[c].todo)
         \/ Tame(Unasked, x) /\ \A f : Aims(x, f) => Aims(h, f) \/ NewCopy(h, f)
  <1>1. Tame(Unasked, h) /\ IsRequest(h)
    BY DEF FileStep, Peaceful, Good
  <1>2. CASE b # a
    <2>1. session'[b] = session[b]
      BY <1>2 DEF FileStep, Happens, Kept
    <2> QED BY <2>1
  <1>3. CASE b = a /\ x \in ToSet(rest)
    BY <1>3 DEF FileStep
  <1>4. CASE \E more \in Alternatives(h) : x \in ToSet(more)
    BY <1>1, <1>4, ElsewhereTame DEF Bans
  <1>5. CASE b = a /\ GoesElsewhere(a, h, rest)
    BY <1>5, <1>3, <1>4, ElsewhereScripts DEF FileStep, GoodScript
  <1>6. CASE b = a /\ ~GoesElsewhere(a, h, rest)
    <2>1. FileMade(portal, portal', h) /\ IsPortal(portal')
      BY <1>6 DEF FileStep
    <2>2. \/ x \in ToSet(rest)
          \/ \E more \in Alternatives(h) : x \in ToSet(more)
          \/ /\ WorkAccepts(portal, h) /\ (h.op = "invoice" => portal' = portal)
             /\ \E more \in WorkThen(portal', h) : x \in ToSet(more)
      BY <1>6, ScriptsCome DEF FileStep
    <2>3. CASE /\ WorkAccepts(portal, h) /\ (h.op = "invoice" => portal' = portal)
               /\ \E more \in WorkThen(portal', h) : x \in ToSet(more)
      BY <2>3, <1>1, <2>1, AcceptedInvoice, AnswerTame DEF Bans, FileMade, NewCopy, LastId
    <2> QED BY <1>3, <1>4, <1>6, <2>2, <2>3
  <1> QED BY <1>2, <1>5, <1>6

LEMMA Numbers ==
  ASSUME NEW m \in Nat, NEW n \in Nat, m <= n
  PROVE  /\ 0 .. m - 1 \subseteq 0 .. n - 1
         /\ m < n => n - 1 \in 0 .. n - 1 /\ n - 1 \notin 0 .. m - 1
  OBVIOUS

LEMMA PeaceStays ==
  ASSUME Sound, Peaceful(portal, session), NEW a \in Actors, NEW h, NEW rest, FileStep(a, h, rest)
  PROVE  Peaceful(portal', session')
  <1>1. 0 .. portal.next - 1 \subseteq 0 .. portal'.next - 1
    BY Numbers DEF FileStep
  <1>2. \A f : Aims(h, f) => f \in 0 .. portal.next - 1
    BY DEF FileStep, Peaceful
  <1>3. \A f : NewCopy(h, f) => f \in 0 .. portal'.next - 1
    BY Numbers DEF FileStep, NewCopy
  <1>4. ASSUME NEW b \in Actors, NEW x \in ToSet(session'[b].todo)
        PROVE  Tame(Unasked, x) /\ \A f : Aims(x, f) => f \in 0 .. portal'.next - 1
    BY <1>1, <1>2, <1>3, Newcomers DEF Peaceful
  <1> QED BY <1>1, <1>4 DEF Peaceful

LEMMA HeldStays ==
  ASSUME Sound, Peaceful(portal, session), NEW a \in Actors, NEW h, NEW rest, FileStep(a, h, rest),
         NEW f, NEW body, Held(portal, session, f, body)
  PROVE  Held(portal', session', f, body)
  <1>1. ~Aims(h, f)
    BY DEF FileStep, Held
  <1>2. f \in DOMAIN portal'.files /\ portal'.files[f].body = body /\ f \notin DOMAIN start.files
    <2>1. ~ChangesFile(h, f)
      BY <1>1 DEF ChangesFile, Aims, Changing
    <2> QED BY <2>1 DEF FileStep, BodiesStay, Held
  <1>3. ~NewCopy(h, f)
    BY NewNumbers, Numbers DEF Held, Sound, FileStep, NewCopy
  <1>4. ASSUME NEW b \in Actors, NEW x \in ToSet(session'[b].todo) PROVE ~Aims(x, f)
    BY <1>1, <1>3, <1>4, Newcomers DEF Held
  <1> QED BY <1>2, <1>4 DEF Held

\* The file that has just been sent to be attached.
LEMMA SentIsHeld ==
  ASSUME Sound, Peaceful(portal, session), NEW a \in Actors, NEW h, NEW rest, FileStep(a, h, rest),
         h.use = "attach", h.op = "upload", FileMade(portal, portal', h)
  PROVE  Held(portal', session', LastId(portal'), h.val.body)
  <1> DEFINE f == LastId(portal')
  <1>1. portal.next < portal'.next /\ f = portal'.next - 1 /\ f \in DOMAIN portal'.files
        /\ portal'.files[f].body = h.val.body
    BY DEF FileMade, Uploaded, LastId
  <1>2. f \notin 0 .. portal.next - 1
    BY <1>1, Numbers DEF FileStep
  <1> HIDE DEF f
  <1>3. f \notin DOMAIN start.files
    BY <1>2 DEF Peaceful
  <1>4. ~Aims(h, f) /\ ~NewCopy(h, f)
    BY <1>2 DEF FileStep, Peaceful, NewCopy
  <1>5. ASSUME NEW b \in Actors, NEW x \in ToSet(session'[b].todo) PROVE ~Aims(x, f)
    BY <1>2, <1>4, <1>5, Newcomers DEF Peaceful
  <1>6. Held(portal', session', f, h.val.body)
    BY <1>1, <1>3, <1>5 DEF Held
  <1> QED BY <1>6 DEF f

LEMMA AttachedStays ==
  ASSUME Sound, Peaceful(portal, session), NEW a \in Actors, NEW h, NEW rest, FileStep(a, h, rest), NEW r
  PROVE  /\ Attached(portal, session, r) => Attached(portal', session', r)
         /\ \A x : Forwards(portal, session, x, r) => Forwards(portal', session', x, r)
  BY HeldStays DEF Attached, FileStep, TasksKeep, Forwards

\* The requests as the upload makes them.
LEMMA ForwardRequests ==
  ASSUME NEW op, NEW at, NEW val, NEW use, NEW extra
  PROVE  /\ [Docs!For(use, Docs!Must(op, at, val)) EXCEPT !.extra = extra].onErr = "stop"
         /\ [Docs!For(use, Docs!Either(Docs!Must(op, at, val))) EXCEPT !.extra = extra].onErr = "stop"
         /\ Docs!Either(Docs!Must(op, at, val)).onErr = "stop" /\ Docs!Must(op, at, val).onErr = "stop"
  BY DEF Docs!For, Docs!Either, Docs!Must, Docs!Request

LEMMA OneAnswer ==
  ASSUME NEW p, NEW h, h.use \in ForwardUses, NEW s, Docs!DocumentsThen(p, h) = {s}, NEW more \in WorkThen(p, h)
  PROVE  more = s
  BY DEF ProjectsThen, BusinessThen, Nothing, ForwardUses, WorkThen

LEMMA NoOtherForward ==
  ASSUME NEW h, h.use \in ForwardUses \cup {PlainUse}
  PROVE  WorkOtherwise(h) = {}
  BY DEF BusinessOtherwise, ForwardUses, PlainUse, Docs!DocumentsOtherwise, WorkOtherwise

LEMMA InFolderForwards ==
  ASSUME NEW p, NEW s, NEW r, NEW h, h.val = r.val, h.extra = <<"attach", r.at>>, NEW folder
  PROVE  ForwardedBy(p, s, Docs!InFolder(folder, h), r)
  <1> DEFINE extra == h.extra
             q == [Docs!For("attach", Docs!Either(Docs!Must("upload", folder, h.val))) EXCEPT !.extra = extra]
  <1>1. extra \notin {<<"replace">>, <<"no clobber">>, <<"upload">>, <<"dedupe">>}
    OBVIOUS
  <1>2. Docs!InFolder(folder, h) = <<q>>
    BY <1>1 DEF Docs!InFolder
  <1>3. extra = <<"attach", r.at>>
    OBVIOUS
  <1> HIDE DEF extra
  <1>4. Is(q, "upload", folder, h.val, "attach", extra) /\ q.onErr = "stop"
    <2>1. Is(q, "upload", folder, h.val, "attach", extra)
      BY DocsShapes
    <2>2. q.onErr = "stop"
      BY ForwardRequests
    <2> QED BY <2>1, <2>2
  <1> HIDE DEF q
  <1>5. Forwards(p, s, q, r)
    BY <1>3, <1>4 DEF Is, Forwards
  <1> QED BY <1>2, <1>5 DEF ForwardedBy

\* An answer leads to the next request of the upload.
LEMMA AnswerForwards ==
  ASSUME NEW p, NEW s, NEW h, IsRequest(h), NEW r, Forwards(p, s, h, r), h.use # PlainUse,
         h.use = "attach" => Held(p, s, LastId(p), r.val.body), NEW more \in WorkThen(p, h)
  PROVE  ForwardedBy(p, s, more, r)
  <1>0. h.use \in ForwardUses
    BY DEF Forwards, ForwardUses
  <1>1. CASE h.use = "task project"
    <2> DEFINE extra == <<"attach", h.at>>
               at == p.tasks[h.at].project
               q == [Docs!For("root", Docs!Must("project", at, h.val)) EXCEPT !.extra = extra]
    <2>1. Docs!DocumentsThen(p, h) = {<<q>>}
      BY <1>1 DEF Docs!DocumentsThen, Docs!TaskProject
    <2>2. extra = <<"attach", r.at>> /\ h.val = r.val
      BY <1>1 DEF Forwards, PlainUse
    <2> HIDE DEF extra, at
    <2>3. Is(q, "project", at, h.val, "root", extra) /\ q.onErr = "stop"
      <3>1. Is(q, "project", at, h.val, "root", extra)
        BY DocsShapes
      <3>2. q.onErr = "stop"
        BY ForwardRequests
      <3> QED BY <3>1, <3>2
    <2> HIDE DEF q
    <2>4. Forwards(p, s, q, r)
      BY <2>2, <2>3 DEF Is, Forwards
    <2>5. more = <<q>>
      BY <1>0, <2>1, OneAnswer
    <2> QED BY <2>4, <2>5 DEF ForwardedBy
  <1>2. CASE h.use \in {"root", "first folder"}
    <2>1. h.val = r.val /\ h.extra = <<"attach", r.at>> /\ h.onErr = "stop"
      BY <1>2 DEF Forwards, PlainUse
    <2>2. \A folder : ForwardedBy(p, s, Docs!InFolder(folder, h), r)
      BY <2>1, InFolderForwards
    <2>3. CASE h.use = "root"
      <3> DEFINE t == Docs!ProjectFolder(p, h)
                 q == [h EXCEPT !.op = "project files", !.use = "first folder"]
      <3>1. t = <<q>> \/ \E folder : t = Docs!InFolder(folder, h)
        BY DEF Docs!ProjectFolder
      <3>2. q.use = "first folder" /\ q.val = h.val /\ q.extra = h.extra /\ q.onErr = h.onErr
        BY DEF IsRequest, RequestFields
      <3> HIDE DEF q
      <3>3. Forwards(p, s, q, r)
        BY <2>1, <3>2 DEF Forwards
      <3>4. ForwardedBy(p, s, t, r)
        BY <2>2, <3>1, <3>3 DEF ForwardedBy
      <3>5. Docs!DocumentsThen(p, h) = {t}
        BY <2>3 DEF Docs!DocumentsThen
      <3> HIDE DEF t
      <3>6. more = t
        BY <1>0, <3>5, OneAnswer
      <3> QED BY <3>4, <3>6
    <2>4. CASE h.use = "first folder"
      <3> DEFINE t == Docs!FirstFolder(p, h)
                 q == Docs!GiveUp
      <3>1. t = <<q>> \/ \E folder : t = Docs!InFolder(folder, h)
        BY DEF Docs!FirstFolder
      <3>2. Is(q, "give up", 0, 0, "", <<>>) /\ q.onErr = "stop"
        <4>1. Is(q, "give up", 0, 0, "", <<>>)
          BY DocsShapes DEF Docs!GiveUp
        <4>2. q.onErr = "stop"
          BY ForwardRequests DEF Docs!GiveUp
        <4> QED BY <4>1, <4>2
      <3> HIDE DEF q
      <3>3. Forwards(p, s, q, r)
        BY <3>2 DEF Is, Forwards, PlainUse
      <3>4. ForwardedBy(p, s, t, r)
        BY <2>2, <3>1, <3>3 DEF ForwardedBy
      <3>5. Docs!DocumentsThen(p, h) = {t}
        BY <2>4 DEF Docs!DocumentsThen
      <3> HIDE DEF t
      <3>6. more = t
        BY <1>0, <3>5, OneAnswer
      <3> QED BY <3>4, <3>6
    <2> QED BY <1>2, <2>3, <2>4
  <1>3. CASE h.use = "attach"
    <2> DEFINE task == h.extra[2]
               id == Docs!LastId(p)
               q == Docs!Either(Docs!Must("attach file", task, id))
    <2>1. Docs!DocumentsThen(p, h) = {<<q>>}
      BY <1>3 DEF Docs!DocumentsThen, Docs!AttachUploaded
    <2>2. task = r.at
      BY <1>3 DEF Forwards, PlainUse
    <2>3. id = LastId(p)
      BY DEF Docs!LastId, LastId
    <2> HIDE DEF task, id
    <2>4. Is(q, "attach file", task, id, "", <<>>) /\ q.onErr = "stop"
      <3>1. Is(q, "attach file", task, id, "", <<>>)
        BY DocsShapes
      <3>2. q.onErr = "stop"
        BY ForwardRequests
      <3> QED BY <3>1, <3>2
    <2> HIDE DEF q
    <2>5. Forwards(p, s, q, r)
      BY <1>3, <2>2, <2>3, <2>4 DEF Is, Forwards, PlainUse
    <2>6. more = <<q>>
      BY <1>0, <2>1, OneAnswer
    <2> QED BY <2>5, <2>6 DEF ForwardedBy
  <1> QED BY <1>1, <1>2, <1>3 DEF Forwards

LEMMA ForwarderMoves ==
  ASSUME Sound, Peaceful(portal, session), NEW a \in Actors, NEW h, NEW rest, FileStep(a, h, rest), NEW r,
         Forwards(portal, session, h, r), ~session'[a].failed
  PROVE  \/ Attached(portal', session', r)
         \/ \E y \in ToSet(session'[a].todo) : Forwards(portal', session', y, r)
  <1>1. Forwards(portal', session', h, r)
    BY AttachedStays
  <1>2. IsRequest(h) /\ Good(Asked(a), h) /\ IsList(rest) /\ h.onErr = "stop"
    BY DEF FileStep, Good, GoodScript, Forwards
  <1>3. ASSUME NEW more, ForwardedBy(portal', session', more, r), Goes(a, more \o rest, session[a].failed)
        PROVE  \E y \in ToSet(session'[a].todo) : Forwards(portal', session', y, r)
    BY <1>3, <1>2, OnlyElement, ConcatElements DEF ForwardedBy, Goes
  <1>4. CASE GoesElsewhere(a, h, rest)
    <2> DEFINE ways == h.ways - 1
               q == [h EXCEPT !.ways = ways]
    <2>1. WorkOtherwise(h) = {}
      BY NoOtherForward DEF Forwards, ForwardUses, PlainUse
    <2>2. \A more \in Alternatives(h) : more = <<q>>
      BY <2>1 DEF Alternatives
    <2> HIDE DEF ways
    <2>3. q.op = h.op /\ q.at = h.at /\ q.val = h.val /\ q.use = h.use /\ q.extra = h.extra /\ q.onErr = h.onErr
      BY <1>2 DEF IsRequest, RequestFields
    <2> HIDE DEF q
    <2>4. Forwards(portal', session', q, r)
      BY <1>1, <2>3 DEF Forwards
    <2>5. ForwardedBy(portal', session', <<q>>, r)
      BY <2>4 DEF ForwardedBy
    <2>6. \E more \in Alternatives(h) : Goes(a, more \o rest, session[a].failed)
      BY <1>2, <1>4 DEF GoesElsewhere, Goes
    <2>7. Goes(a, <<q>> \o rest, session[a].failed)
      BY <2>2, <2>6
    <2> QED BY <1>3, <2>5, <2>7
  <1>5. CASE ~GoesElsewhere(a, h, rest)
    <2>1. /\ WorkAccepts(portal, h) /\ GoesOn(a, h, rest) /\ FileMade(portal, portal', h)
      BY <1>5 DEF FileStep, Happens
    <2>2. CASE h.use = PlainUse
      BY <2>1, <1>1, <2>2 DEF WorkAccepts, Docs!DocumentsAccepts, Docs!AtFile, Docs!AtFolder,
         Docs!AtTask, Forwards, PlainUse, FileMade, Attached
    <2>3. CASE h.use # PlainUse
      BY <2>1, <1>1, <1>2, <2>3, <1>3, SentIsHeld, AnswerForwards DEF GoesOn, Forwards, PlainUse
    <2> QED BY <2>2, <2>3
  <1> QED BY <1>4, <1>5

LEMMA HeadOfOne ==
  ASSUME NEW q
  PROVE  Head(<<q>>) = q
  OBVIOUS

LEMMA AskedToStop ==
  ASSUME NEW op, NEW at, NEW val, NEW use
  PROVE  Docs!For(use, Docs!Must(op, at, val)).onErr = "stop"
  BY DEF Docs!For, Docs!Must, Docs!Request

\* What the users have asked for.
LEMMA OpeningTame ==
  ASSUME NEW banned \in Bans, NobodySends(banned), NobodyReplaces, NEW a \in Actors, NEW i \in DOMAIN jobs[a],
         NEW r, r = jobs[a][i], IsOpening(r), r.use # "project folders"
  PROVE  Tame(banned, r) /\ \A f : Aims(r, f) => f = r.at /\ r.op \in Changing
  <1>1. r.op \notin banned /\ (r.use = "stat" => r.val.op \notin banned)
    BY DEF NobodySends, Sends
  <1>2. /\ r.use \notin {"replace", "replace all", "project folders"}
        /\ r.use = "root" => r.extra # <<"replace">> /\ r.extra # <<"dedupe">>
    BY DEF NobodyReplaces, IsOpening
  <1>3. r.op \in Changing => r.use = ""
    BY DEF IsOpening, Changing
  <1>4. IsRequest(r) /\ r.use \in Openings /\ (r.use = "converted" => r.op = "result" /\ r.val = FALSE)
    BY DEF IsOpening
  <1>5. r.use = "scratch" => r.op = "upload"
    <2> SUFFICES ASSUME r.use = "scratch" PROVE r.op = "upload"
      OBVIOUS
    <2> DEFINE at == r.at
               val == r.val
               extra == <<r.extra[1]>>
               q == [Docs!For("scratch", Docs!Either(Docs!Must("upload", at, val))) EXCEPT !.extra = extra]
    <2>1. r = Head(<<q>>)
      BY DEF IsOpening, Docs!DocsPDF
    <2> HIDE DEF at, val, extra
    <2>2. Is(q, "upload", at, val, "scratch", extra)
      BY DocsShapes
    <2> HIDE DEF q
    <2>3. r = q
      BY <2>1, HeadOfOne
    <2> QED BY <2>2, <2>3 DEF Is
  <1>6. Asks(r) \cap banned = {}
    <2>1. r.use = "stat" => Brings(r.val.op) \cap banned = {}
      BY <1>4, <1>1 DEF IsRequest, Fits, IsJob, Brings, Bans, Unasked, Losses, Rearrangements
    <2>2. r.use # "stat file"
      BY <1>4 DEF Openings
    <2> QED BY <1>1, <2>1, <2>2 DEF Asks, Bans, Unasked, Losses, Rearrangements
  <1>7. Alters(r) => r.op \in Changing \/ r.use \in {"scratch", "converted"}
    <2>1. r.use = "stat" => Brings(r.val.op) \cap Changing = {}
      BY <1>4, <1>1 DEF IsRequest, Fits, IsJob, Brings, Changing, Bans, Unasked, Rearrangements
    <2>2. r.use \notin {"stat file", "updated", "folder files", "first folder"}
      BY <1>4 DEF Openings
    <2> QED BY <1>2, <2>1, <2>2 DEF Alters, Asks, Changing
  <1>8. Tame(banned, r)
    BY <1>3, <1>4, <1>5, <1>6, <1>7 DEF Tame, PlainUse
  <1>9. \A f : Aims(r, f) => f = r.at /\ r.op \in Changing
    BY <1>4 DEF Aims
  <1> QED BY <1>8, <1>9

LEMMA OpeningForwards ==
  ASSUME NEW p, NEW s, NEW r, IsOpening(r), r.use = "task project"
  PROVE  Forwards(p, s, r, r)
  <1> DEFINE at == r.at
             val == r.val
             q == Docs!For("task project", Docs!Must("task", at, val))
  <1>1. r = Head(<<q>>)
    BY DEF IsOpening, Docs!UploadTaskFile
  <1> HIDE DEF at, val
  <1>2. q.onErr = "stop"
    BY AskedToStop
  <1> HIDE DEF q
  <1>3. r.onErr = "stop"
    BY <1>1, <1>2, HeadOfOne
  <1> QED BY <1>3 DEF Forwards

LEMMA AttachingBegins == Init /\ Sound => Attaching
  <1> SUFFICES ASSUME Init, Sound, Calm
               PROVE  /\ Tasked(portal) /\ Peaceful(portal, session)
                      /\ \A a \in Actors : \A r \in ToSet(jobs[a]) :
                            r.use = "task project" => OnItsWay(portal, session, a, r)
    BY DEF Attaching
  <1>1. start = portal /\ portal \in Portals /\ jobs \in Jobs /\ session = [a \in Actors |-> Fresh(jobs[a])]
    BY DEF Init
  <1>2. Tasked(portal)
    BY <1>1, PortalsAssumption DEF Tasked
  <1>3. \A f \in DOMAIN start.files : f \in 0 .. portal.next - 1
    BY <1>1, NewNumbers DEF Sound
  <1>4. ASSUME NEW a \in Actors, NEW r \in ToSet(jobs[a]) PROVE IsOpening(r) /\ \E i \in DOMAIN jobs[a] : r = jobs[a][i]
    BY <1>1, JobsAssumption DEF ToSet
  <1>5. \A a \in Actors : session[a].todo = jobs[a]
    BY <1>1 DEF Fresh
  <1>6. ASSUME NEW a \in Actors, NEW r \in ToSet(jobs[a])
        PROVE  Tame(Unasked, r) /\ \A f : Aims(r, f) => f \in DOMAIN start.files
    <2>1. PICK i \in DOMAIN jobs[a] : r = jobs[a][i]
      BY <1>4
    <2>2. Unasked = {"delete", "drop folder", "detach file", "drop task", "drop project"}
      BY DEF Unasked, Losses
    <2>3. NobodySends(Unasked) /\ NobodyReplaces /\ NobodyCleans /\ NobodyNamesNewFiles
      BY <2>2 DEF Calm
    <2>4. r.use # "project folders" /\ (r.op \in Changing => r.at \in DOMAIN start.files)
      BY <2>1, <2>3 DEF NobodyCleans, NobodyNamesNewFiles, Changing
    <2>5. IsOpening(r) /\ Unasked \in Bans
      BY <1>4 DEF Bans
    <2>6. Tame(Unasked, r) /\ \A f : Aims(r, f) => f = r.at /\ r.op \in Changing
      BY <2>1, <2>3, <2>4, <2>5, OpeningTame
    <2>7. Tame(Unasked, r)
      BY <2>6
    <2>8. \A f : Aims(r, f) => f = r.at /\ r.op \in Changing
      BY <2>6
    <2>9. ASSUME NEW f, Aims(r, f) PROVE f \in DOMAIN start.files
      <3>1. f = r.at /\ r.op \in Changing
        BY <2>8, <2>9
      <3> QED BY <2>4, <3>1
    <2> QED BY <2>7, <2>9
  <1>7. Peaceful(portal, session)
    BY <1>3, <1>5, <1>6 DEF Peaceful
  <1>8. ASSUME NEW a \in Actors, NEW r \in ToSet(jobs[a]), r.use = "task project" PROVE OnItsWay(portal, session, a, r)
    BY <1>4, <1>8, <1>5, OpeningForwards DEF OnItsWay
  <1> QED BY <1>2, <1>7, <1>8

\* A job stays on its way, whoever takes the step.
LEMMA WayStays ==
  ASSUME Sound, Peaceful(portal, session), NEW a \in Actors, NEW h, NEW rest, FileStep(a, h, rest),
         ToSet(session[a].todo) = {h} \cup ToSet(rest), NEW b \in Actors, NEW r, OnItsWay(portal, session, b, r)
  PROVE  OnItsWay(portal', session', b, r)
  <1>1. Attached(portal, session, r) => Attached(portal', session', r)
    BY AttachedStays
  <1>2. CASE b # a
    BY <1>2, <1>1, AttachedStays DEF FileStep, Happens, Kept, OnItsWay
  <1>3. CASE b = a /\ ~session'[a].failed
    <2>1. ~session[a].failed
      BY <1>3 DEF FileStep, Happens, GoesOn, GoesElsewhere, Goes
    <2>2. CASE \E x \in ToSet(session[a].todo) : Forwards(portal, session, x, r)
      BY <2>2, <1>3, ForwarderMoves, RestStays, AttachedStays DEF OnItsWay, FileStep
    <2> QED BY <1>1, <1>3, <2>1, <2>2 DEF OnItsWay
  <1>4. CASE b = a /\ session'[a].failed
    BY <1>4 DEF OnItsWay
  <1> QED BY <1>2, <1>3, <1>4

LEMMA StartStays ==
  ASSUME start' = start, jobs' = jobs
  PROVE  /\ Calm' <=> Calm
         /\ Peaceful(portal', session') => Peaceful(portal, session)'
         /\ \A a, r : OnItsWay(portal', session', a, r) => OnItsWay(portal, session, a, r)'
  <1>1. Calm' <=> Calm
    BY DEF Calm, NobodySends, Sends, NobodyReplaces, NobodyCleans, NobodyNamesNewFiles, Losses
  <1>2. Peaceful(portal', session') => Peaceful(portal, session)'
    BY DEF Peaceful, Unasked, Losses
  <1>3. \A f, body : Held(portal', session', f, body) => Held(portal, session, f, body)'
    BY DEF Held
  <1>4. \A a, r : OnItsWay(portal', session', a, r) => OnItsWay(portal, session, a, r)'
    BY <1>3 DEF OnItsWay, Attached, Forwards
  <1> QED BY <1>1, <1>2, <1>4

LEMMA AttachingMoves ==
  ASSUME Sound, Attaching, NEW a \in Actors, Step(a)
  PROVE  Attaching'
  <1> DEFINE h == Head(session[a].todo)
             rest == Tail(session[a].todo)
  <1>1. /\ session[a].todo # <<>> /\ Good(Asked(a), h) /\ GoodScript(Asked(a), rest)
        /\ Moves(a, h, rest) /\ Happens(a, h, rest)
    BY StepMoves, StepHappens
  <1>2. ToSet(session[a].todo) = {h} \cup ToSet(rest)
    BY <1>1, FirstAndRest DEF Sound, GoodScript
  <1> HIDE DEF h, rest
  <1>3. Kept(a) /\ IsPortal(portal') /\ IsPortal(portal) /\ IsRequest(h)
    BY <1>1 DEF Moves, Outcome, Sound, Good
  <1>4. start' = start /\ jobs' = jobs
    BY <1>3 DEF Kept
  <1>5. CASE ~Calm
    BY <1>4, <1>5, StartStays DEF Attaching
  <1>6. CASE Calm
    <2>1. /\ Tasked(portal) /\ Peaceful(portal, session)
          /\ \A b \in Actors : \A r \in ToSet(jobs[b]) :
                r.use = "task project" => OnItsWay(portal, session, b, r)
      BY <1>6 DEF Attaching
    <2>2. h.op \notin Losses
      BY <1>2, <2>1 DEF Peaceful, Asks, Losses, Tame, Unasked
    <2>3. FileStep(a, h, rest)
      BY <1>1, <1>2, <1>3, <2>1, <2>2, HappensFiles DEF FileStep
    <2>4. Peaceful(portal, session)'
      BY <1>4, <2>1, <2>3, PeaceStays, StartStays
    <2>5. Tasked(portal)'
      BY <2>3 DEF FileStep, TasksKeep, Tasked
    <2>6. ASSUME NEW b \in Actors, NEW r \in ToSet(jobs[b]), r.use = "task project"
          PROVE  OnItsWay(portal, session, b, r)'
      BY <1>2, <2>1, <2>3, <2>6, <1>4, WayStays, StartStays
    <2> QED BY <1>4, <2>4, <2>5, <2>6 DEF Attaching
  <1> QED BY <1>5, <1>6

LEMMA AttachingEnds == Attaching => TasksHaveTheirFiles
  <1> SUFFICES ASSUME Attaching, Calm, NEW a \in Actors, Succeeded(a), NEW i \in DOMAIN jobs[a],
                      jobs[a][i].use = "task project"
               PROVE  \E f \in portal.tasks[jobs[a][i].at].files :
                         /\ f \in DOMAIN portal.files \ DOMAIN start.files
                         /\ portal.files[f].body = jobs[a][i].val.body
    BY DEF TasksHaveTheirFiles, Calm
  <1> DEFINE r == jobs[a][i]
  <1>1. r \in ToSet(jobs[a]) /\ r.use = "task project"
    BY DEF ToSet
  <1> HIDE DEF r
  <1>2. OnItsWay(portal, session, a, r)
    BY <1>1 DEF Attaching
  <1>3. ToSet(session[a].todo) = {} /\ ~session[a].failed
    BY OneElement DEF Succeeded, Ended, ToSet
  <1>4. Attached(portal, session, r)
    BY <1>2, <1>3 DEF OnItsWay
  <1>5. PICK f \in portal.tasks[r.at].files : Held(portal, session, f, r.val.body)
    BY <1>4 DEF Attached
  <1> QED BY <1>5 DEF Held, r

\* cmd/oo/tasks_files.go:47: whoever else uploads, converts, moves, copies or renames, and
\* whatever requests are lost or repeated, the task has the file that was sent to it.
THEOREM FilesArrive == Spec => []TasksHaveTheirFiles
  <1>1. Init => Sound /\ Attaching
    BY BeginsSound, AttachingBegins
  <1>2. Sound /\ Attaching /\ [Next]_vars => (Sound /\ Attaching)'
    <2> SUFFICES ASSUME Sound, Attaching, [Next]_vars PROVE (Sound /\ Attaching)'
      OBVIOUS
    <2>1. CASE UNCHANGED vars
      <3>1. Attaching'
        <4>1. start' = start /\ jobs' = jobs /\ portal' = portal /\ session' = session
          BY <2>1 DEF vars
        <4>2. Tasked(portal)' <=> Tasked(portal)
          BY <4>1 DEF Tasked
        <4>3. /\ Calm' <=> Calm
              /\ Peaceful(portal, session) => Peaceful(portal, session)'
              /\ \A b, r : OnItsWay(portal, session, b, r) => OnItsWay(portal, session, b, r)'
          BY <4>1, StartStays
        <4> QED BY <4>1, <4>2, <4>3 DEF Attaching
      <3> QED BY <2>1, <3>1, StaysSound
    <2>2. ASSUME NEW a \in Actors, Step(a) PROVE (Sound /\ Attaching)'
      BY <2>2, MovesSoundly, AttachingMoves
    <2> QED BY <2>1, <2>2 DEF Next, Finished
  <1> QED BY <1>1, <1>2, AttachingEnds, PTL DEF Spec
-----------------------------------------------------------------------------
(* Clean-ups: what requests do to folders and files, when nothing is       *)
(* moved or renamed.                                                       *)

LEMMA LastTwice ==
  ASSUME NEW p, NEW q, NEW s, NEW r, r.op \notin Changing, FilesLast(p, q, r), FilesLast(q, s, r)
  PROVE  FilesLast(p, s, r)
  <1>1. p.next \in Nat /\ q.next \in Nat /\ s.next \in Nat /\ p.next <= q.next /\ q.next <= s.next
    BY DEF FilesLast
  <1>2. Filed(s) /\ FoldersStay(p, s)
    BY DEF FilesLast, FoldersStay
  <1>3. \A f \in DOMAIN p.files : f \in DOMAIN s.files /\ s.files[f] = p.files[f]
    BY DEF FilesLast, Changing
  <1>4. ASSUME NEW f \in DOMAIN s.files \ DOMAIN p.files
        PROVE  f \in Nat /\ p.next <= f /\ s.files[f].time = f
    <2>1. CASE f \in DOMAIN q.files
      <3>1. f \in Nat /\ p.next <= f /\ q.files[f].time = f
        BY <1>4, <2>1 DEF FilesLast
      <3>2. s.files[f] = q.files[f]
        BY <1>4, <2>1 DEF FilesLast, Changing
      <3> QED BY <3>1, <3>2
    <2>2. CASE f \notin DOMAIN q.files
      <3>1. f \in Nat /\ q.next <= f /\ s.files[f].time = f
        BY <1>4, <2>2 DEF FilesLast
      <3> QED BY <1>1, <3>1, InOrder
    <2> QED BY <2>1, <2>2
  <1>5. p.next <= s.next
    BY <1>1, InOrder
  <1> QED BY <1>1, <1>2, <1>3, <1>4, <1>5 DEF FilesLast

LEMMA SameLast ==
  ASSUME NEW p, Filed(p), NEW q, q.files = p.files, q.folders = p.folders, NEW r,
         p.next \in Nat, q.next \in Nat, p.next <= q.next
  PROVE  FilesLast(p, q, r)
  BY DEF FilesLast, FoldersStay, Filed

\* The copies of files and of folders, under the numbers that come next.
LEMMA CopyLast ==
  ASSUME NEW p, IsPortal(p), Filed(p), NEW r, r.at \in DOMAIN p.folders, r.val.folders \subseteq DOMAIN p.folders,
         r.val.files \subseteq DOMAIN p.files, NEW q, q = Docs!CopyItems(p, r), IsPortal(q), p.next <= q.next
  PROVE  FilesLast(p, q, r)
  <1> DEFINE M == Docs!Moving(p, r.val.files, r.at)
             s == Docs!SetToSeq(M)
             t == Docs!SetToSeq(r.val.folders)
             after == p.next + Len(s)
             last == after + Len(t)
             f == [i \in p.next .. after - 1 |-> [p.files[s[i - p.next + 1]] EXCEPT !.in = r.at, !.time = i]]
             g == [i \in after .. after + Len(t) - 1 |-> [p.folders[t[i - after + 1]] EXCEPT !.parent = r.at]]
  <1>1. {"files", "folders", "next"} \subseteq DOMAIN p /\ {"files", "folders"} \subseteq Kinds
    BY DEF IsPortal, Kinds
  <1>2. q.files = Docs!WithCopies(p.files, f) /\ q.folders = Docs!WithCopies(p.folders, g)
    <2>1. q = [p EXCEPT !.files = Docs!WithCopies(@, f), !.folders = Docs!WithCopies(@, g), !.next = last]
      BY DEF Docs!CopyItems
    <2> HIDE DEF f, g, last
    <2> QED BY <1>1, <2>1
  <1>3. IsFiniteSet(M) /\ M \subseteq DOMAIN p.files /\ IsFiniteSet(r.val.folders)
    BY <1>1, Collections DEF Docs!Moving
  <1>4. IsList(s) /\ ToSet(s) = M /\ IsList(t) /\ ToSet(t) = r.val.folders
    <2> HIDE DEF M
    <2> QED BY <1>3, DocsSetToSeq, SetList
  <1> HIDE DEF M
  <1>5. /\ Len(s) \in Nat /\ Len(t) \in Nat /\ p.next \in Nat \ {0} /\ q.next \in Nat
        /\ DOMAIN s = 1 .. Len(s) /\ DOMAIN t = 1 .. Len(t)
    <2> HIDE DEF s, t
    <2> QED BY <1>4, ListShape DEF IsPortal
  <1>6. \A i \in 1 .. Len(s) : s[i] \in DOMAIN p.files
    <2> HIDE DEF s
    <2> QED BY <1>3, <1>4, <1>5 DEF ToSet
  <1>7. \A i \in 1 .. Len(t) : t[i] \in DOMAIN p.folders
    <2> HIDE DEF t
    <2> QED BY <1>4, <1>5 DEF ToSet
  <1> HIDE DEF s, t
  <1>8. after \in Nat /\ p.next <= after
    BY <1>5
  <1>9. ASSUME NEW i \in p.next .. after - 1
        PROVE  f[i].in = r.at /\ f[i].time = i
    <2> DEFINE k == s[i - p.next + 1]
    <2>1. i - p.next + 1 \in 1 .. Len(s)
      BY <1>5, <1>9
    <2>2. k \in DOMAIN p.files
      BY <1>6, <2>1
    <2>3. f[i] = [p.files[k] EXCEPT !.in = r.at, !.time = i]
      BY <1>9
    <2> HIDE DEF k, f
    <2> QED BY <2>2, <2>3, FileRecords DEF FileFields
  <1>a. ASSUME NEW i \in after .. after + Len(t) - 1
        PROVE  DOMAIN g[i] = FolderFields /\ g[i].trash \in BOOLEAN
    <2> DEFINE k == t[i - after + 1]
    <2>1. i - after + 1 \in 1 .. Len(t)
      BY <1>5, <1>8, <1>a
    <2>2. k \in DOMAIN p.folders
      BY <1>7, <2>1
    <2>3. g[i] = [p.folders[k] EXCEPT !.parent = r.at]
      BY <1>a
    <2> HIDE DEF k, g
    <2> QED BY <2>2, <2>3 DEF Filed, FolderFields
  <1>b. DOMAIN f = p.next .. after - 1 /\ DOMAIN g = after .. after + Len(t) - 1
    OBVIOUS
  <1> HIDE DEF f, g, last
  <1>c. /\ \A i \in DOMAIN p.files : i \notin DOMAIN f
        /\ \A i \in DOMAIN p.folders : i \notin DOMAIN g
    <2> HIDE DEF after
    <2>1. \A i \in DOMAIN p.files : i \in 1 .. p.next - 1
      BY <1>1, Records
    <2>2. \A i \in DOMAIN p.folders : i \in 1 .. p.next - 1
      BY <1>1, Records
    <2> QED BY <1>5, <1>8, <1>b, <2>1, <2>2
  <1>d. /\ DOMAIN q.files = DOMAIN p.files \cup DOMAIN f /\ DOMAIN q.folders = DOMAIN p.folders \cup DOMAIN g
        /\ \A i \in DOMAIN p.files : q.files[i] = p.files[i]
        /\ \A i \in DOMAIN p.folders : q.folders[i] = p.folders[i]
        /\ \A i \in DOMAIN f : q.files[i] = f[i]
        /\ \A i \in DOMAIN g : q.folders[i] = g[i]
    BY <1>2, <1>c DEF Docs!WithCopies
  <1>e. \A i \in DOMAIN f : i \in Nat /\ p.next <= i
    BY <1>5, <1>8, <1>b
  <1> HIDE DEF after
  <1>f. Filed(q)
    BY <1>9, <1>a, <1>b, <1>d DEF Filed
  <1> QED BY <1>5, <1>9, <1>b, <1>d, <1>e, <1>f DEF FilesLast, FoldersStay

LEMMA DocumentsLast ==
  ASSUME NEW p, IsPortal(p), Filed(p), NEW r, Has(p, r), Shelved(p, r), r.op \notin Rearrangements,
         NEW q, q = Docs!DocumentsEffect(p, r)
  PROVE  FilesLast(p, q, r) /\ Named(q, r)
  <1>0. {"files", "next", "tasks", "folders", "disk"} \subseteq DOMAIN p
    BY DEF IsPortal, Kinds
  <1>1. IsPortal(q) /\ p.next \in Nat /\ q.next \in Nat /\ p.next <= q.next
    <2>1. Beside(p, q)
      BY DocumentsEffectBeside
    <2> QED BY <2>1 DEF Beside, IsPortal
  <1>2. CASE r.op = "upload"
    <2> DEFINE x == Docs!NewFile(r.val.name, r.at, r.val.body, p.next)
               kind == "files"
    <2>1. q = Add(p, kind, x)
      BY <1>2 DEF Docs!DocumentsEffect, Docs!Upload, Docs!Add, Docs!Put, Docs!NewId, Add, Put, NewId
    <2>2. DOMAIN x = FileFields /\ x.time = p.next /\ x.name = r.val.name /\ x.in = r.at
      BY DEF Docs!NewFile, FileFields
    <2>3. p.next \in 0 .. (p.next + 1) - 1
      BY <1>1
    <2> HIDE DEF x
    <2>4. kind \in Kinds /\ IsRecord(kind, x, p.next + 1)
      BY <2>2, <2>3, FileIsRecord DEF Kinds
    <2>5. Added(p, q, kind, x)
      BY <2>1, <2>4, AddOutcome
    <2>6. /\ DOMAIN q.files = DOMAIN p.files \cup {p.next} /\ q.files[p.next] = x
          /\ \A f \in DOMAIN p.files : q.files[f] = p.files[f]
          /\ q.folders = p.folders
      BY <2>5, <1>0 DEF Added
    <2>7. q.next - 1 = p.next
      BY <2>5 DEF Added
    <2> HIDE DEF kind
    <2>8. FilesLast(p, q, r)
      BY <1>1, <1>2, <2>2, <2>6 DEF FilesLast, FoldersStay, Filed, Shelved
    <2> QED BY <2>2, <2>6, <2>7, <2>8 DEF Named
  <1>3. CASE r.op = "mkdir"
    <2> DEFINE x == Docs!NewFolder(r.val, r.at)
               kind == "folders"
    <2>1. q = Add(p, kind, x)
      BY <1>3 DEF Docs!DocumentsEffect, Docs!Add, Docs!Put, Docs!NewId, Add, Put, NewId
    <2>2. DOMAIN x = FolderFields /\ x.trash = FALSE
      BY DEF Docs!NewFolder, FolderFields
    <2> HIDE DEF x
    <2>3. kind \in Kinds /\ IsRecord(kind, x, p.next + 1)
      BY AnyRecord DEF Kinds
    <2>4. Added(p, q, kind, x)
      BY <2>1, <2>3, AddOutcome
    <2>5. /\ DOMAIN q.folders = DOMAIN p.folders \cup {p.next} /\ q.folders[p.next] = x
          /\ \A f \in DOMAIN p.folders : q.folders[f] = p.folders[f]
          /\ q.files = p.files
      BY <2>4, <1>0 DEF Added
    <2> HIDE DEF kind
    <2> QED BY <1>1, <1>3, <2>2, <2>5 DEF FilesLast, FoldersStay, Filed, Named
  <1>4. CASE r.op = "copy items"
    <2>1. q = Docs!CopyItems(p, r)
      BY <1>4 DEF Docs!DocumentsEffect
    <2> QED BY <1>1, <1>4, <2>1, CopyLast DEF Has, Shelved, Named
  <1>5. CASE r.op = "drop file"
    BY <1>0, <1>1, <1>5 DEF Docs!DocumentsEffect, Docs!Drop, Docs!Restrict, FilesLast, FoldersStay, Filed, Named
  <1>u. CASE r.op = "update"
    <2>1. r.at \in DOMAIN p.files
      BY <1>u DEF Has
    <2>2. /\ DOMAIN q.files = DOMAIN p.files /\ q.folders = p.folders
          /\ \A f \in DOMAIN p.files : q.files[f].name = p.files[f].name /\ q.files[f].in = p.files[f].in
      BY <1>0, <1>u, <2>1, FileRecords DEF Docs!DocumentsEffect, Docs!Update, Docs!NewId, FileFields
    <2> QED BY <1>1, <1>u, <2>2 DEF FilesLast, FoldersStay, Filed, Named
  <1>6. CASE r.op \in {"attach file", "detach file", "open", "fetch", "write", "remove"}
    <2>1. q.files = p.files /\ q.folders = p.folders
      BY <1>0, <1>6 DEF Docs!DocumentsEffect
    <2> QED BY <1>1, <1>6, <2>1, SameLast DEF Named
  <1>7. CASE r.op \notin OnDocuments
    <2>1. q = p
      BY <1>7, WhoseRequest
    <2> QED BY <1>1, <1>7, <2>1, SameLast DEF Named, OnDocuments
  <1> QED BY <1>2, <1>3, <1>4, <1>5, <1>u, <1>6, <1>7 DEF OnDocuments, Rearrangements

LEMMA EffectLast ==
  ASSUME NEW p, IsPortal(p), Filed(p), NEW r, IsRequest(r), Has(p, r), Shelved(p, r), r.op \notin Rearrangements,
         NEW q, q = WorkEffect(p, r)
  PROVE  IsPortal(q) /\ FilesLast(p, q, r) /\ Named(q, r)
  <1>1. IsPortal(q)
    BY EffectOutcome DEF Outcome
  <1>2. p.next \in Nat /\ q.next \in Nat
    BY <1>1 DEF IsPortal
  <1>3. CASE r.op \in OnProjects /\ q = ProjectsEffect(p, r)
    <2>1. ProjectsOutcome(p, q, r)
      BY <1>3, ProjectsEffectOutcome
    <2>2. {"files", "folders"} \subseteq DOMAIN p \ (InWork \cup {"next"})
      BY DEF IsPortal, InWork, Kinds
    <2>3. q.files = p.files /\ q.folders = p.folders /\ p.next <= q.next
      BY <1>2, <2>1, <2>2 DEF ProjectsOutcome
    <2> QED BY <1>1, <1>2, <1>3, <2>3, SameLast DEF Named, OnProjects
  <1>4. CASE r.op \in OnBusiness /\ q = BusinessEffect(p, r)
    <2>1. q.files = p.files /\ q.folders = p.folders
      BY <1>4, BusinessLeavesFiles
    <2>2. p.next <= q.next
      BY <1>2, <1>4, BusinessEffectBeside DEF Beside
    <2> QED BY <1>1, <1>2, <1>4, <2>1, <2>2, SameLast DEF Named, OnBusiness
  <1>5. CASE r.op \in OnDocuments /\ q = Docs!DocumentsEffect(p, r)
    BY <1>1, <1>5, DocumentsLast
  <1>6. CASE r.op \notin OnProjects \cup OnBusiness \cup OnDocuments /\ q = p
    <2>1. FilesLast(p, p, r)
      BY <1>2, <1>6, SameLast
    <2> QED BY <1>1, <1>6, <2>1 DEF Named, OnDocuments
  <1> QED BY <1>3, <1>4, <1>5, <1>6, EffectParts

LEMMA AcceptedShelved ==
  ASSUME NEW p, NEW r, WorkAccepts(p, r)
  PROVE  Shelved(p, r)
  <1>1. Docs!DocumentsAccepts(p, r)
    BY DEF WorkAccepts
  <1>2. CASE r.op = "upload"
    BY <1>1, <1>2 DEF Docs!DocumentsAccepts, Docs!AtFile, Docs!AtFolder, Docs!AtTask, Shelved
  <1>3. CASE r.op = "copy items"
    BY <1>1, <1>3 DEF Docs!DocumentsAccepts, Docs!AtFile, Docs!AtFolder, Docs!AtTask, Shelved
  <1> QED BY <1>2, <1>3 DEF Shelved

\* What a step leaves of the folders and the files.
LEMMA HappensLast ==
  ASSUME IsPortal(portal), Filed(portal), NEW a, NEW r, IsRequest(r), NEW rest, Happens(a, r, rest),
         r.op \notin Rearrangements
  PROVE  /\ FilesLast(portal, portal', r)
         /\ GoesElsewhere(a, r, rest) \/ Named(portal', r)
  <1> DEFINE q == WorkEffect(portal, r)
  <1>1. CASE portal' = portal /\ GoesElsewhere(a, r, rest)
    BY <1>1, SameLast DEF IsPortal
  <1>2. WorkAccepts(portal, r) => Has(portal, r) /\ Shelved(portal, r)
    BY AcceptedHas, AcceptedShelved
  <1>3. CASE WorkAccepts(portal, r) /\ portal' = q
    BY <1>2, <1>3, EffectLast
  <1>4. CASE WorkAccepts(portal, r) /\ WorkCreates(r) /\ portal' = WorkEffect(q, r)
    <2>1. r.op \notin Changing
      BY <1>4 DEF WorkCreates, ProjectsCreates, BusinessCreates, Docs!DocumentsCreates, Changing
    <2>2. IsPortal(q) /\ FilesLast(portal, q, r)
      BY <1>2, <1>4, EffectLast
    <2>3. Has(q, r) /\ Shelved(q, r)
      BY <1>2, <1>4, <2>2, CreatesAgain DEF FilesLast, FoldersStay, Shelved
    <2>4. Filed(q)
      BY <2>2 DEF FilesLast
    <2> HIDE DEF q
    <2>5. FilesLast(q, portal', r) /\ Named(portal', r)
      BY <1>4, <2>2, <2>3, <2>4, EffectLast
    <2> QED BY <2>1, <2>2, <2>5, LastTwice
  <1> QED BY <1>1, <1>3, <1>4 DEF Happens
-----------------------------------------------------------------------------
(* Clean-ups: the files that may be deleted.                               *)

LEMMA BetterOrder ==
  ASSUME NEW a, NEW b, NEW c, a.trash \in BOOLEAN, b.trash \in BOOLEAN, c.trash \in BOOLEAN,
         a.time \in Nat, b.time \in Nat, c.time \in Nat
  PROVE  /\ Docs!Better(a, b) /\ Docs!Better(b, c) => Docs!Better(a, c)
         /\ ~Docs!Better(a, a)
         /\ ~Docs!Better(a, b) /\ ~Docs!Better(b, a) => a.time = b.time
  BY DEF Docs!Better

LEMMA FoundShape ==
  ASSUME NEW p, IsPortal(p), Filed(p), NEW f \in DOMAIN p.files, NEW s, s = Docs!Found(p, f)
  PROVE  /\ s.id = f /\ s.name = p.files[f].name /\ s.time = p.files[f].time /\ s.in = p.files[f].in
         /\ f \in 0 .. p.next - 1 /\ s.time \in 0 .. p.next - 1 /\ s.time \in Nat
         /\ s.in \in DOMAIN p.folders /\ s.trash = p.folders[s.in].trash /\ s.trash \in BOOLEAN
  <1>1. p.files[f].time \in 0 .. p.next - 1
    BY FileRecords
  <1>2. f \in 1 .. p.next - 1 /\ p.next \in Nat \ {0}
    BY Records DEF Kinds
  <1>3. f \in 0 .. p.next - 1 /\ p.files[f].time \in Nat
    BY <1>1, <1>2
  <1> QED BY <1>1, <1>3 DEF Docs!Found, Filed

LEMMA FoundLasts ==
  ASSUME NEW p, Filed(p), NEW q, NEW r, r.op # "update", FilesLast(p, q, r), NEW f \in DOMAIN p.files, f \in DOMAIN q.files
  PROVE  q.files[f] = p.files[f] /\ Docs!Found(q, f) = Docs!Found(p, f)
  BY DEF Docs!Found, Filed, FilesLast, FoldersStay

LEMMA OutdoneBy ==
  ASSUME NEW p, NEW s, NEW g \in DOMAIN p.files, p.files[g].name = s.name, Docs!Better(Docs!Found(p, g), s)
  PROVE  Outdone(p, s)
  BY DEF Outdone

\* What is better than something that can be spared can be.
LEMMA WorseIsSpare ==
  ASSUME NEW p, IsPortal(p), Filed(p), NEW names, NEW s, s.trash \in BOOLEAN, s.time \in Nat,
         NEW t, t.trash \in BOOLEAN, t.time \in Nat, t.name = s.name, Docs!Better(s, t), Spare(names, p, s)
  PROVE  Spare(names, p, t)
  <1> SUFFICES ASSUME t.name \in names PROVE Outdone(p, t)
    BY DEF Spare
  <1>1. PICK g \in DOMAIN p.files : p.files[g].name = s.name /\ Docs!Better(Docs!Found(p, g), s)
    BY DEF Spare, Outdone
  <1>2. Docs!Found(p, g).trash \in BOOLEAN /\ Docs!Found(p, g).time \in Nat
    BY FoundShape
  <1>3. Docs!Better(Docs!Found(p, g), t)
    BY <1>1, <1>2, BetterOrder
  <1> QED BY <1>1, <1>3, OutdoneBy

\* What could be spared still can be.
LEMMA SpareLasts ==
  ASSUME NEW p, IsPortal(p), Filed(p), NEW names, NEW r, Careful(names, p, r), NEW q, FilesLast(p, q, r),
         NEW s, s.trash \in BOOLEAN, s.time \in Nat, Spare(names, p, s)
  PROVE  Spare(names, q, s)
  <1> SUFFICES ASSUME s.name \in names PROVE Outdone(q, s)
    BY DEF Spare
  <1>1. PICK g \in DOMAIN p.files : p.files[g].name = s.name /\ Docs!Better(Docs!Found(p, g), s)
    BY DEF Spare, Outdone
  <1>2. CASE g \in DOMAIN q.files
    <2>1. q.files[g] = p.files[g] /\ Docs!Found(q, g) = Docs!Found(p, g)
      BY <1>2, FoundLasts DEF Careful
    <2> QED BY <1>1, <1>2, <2>1, OutdoneBy
  <1>3. CASE g \notin DOMAIN q.files
    <2> DEFINE t == Docs!Found(p, g)
    <2>1. r.op = "drop file" /\ r.at = g
      BY <1>3 DEF FilesLast
    <2>2. t.name = s.name /\ t.trash \in BOOLEAN /\ t.time \in Nat
      BY <1>1, FoundShape
    <2>3. Spare(names, p, t)
      BY <2>1 DEF Careful, Expendable
    <2> HIDE DEF t
    <2>4. PICK h \in DOMAIN p.files : p.files[h].name = t.name /\ Docs!Better(Docs!Found(p, h), t)
      BY <2>2, <2>3 DEF Spare, Outdone
    <2>5. Docs!Found(p, h).trash \in BOOLEAN /\ Docs!Found(p, h).time \in Nat
      BY FoundShape
    <2>6. h # g
      BY <2>2, <2>4, BetterOrder DEF t
    <2>7. h \in DOMAIN q.files
      BY <2>1, <2>6 DEF FilesLast
    <2>8. q.files[h] = p.files[h] /\ Docs!Found(q, h) = Docs!Found(p, h)
      BY <2>7, FoundLasts DEF Careful
    <2>9. Docs!Better(t, s)
      BY <1>1 DEF t
    <2>a. Docs!Better(Docs!Found(p, h), s)
      BY <2>2, <2>4, <2>5, <2>9, BetterOrder
    <2> QED BY <2>2, <2>4, <2>7, <2>8, <2>a, OutdoneBy
  <1> QED BY <1>2, <1>3

LEMMA ExpendableLasts ==
  ASSUME NEW p, IsPortal(p), Filed(p), NEW names, NEW r, Careful(names, p, r), NEW q, FilesLast(p, q, r),
         NEW f, Expendable(names, p, f)
  PROVE  Expendable(names, q, f)
  <1>1. p.next \in Nat /\ q.next \in Nat /\ p.next <= q.next /\ f \in 0 .. p.next - 1
    BY DEF FilesLast, Expendable
  <1>2. f \in 0 .. q.next - 1 /\ ~(p.next <= f)
    BY <1>1
  <1>3. ASSUME f \in DOMAIN q.files
        PROVE  Spare(names, q, Docs!Found(q, f))
    <2> DEFINE s == Docs!Found(p, f)
    <2>1. f \in DOMAIN p.files
      BY <1>2, <1>3 DEF FilesLast
    <2>2. s.trash \in BOOLEAN /\ s.time \in Nat
      BY <2>1, FoundShape
    <2>3. Spare(names, p, s)
      BY <2>1 DEF Expendable
    <2>4. Docs!Found(q, f) = s
      BY <1>3, <2>1, FoundLasts DEF Careful
    <2> HIDE DEF s
    <2> QED BY <2>2, <2>3, <2>4, SpareLasts
  <1> QED BY <1>2, <1>3 DEF Expendable

LEMMA RemembersLasts ==
  ASSUME NEW p, IsPortal(p), Filed(p), NEW names, NEW r, Careful(names, p, r), NEW q, FilesLast(p, q, r),
         NEW s, Remembers(names, p, s)
  PROVE  Remembers(names, q, s)
  <1>1. /\ p.next \in Nat /\ q.next \in Nat /\ p.next <= q.next
        /\ s.id \in 0 .. p.next - 1 /\ s.time \in 0 .. p.next - 1 /\ s.trash \in BOOLEAN
    BY DEF FilesLast, Remembers
  <1>2. /\ s.id \in 0 .. q.next - 1 /\ s.time \in 0 .. q.next - 1 /\ s.time \in Nat
        /\ ~(p.next <= s.id) /\ ~(p.next <= s.time)
    BY <1>1
  <1>3. s.in \in DOMAIN q.folders /\ s.trash = q.folders[s.in].trash
    BY DEF Remembers, FilesLast, FoldersStay
  <1>4. ASSUME s.id \in DOMAIN q.files
        PROVE  Docs!Found(q, s.id) = s
    <2>1. s.id \in DOMAIN p.files
      BY <1>2, <1>4 DEF FilesLast
    <2> QED BY <1>4, <2>1, FoundLasts DEF Careful, Remembers
  <1>5. ASSUME s.id \notin DOMAIN q.files
        PROVE  Spare(names, q, s)
    <2>1. CASE s.id \in DOMAIN p.files
      <3>1. r.op = "drop file" /\ r.at = s.id
        BY <1>5, <2>1 DEF FilesLast
      <3>2. Spare(names, p, s)
        BY <2>1, <3>1 DEF Careful, Expendable, Remembers
      <3> QED BY <1>1, <1>2, <3>2, SpareLasts
    <2>2. CASE s.id \notin DOMAIN p.files
      BY <1>1, <1>2, <2>2, SpareLasts DEF Remembers
    <2> QED BY <2>1, <2>2
  <1>6. ASSUME NEW g \in DOMAIN q.files, q.files[g].name = s.name, q.files[g].time = s.time
        PROVE  g = s.id
    <2>1. g \in DOMAIN p.files
      BY <1>2, <1>6 DEF FilesLast
    <2> QED BY <1>6, <2>1 DEF FilesLast, Remembers, Careful
  <1> QED BY <1>1, <1>2, <1>3, <1>4, <1>5, <1>6 DEF Remembers

LEMMA AllToldLasts ==
  ASSUME NEW p, IsPortal(p), Filed(p), NEW names, NEW r, Careful(names, p, r), NEW q, FilesLast(p, q, r),
         NEW seen, AllTold(names, p, seen)
  PROVE  AllTold(names, q, seen)
  BY RemembersLasts DEF AllTold

LEMMA TimesDifferLasts ==
  ASSUME NEW p, IsPortal(p), NEW r, r.op # "update", NEW q, FilesLast(p, q, r), TimesDiffer(p)
  PROVE  TimesDiffer(q)
  <1>1. ASSUME NEW f \in DOMAIN q.files
        PROVE  \/ f \in DOMAIN p.files /\ q.files[f] = p.files[f] /\ ~(p.next <= q.files[f].time)
               \/ f \notin DOMAIN p.files /\ p.next <= q.files[f].time /\ q.files[f].time = f
    <2>1. f \in DOMAIN p.files => p.files[f].time \in 0 .. p.next - 1 /\ p.next \in Nat \ {0}
      BY FileRecords
    <2>2. f \in DOMAIN p.files => ~(p.next <= p.files[f].time)
      BY <2>1
    <2> QED BY <2>2 DEF FilesLast
  <1>2. ASSUME NEW f \in DOMAIN q.files, NEW g \in DOMAIN q.files,
               q.files[f].name = q.files[g].name, q.files[f].time = q.files[g].time
        PROVE  f = g
    BY <1>1, <1>2 DEF TimesDiffer
  <1> QED BY <1>2 DEF TimesDiffer

LEMMA OutsideLasts ==
  ASSUME NEW p, IsPortal(p), Filed(p), NEW names, NEW r, Careful(names, p, r), NEW q, FilesLast(p, q, r),
         names \subseteq Outside(p)
  PROVE  names \subseteq Outside(q)
  <1> SUFFICES ASSUME NEW n \in names PROVE n \in Outside(q)
    OBVIOUS
  <1>1. PICK f \in DOMAIN p.files : ~p.folders[p.files[f].in].trash /\ p.files[f].name = n
    BY DEF Outside
  <1>2. ASSUME NEW g \in DOMAIN q.files, g \in DOMAIN p.files, p.files[g].name = n, ~Docs!Found(p, g).trash
        PROVE  n \in Outside(q)
    <2>1. q.files[g] = p.files[g] /\ Docs!Found(q, g) = Docs!Found(p, g)
      BY <1>2, FoundLasts DEF Careful
    <2>2. ~q.folders[q.files[g].in].trash
      BY <1>2, <2>1 DEF Docs!Found
    <2> QED BY <1>2, <2>1, <2>2 DEF Outside
  <1>3. CASE f \in DOMAIN q.files
    BY <1>1, <1>2, <1>3 DEF Docs!Found
  <1>4. CASE f \notin DOMAIN q.files
    <2> DEFINE s == Docs!Found(p, f)
    <2>1. r.op = "drop file" /\ r.at = f
      BY <1>4 DEF FilesLast
    <2>2. s.name = n /\ s.trash \in BOOLEAN /\ ~s.trash /\ s.time \in Nat
      BY <1>1, FoundShape
    <2>3. Spare(names, p, s)
      BY <2>1 DEF Careful, Expendable
    <2> HIDE DEF s
    <2>4. PICK h \in DOMAIN p.files : p.files[h].name = n /\ Docs!Better(Docs!Found(p, h), s)
      BY <2>2, <2>3 DEF Spare, Outdone
    <2>5. Docs!Found(p, h).trash \in BOOLEAN /\ Docs!Found(p, h).time \in Nat
      BY FoundShape
    <2>6. h # f
      BY <2>2, <2>4, BetterOrder DEF s
    <2>7. h \in DOMAIN q.files
      BY <2>1, <2>6 DEF FilesLast
    <2>8. ~Docs!Found(p, h).trash
      BY <2>2, <2>4, <2>5 DEF Docs!Better
    <2> QED BY <1>2, <2>4, <2>7, <2>8
  <1> QED BY <1>3, <1>4

\* What a clean-up would delete has a better one of its name that was listed.
LEMMA DuplicatesAreWorse ==
  ASSUME NEW p, IsPortal(p), Filed(p), NEW names, NEW seen, AllTold(names, p, seen), NEW cross,
         NEW id \in Docs!Duplicates(seen, cross)
  PROVE  \E a \in seen, k \in seen : a.id = id /\ k.name = a.name /\ Docs!Better(k, a)
  <1> DEFINE Twins(a) == {b \in seen : b.name = a.name /\ (cross \/ b.in = a.in)}
             Beaten(k, b) == IF cross THEN Docs!Better(b, k) ELSE b.time > k.time
             Keeper(a) == CHOOSE k \in Twins(a) : ~\E b \in Twins(a) : Beaten(k, b)
             v(b) == IF cross /\ ~b.trash THEN b.time + p.next ELSE b.time
  <1>1. PICK a \in seen : a # Keeper(a) /\ id = a.id
    BY DEF Docs!Duplicates
  <1>2. a \in Twins(a) /\ Twins(a) \subseteq seen
    OBVIOUS
  <1>3. p.next \in Nat
    BY DEF IsPortal
  <1>4. ASSUME NEW b \in seen
        PROVE  /\ b.time \in 0 .. p.next - 1 /\ b.trash \in BOOLEAN
               /\ b.in \in DOMAIN p.folders /\ b.trash = p.folders[b.in].trash
    BY <1>4 DEF AllTold, Remembers
  <1>5. ASSUME NEW b \in seen, NEW k \in seen, v(b) <= v(k)
        PROVE  ~Beaten(k, b)
    BY <1>3, <1>4, <1>5 DEF Docs!Better
  <1>6. \A b \in seen : v(b) \in Nat /\ v(b) <= 2 * p.next
    BY <1>3, <1>4
  <1>7. \E k \in Twins(a) : \A b \in Twins(a) : v(b) <= v(k)
    <2> DEFINE S == {2 * p.next - v(b) : b \in Twins(a)}
    <2> HIDE DEF v, Twins
    <2>1. S \subseteq Nat /\ S # {}
      BY <1>2, <1>3, <1>6
    <2>2. PICK k \in Twins(a) : Min(S) = 2 * p.next - v(k)
      BY <2>1, LeastNat
    <2>3. \A b \in Twins(a) : Min(S) <= 2 * p.next - v(b)
      BY <2>1, LeastNat
    <2>4. v(k) \in Nat /\ \A b \in Twins(a) : v(b) \in Nat
      BY <1>2, <1>6
    <2> HIDE DEF S
    <2>5. \A b \in Twins(a) : v(b) <= v(k)
      BY <1>3, <2>2, <2>3, <2>4
    <2> QED BY <2>5
  <1>8. \E k \in Twins(a) : ~\E b \in Twins(a) : Beaten(k, b)
    <2> HIDE DEF v, Twins, Beaten
    <2> QED BY <1>2, <1>5, <1>7
  <1> DEFINE k == Keeper(a)
  <1>9. k \in Twins(a) /\ ~Beaten(k, a)
    <2> HIDE DEF Twins, Beaten
    <2> QED BY <1>2, <1>8
  <1> HIDE DEF k
  <1>a. k \in seen /\ k.name = a.name /\ (cross \/ k.in = a.in)
    BY <1>9
  <1>b. k # a
    BY <1>1 DEF k
  <1>c. k.time # a.time
    BY <1>a, <1>b DEF AllTold
  <1>d. Docs!Better(k, a)
    <2>1. k.time \in Nat /\ a.time \in Nat /\ k.trash \in BOOLEAN /\ a.trash \in BOOLEAN
      BY <1>3, <1>4, <1>a
    <2>2. CASE cross
      BY <1>9, <1>c, <2>1, <2>2, BetterOrder
    <2>3. CASE ~cross
      <3>1. k.trash = a.trash
        BY <1>4, <1>a, <2>3
      <3>2. k.time > a.time
        BY <1>9, <1>c, <2>1, <2>3
      <3> QED BY <3>1, <3>2 DEF Docs!Better
    <2> QED BY <2>2, <2>3
  <1> QED BY <1>1, <1>a, <1>d

LEMMA DuplicatesSpare ==
  ASSUME NEW p, IsPortal(p), Filed(p), NEW names, NEW seen, AllTold(names, p, seen), NEW cross,
         NEW id \in Docs!Duplicates(seen, cross)
  PROVE  Expendable(names, p, id)
  <1>1. PICK a \in seen, k \in seen : a.id = id /\ k.name = a.name /\ Docs!Better(k, a)
    BY DuplicatesAreWorse
  <1>2. Remembers(names, p, a) /\ Remembers(names, p, k)
    BY DEF AllTold
  <1>3. p.next \in Nat
    BY DEF IsPortal
  <1>4. a.trash \in BOOLEAN /\ k.trash \in BOOLEAN /\ a.time \in Nat /\ k.time \in Nat /\ id \in 0 .. p.next - 1
    BY <1>1, <1>2, <1>3 DEF Remembers
  <1>5. Spare(names, p, a)
    <2>1. CASE k.id \in DOMAIN p.files
      <3>1. Docs!Found(p, k.id) = k
        BY <1>2, <2>1 DEF Remembers
      <3>2. p.files[k.id].name = k.name
        BY <2>1, <3>1, FoundShape
      <3> QED BY <1>1, <2>1, <3>1, <3>2, OutdoneBy DEF Spare
    <2>2. CASE k.id \notin DOMAIN p.files
      <3>1. Spare(names, p, k)
        BY <1>2, <2>2 DEF Remembers
      <3> QED BY <1>1, <1>4, <3>1, WorseIsSpare
    <2> QED BY <2>1, <2>2
  <1> QED BY <1>1, <1>2, <1>4, <1>5 DEF Expendable, Remembers

\* The files of a folder, told with those of others.
LEMMA ToldMore ==
  ASSUME NEW p, IsPortal(p), Filed(p), TimesDiffer(p), NEW names, NEW seen, AllTold(names, p, seen),
         NEW S, S \subseteq DOMAIN p.files
  PROVE  AllTold(names, p, seen \cup {Docs!Found(p, f) : f \in S})
  <1>1. ASSUME NEW f \in S
        PROVE  Remembers(names, p, Docs!Found(p, f))
    <2> DEFINE s == Docs!Found(p, f)
    <2>1. /\ s.id = f /\ s.name = p.files[f].name /\ s.time = p.files[f].time
          /\ f \in 0 .. p.next - 1 /\ s.time \in 0 .. p.next - 1
          /\ s.in \in DOMAIN p.folders /\ s.trash = p.folders[s.in].trash /\ s.trash \in BOOLEAN
      BY FoundShape
    <2>2. Docs!Found(p, f) = s
      OBVIOUS
    <2> HIDE DEF s
    <2>3. Remembers(names, p, s)
      BY <2>1, <2>2 DEF Remembers, TimesDiffer
    <2> QED BY <2>2, <2>3
  <1>2. ASSUME NEW f \in S, NEW t \in seen,
               Docs!Found(p, f).name = t.name, Docs!Found(p, f).time = t.time
        PROVE  Docs!Found(p, f) = t
    <2>1. Docs!Found(p, f).name = p.files[f].name /\ Docs!Found(p, f).time = p.files[f].time
      BY FoundShape
    <2>2. Remembers(names, p, t)
      BY DEF AllTold
    <2>3. p.files[f].name = t.name /\ p.files[f].time = t.time /\ f \in DOMAIN p.files
      BY <1>2, <2>1
    <2>4. t.id = f
      BY <2>2, <2>3 DEF Remembers
    <2> QED BY <2>2, <2>3, <2>4 DEF Remembers
  <1>3. ASSUME NEW f \in S, NEW g \in S, Docs!Found(p, f).name = Docs!Found(p, g).name,
               Docs!Found(p, f).time = Docs!Found(p, g).time
        PROVE  Docs!Found(p, f) = Docs!Found(p, g)
    <2>1. p.files[f].name = p.files[g].name /\ p.files[f].time = p.files[g].time
      BY <1>3, FoundShape
    <2> QED BY <2>1 DEF TimesDiffer
  <1> QED BY <1>1, <1>2, <1>3 DEF AllTold
-----------------------------------------------------------------------------
(* Clean-ups: how the folders of a project are gone through.               *)

LEMMA ListNextScans ==
  ASSUME NEW p, NEW h, NEW list, NEW state, state.seen = Told(p, h)
  PROVE  ScanLeads(p, h, Docs!ListNext(list, state))
  <1> DEFINE at == Head(list)
             rest == Tail(list)
             q == [Docs!For("folder files", Docs!Must("list", at, state)) EXCEPT !.extra = rest]
  <1>1. Docs!ListNext(list, state) \in {<<>>, <<q>>}
    BY DEF Docs!ListNext, Docs!Nothing
  <1> HIDE DEF at, rest
  <1>2. Is(q, "list", at, state, "folder files", rest)
    BY DocsShapes
  <1> HIDE DEF q
  <1>3. Scanning(q) /\ Seen(q) = Told(p, h)
    BY <1>2 DEF Is, Scanning, Seen, Changing, Rearrangements
  <1> QED BY <1>1, <1>3 DEF ScanLeads, NextScan

LEMMA DeletesDuplicates ==
  ASSUME NEW D, IsFiniteSet(D), NEW x \in ToSet(Docs!DeleteFiles(Docs!SetToSeq(D)))
  PROVE  x.op = "drop file" /\ x.use = PlainUse /\ x.at \in D
  <1> DEFINE list == Docs!SetToSeq(D)
             s == Docs!DeleteFiles(list)
  <1>1. s = [i \in DOMAIN list |-> Docs!Must("drop file", list[i], 0)]
    BY DEF Docs!DeleteFiles, Docs!ForEach
  <1>2. ToSet(list) = D
    BY SetList, DocsSetToSeq
  <1> HIDE DEF list
  <1>3. PICK i \in DOMAIN list : x = Docs!Must("drop file", list[i], 0)
    BY <1>1 DEF ToSet, list
  <1> DEFINE at == list[i]
  <1>4. at \in D
    BY <1>2 DEF ToSet
  <1> HIDE DEF at
  <1>5. Is(Docs!Must("drop file", at, 0), "drop file", at, 0, "", <<>>)
    BY DocsShapes
  <1> QED BY <1>3, <1>4, <1>5 DEF Is, PlainUse, at

LEMMA FoundIsFinite ==
  ASSUME NEW p, IsPortal(p), NEW folder, NEW seen, IsFiniteSet(seen), NEW cross
  PROVE  IsFiniteSet(Docs!Duplicates(seen \cup {Docs!Found(p, f) : f \in Docs!FilesIn(p, folder)}, cross))
  <1> DEFINE S == Docs!FilesIn(p, folder)
             here == {Docs!Found(p, f) : f \in S}
             all == seen \cup here
  <1>1. S \subseteq DOMAIN p["files"] /\ "files" \in Kinds
    BY DEF Docs!FilesIn, Kinds
  <1> HIDE DEF S
  <1>2. IsFiniteSet(S)
    BY <1>1, Collections
  <1>3. IsFiniteSet(here)
    <2> DEFINE f == [x \in S |-> Docs!Found(p, x)]
    <2>1. DOMAIN f = S /\ here = {f[x] : x \in DOMAIN f}
      OBVIOUS
    <2> HIDE DEF f
    <2> QED BY <1>2, <2>1, ImageIsFinite
  <1> HIDE DEF here
  <1>4. IsFiniteSet(all)
    BY <1>3, FS_Union
  <1>5. Docs!Duplicates(all, cross) \subseteq {x.id : x \in all}
    BY DEF Docs!Duplicates
  <1> HIDE DEF all
  <1>6. IsFiniteSet({x.id : x \in all})
    <2> DEFINE f == [x \in all |-> x.id]
    <2>1. DOMAIN f = all /\ {x.id : x \in all} = {f[x] : x \in DOMAIN f}
      OBVIOUS
    <2> HIDE DEF f
    <2> QED BY <1>4, <2>1, ImageIsFinite
  <1>7. IsFiniteSet(Docs!Duplicates(all, cross))
    BY <1>5, <1>6, FS_Subset
  <1> QED BY <1>7 DEF all, here, S

LEMMA InFolderScans ==
  ASSUME NEW p, NEW h, h.extra = <<"dedupe">>, h.val.seen = {}, h.use # "folder files", NEW folder
  PROVE  ScanLeads(p, h, Docs!InFolder(folder, h))
  <1> DEFINE list == <<folder>> \o Docs!Remove(h.val.listed, folder)
             state == h.val
  <1>0. <<"dedupe">> # <<"replace">> /\ <<"dedupe">> # <<"no clobber">> /\ <<"dedupe">> # <<"upload">>
    OBVIOUS
  <1>1. h.extra \notin {<<"replace">>, <<"no clobber">>, <<"upload">>}
    BY <1>0
  <1>2. Docs!InFolder(folder, h) = Docs!ListNext(list, state)
    BY <1>1 DEF Docs!InFolder
  <1>3. state.seen = Told(p, h)
    BY DEF Told
  <1> HIDE DEF list, state
  <1> QED BY <1>2, <1>3, ListNextScans

LEMMA OnlyScanThen ==
  ASSUME NEW h, h.use \in ScanUses, NEW p, NEW more \in WorkThen(p, h)
  PROVE  more \in Docs!DocumentsThen(p, h) \/ more = <<>>
  BY DEF ScanUses, WorkThen, ProjectsThen, BusinessThen, Nothing

LEMMA NoOtherScan ==
  ASSUME NEW h, h.use \in ScanUses
  PROVE  WorkOtherwise(h) = {}
  BY DEF ScanUses, WorkOtherwise, BusinessOtherwise, Docs!DocumentsOtherwise

LEMMA ScanAnswers ==
  ASSUME NEW p, IsPortal(p), NEW h, IsRequest(h), Scanning(h), NEW more \in WorkThen(p, h)
  PROVE  ScanLeads(p, h, more)
  <1>0. h.use \in ScanUses
    BY DEF Scanning, ScanUses
  <1>1. more \in Docs!DocumentsThen(p, h) \/ more = <<>>
    BY <1>0, OnlyScanThen
  <1>2. CASE more = <<>>
    BY <1>2 DEF ScanLeads
  <1>3. CASE h.use = "project folders" /\ more \in Docs!DocumentsThen(p, h)
    <2> DEFINE val == [cross |-> h.val.cross, apply |-> h.val.apply, listed |-> p.projects[h.at].listed, seen |-> {}]
               at == h.at
               extra == <<"dedupe">>
               q == [Docs!For("root", Docs!Must("project", at, val)) EXCEPT !.extra = extra]
    <2>1. more = <<q>>
      BY <1>3 DEF Docs!DocumentsThen, Docs!ProjectFolders
    <2>2. val.seen = {} /\ extra = <<"dedupe">>
      OBVIOUS
    <2> HIDE DEF val, at, extra
    <2>3. Is(q, "project", at, val, "root", extra)
      BY DocsShapes
    <2> HIDE DEF q
    <2>4. Scanning(q) /\ Seen(q) = Told(p, h)
      BY <1>3, <2>2, <2>3 DEF Is, Scanning, Seen, Told, Changing, Rearrangements
    <2> QED BY <2>1, <2>4 DEF ScanLeads, NextScan
  <1>4. CASE h.use \in {"root", "first folder"} /\ more \in Docs!DocumentsThen(p, h)
    <2> DEFINE q == [h EXCEPT !.op = "project files", !.use = "first folder"]
               t == Docs!GiveUp
    <2>1. more = <<q>> \/ more = <<t>> \/ \E f : more = Docs!InFolder(f, h)
      BY <1>4 DEF Docs!DocumentsThen, Docs!ProjectFolder, Docs!FirstFolder
    <2>2. h.extra = <<"dedupe">> /\ h.val.seen = {}
      BY <1>4 DEF Scanning
    <2>3. q.op = "project files" /\ q.use = "first folder" /\ q.val = h.val /\ q.extra = h.extra
      BY DEF IsRequest, RequestFields
    <2>4. Is(t, "give up", 0, 0, "", <<>>)
      BY DocsShapes DEF Docs!GiveUp
    <2> HIDE DEF q, t
    <2>5. Scanning(q) /\ Seen(q) = Told(p, h)
      BY <1>4, <2>2, <2>3 DEF Scanning, Seen, Told, Changing, Rearrangements
    <2>6. Harmless(t)
      BY <2>4 DEF Is, Harmless, PlainUse, OnlyAsked, Removals
    <2> QED BY <1>4, <2>1, <2>2, <2>5, <2>6, InFolderScans DEF ScanLeads, NextScan
  <1>5. CASE h.use = "folder files" /\ more \in Docs!DocumentsThen(p, h)
    <2> DEFINE seen == h.val.seen \cup {Docs!Found(p, f) : f \in Docs!FilesIn(p, h.at)}
               state == [h.val EXCEPT !.seen = seen]
               D == Docs!Duplicates(seen, h.val.cross)
    <2>1. IsScan(h.val)
      BY <1>5 DEF IsRequest, Fits
    <2>2. state.seen = seen /\ state.cross = h.val.cross
      BY <2>1 DEF IsScan
    <2>3. IsFiniteSet(D)
      BY <2>1, FoundIsFinite DEF IsScan
    <2>4. seen = Told(p, h)
      BY <1>5 DEF Told
    <2> HIDE DEF seen
    <2>5. more \in {Docs!ListNext(h.extra, state), Docs!DeleteFiles(Docs!SetToSeq(D)), <<>>}
      BY <1>5, <2>2 DEF Docs!DocumentsThen, Docs!FolderFiles, Docs!Nothing, seen
    <2> HIDE DEF state
    <2>6. more = Docs!DeleteFiles(Docs!SetToSeq(D)) => Deletions(p, h, more)
      BY <1>5, <2>3, <2>4, DeletesDuplicates DEF Deletions
    <2>7. more = Docs!ListNext(h.extra, state) => ScanLeads(p, h, more)
      BY <2>2, <2>4, ListNextScans
    <2> QED BY <2>5, <2>6, <2>7 DEF ScanLeads
  <1> QED BY <1>0, <1>1, <1>2, <1>3, <1>4, <1>5 DEF ScanUses

\* A request that failed is sent again.
LEMMA ScanAgain ==
  ASSUME NEW h, IsRequest(h), Scanning(h), NEW more \in Alternatives(h)
  PROVE  \E q : more = <<q>> /\ q.op = h.op /\ q.at = h.at /\ q.val = h.val /\ q.use = h.use /\ q.extra = h.extra
  <1> DEFINE ways == h.ways - 1
             q == [h EXCEPT !.ways = ways]
  <1>0. h.use \in ScanUses
    BY DEF Scanning, ScanUses
  <1>1. WorkOtherwise(h) = {}
    BY <1>0, NoOtherScan
  <1>2. more = <<q>>
    BY <1>1 DEF Alternatives
  <1> HIDE DEF ways
  <1>3. q.op = h.op /\ q.at = h.at /\ q.val = h.val /\ q.use = h.use /\ q.extra = h.extra
    BY DEF IsRequest, RequestFields
  <1> QED BY <1>2, <1>3
-----------------------------------------------------------------------------
(* Clean-ups: no command deletes what must not be lost.                    *)

LEMMA CleanIsCareful ==
  ASSUME NEW names, NEW p, NEW x, Clean(names, p, x)
  PROVE  Careful(names, p, x) /\ x.op \notin Rearrangements
  <1>1. CASE InScan(names, p, x)
    BY <1>1 DEF InScan, Scanning, Careful, Changing
  <1>2. CASE Minds(names, p, x)
    <2>1. x.op # "save draft" => x.op \in Asks(x)
      BY DEF Asks
    <2>2. x.op = "drop file" => Aims(x, x.at)
      BY DEF Aims, Changing
    <2> QED BY <1>2, <2>1, <2>2 DEF Minds, Tame, Careful, Rearrangements
  <1> QED BY <1>1, <1>2 DEF Clean

LEMMA CleanLasts ==
  ASSUME NEW p, IsPortal(p), Filed(p), NEW names, NEW r, Careful(names, p, r), NEW q, FilesLast(p, q, r),
         NEW x, Clean(names, p, x)
  PROVE  Clean(names, q, x)
  <1>1. ASSUME NEW f, Expendable(names, p, f) PROVE Expendable(names, q, f)
    BY <1>1, ExpendableLasts
  <1>2. ASSUME NEW seen, AllTold(names, p, seen) PROVE AllTold(names, q, seen)
    BY <1>2, AllToldLasts
  <1> QED BY <1>1, <1>2 DEF Clean, Minds, InScan

LEMMA ToldAll ==
  ASSUME NEW p, IsPortal(p), Filed(p), TimesDiffer(p), NEW names, NEW h, AllTold(names, p, Seen(h))
  PROVE  AllTold(names, p, Told(p, h))
  <1> DEFINE S == Docs!FilesIn(p, h.at)
  <1>1. S \subseteq DOMAIN p.files
    BY DEF Docs!FilesIn
  <1> HIDE DEF S
  <1>2. AllTold(names, p, Seen(h) \cup {Docs!Found(p, f) : f \in S})
    BY <1>1, ToldMore
  <1> QED BY <1>2 DEF Told, Seen, S

\* The copy that a conversion has just made, under a name of its own.
LEMMA LastIsExpendable ==
  ASSUME NEW q, IsPortal(q), Filed(q), NEW names, NEW h, h.op = "upload", h.val.name \notin names, Named(q, h)
  PROVE  Expendable(names, q, LastId(q))
  <1>1. q.next \in Nat \ {0}
    BY DEF IsPortal
  <1> DEFINE f == q.next - 1
  <1>2. f \in 0 .. q.next - 1 /\ LastId(q) = f
    BY <1>1 DEF LastId
  <1>3. f \in DOMAIN q.files => Docs!Found(q, f).name = q.files[f].name
    BY FoundShape
  <1>4. q.files[f].name = h.val.name
    BY DEF Named
  <1> HIDE DEF f
  <1> QED BY <1>2, <1>3, <1>4 DEF Expendable, Spare

LEMMA HarmlessMinds ==
  ASSUME NEW names, NEW p, NEW x, Harmless(x)
  PROVE  Minds(names, p, x)
  <1>1. Tame(Rearrangements, x) /\ Mild(x) /\ \A f : ~Aims(x, f)
    BY HarmlessTame DEF Bans
  <1> QED BY <1>1 DEF Minds, Mild

LEMMA AnswerClean ==
  ASSUME NEW q, IsPortal(q), Filed(q), TimesDiffer(q), NEW names, NEW h, IsRequest(h), Clean(names, q, h),
         Named(q, h), h.op = "invoice" => h.at \in DOMAIN q.invoices, NEW more \in WorkThen(q, h),
         NEW x \in ToSet(more)
  PROVE  Clean(names, q, x)
  <1>1. CASE Minds(names, q, h)
    <2>1. Tame(Rearrangements, h)
      BY <1>1 DEF Minds
    <2>2. Tame(Rearrangements, x) /\ Mild(x)
      BY <2>1, AnswerTame DEF Bans
    <2>3. ASSUME NEW f, Aims(x, f) PROVE Expendable(names, q, f)
      <3>1. h.use = "scratch" /\ h.op = "upload" /\ f = LastId(q)
        BY <2>1, <2>3, AnswerTame DEF Bans
      <3> QED BY <1>1, <3>1, LastIsExpendable DEF Minds
    <2> QED BY <2>2, <2>3 DEF Clean, Minds, Mild
  <1>2. CASE InScan(names, q, h)
    <2>1. ScanLeads(q, h, more)
      BY <1>2, ScanAnswers DEF InScan
    <2>2. AllTold(names, q, Told(q, h))
      BY <1>2, ToldAll DEF InScan
    <2>3. CASE more = <<>>
      <3>1. ToSet(<<>>) = {}
        BY OneElement DEF ToSet
      <3> QED BY <2>3, <3>1
    <2>4. CASE NextScan(q, h, more)
      <3>1. Harmless(x) \/ (Scanning(x) /\ Seen(x) = Told(q, h))
        BY <2>4, OnlyElement DEF NextScan
      <3> QED BY <2>2, <3>1, HarmlessMinds DEF Clean, InScan
    <2>5. CASE Deletions(q, h, more)
      <3>1. x.op = "drop file" /\ x.use = PlainUse /\ x.at \in Docs!Duplicates(Told(q, h), h.val.cross)
        BY <2>5 DEF Deletions
      <3>2. Expendable(names, q, x.at)
        BY <2>2, <3>1, DuplicatesSpare
      <3>3. Tame(Rearrangements, x) /\ x.use # "scratch" /\ \A f : Aims(x, f) => f = x.at
        BY <3>1 DEF Tame, Asks, Aims, Rearrangements, PlainUse
      <3> QED BY <3>1, <3>2, <3>3 DEF Clean, Minds
    <2> QED BY <2>1, <2>3, <2>4, <2>5 DEF ScanLeads
  <1> QED BY <1>1, <1>2 DEF Clean

LEMMA AgainClean ==
  ASSUME NEW p, NEW names, NEW h, IsRequest(h), Clean(names, p, h), NEW more \in Alternatives(h), NEW x \in ToSet(more)
  PROVE  Clean(names, p, x)
  <1>1. CASE Minds(names, p, h)
    <2>1. Tame(Rearrangements, h)
      BY <1>1 DEF Minds
    <2>2. /\ Tame(Rearrangements, x) /\ \A f : Aims(x, f) => Aims(h, f)
          /\ Mild(x) \/ (x.op = h.op /\ x.val = h.val /\ x.use = h.use)
      BY <2>1, ElsewhereTame DEF Bans
    <2>3. Aims(x, x.at) => Aims(h, h.at) /\ x.at = h.at
      BY <2>2 DEF Aims
    <2> QED BY <1>1, <2>2, <2>3 DEF Clean, Minds, Mild
  <1>2. CASE InScan(names, p, h)
    <2>1. PICK q : more = <<q>> /\ q.op = h.op /\ q.at = h.at /\ q.val = h.val /\ q.use = h.use /\ q.extra = h.extra
      BY <1>2, ScanAgain DEF InScan
    <2>2. x = q
      BY <2>1, OnlyElement
    <2> QED BY <1>2, <2>1, <2>2 DEF Clean, InScan, Scanning, Seen
  <1> QED BY <1>1, <1>2 DEF Clean

LEMMA TidyMoves ==
  ASSUME Sound, NEW names, Tidy(names, portal, session), NEW a \in Actors, Step(a)
  PROVE  Tidy(names, portal', session')
  <1> DEFINE h == Head(session[a].todo)
             rest == Tail(session[a].todo)
  <1>1. /\ session[a].todo # <<>> /\ Good(Asked(a), h) /\ GoodScript(Asked(a), rest)
        /\ Moves(a, h, rest) /\ Happens(a, h, rest)
    BY StepMoves, StepHappens
  <1>2. ToSet(session[a].todo) = {h} \cup ToSet(rest)
    BY <1>1, FirstAndRest DEF Sound, GoodScript
  <1> HIDE DEF h, rest
  <1>3. Kept(a) /\ IsPortal(portal') /\ IsPortal(portal) /\ IsRequest(h) /\ IsList(rest)
    BY <1>1 DEF Moves, Outcome, Sound, Good, GoodScript
  <1>4. Filed(portal) /\ TimesDiffer(portal) /\ names \subseteq Outside(portal) /\ Clean(names, portal, h)
    BY <1>2 DEF Tidy
  <1>5. Careful(names, portal, h) /\ h.op \notin Rearrangements /\ h.op # "update"
    BY <1>4, CleanIsCareful DEF Careful
  <1>6. FilesLast(portal, portal', h) /\ (GoesElsewhere(a, h, rest) \/ Named(portal', h))
    BY <1>1, <1>3, <1>4, <1>5, HappensLast
  <1>7. Filed(portal') /\ TimesDiffer(portal') /\ names \subseteq Outside(portal')
    <2>1. Filed(portal')
      BY <1>6 DEF FilesLast
    <2>2. TimesDiffer(portal')
      BY <1>3, <1>4, <1>5, <1>6, TimesDifferLasts
    <2>3. names \subseteq Outside(portal')
      BY <1>3, <1>4, <1>5, <1>6, OutsideLasts
    <2> QED BY <2>1, <2>2, <2>3
  <1>8. ASSUME NEW x, Clean(names, portal, x) PROVE Clean(names, portal', x)
    BY <1>3, <1>4, <1>5, <1>6, <1>8, CleanLasts
  <1>9. ASSUME NEW b \in Actors, NEW x \in ToSet(session'[b].todo) PROVE Clean(names, portal', x)
    <2>1. CASE b # a
      <3>1. session'[b] = session[b]
        BY <1>3, <2>1 DEF Kept
      <3> QED BY <1>8, <3>1 DEF Tidy
    <2>2. CASE x \in ToSet(rest)
      BY <1>2, <1>8, <2>2 DEF Tidy
    <2>3. CASE \E more \in Alternatives(h) : x \in ToSet(more)
      BY <1>3, <1>4, <1>8, <2>3, AgainClean
    <2>4. CASE b = a /\ GoesElsewhere(a, h, rest)
      BY <1>1, <1>3, <2>2, <2>3, <2>4, ElsewhereScripts
    <2>5. CASE b = a /\ ~GoesElsewhere(a, h, rest)
      <3>1. \/ x \in ToSet(rest)
            \/ \E more \in Alternatives(h) : x \in ToSet(more)
            \/ /\ WorkAccepts(portal, h) /\ (h.op = "invoice" => portal' = portal)
               /\ \E more \in WorkThen(portal', h) : x \in ToSet(more)
        BY <1>1, <1>3, <2>5, ScriptsCome
      <3>2. ASSUME WorkAccepts(portal, h), h.op = "invoice" => portal' = portal,
                   NEW more \in WorkThen(portal', h), x \in ToSet(more)
            PROVE  Clean(names, portal', x)
        <4>1. h.op = "invoice" => h.at \in DOMAIN portal'.invoices
          BY <1>3, <3>2, AcceptedInvoice
        <4>2. Clean(names, portal', h)
          BY <1>4, <1>8
        <4> QED BY <1>3, <1>6, <1>7, <2>5, <3>2, <4>1, <4>2, AnswerClean
      <3> QED BY <2>2, <2>3, <3>1, <3>2
    <2> QED BY <2>1, <2>4, <2>5
  <1> QED BY <1>7, <1>9 DEF Tidy

LEMMA ClearingBegins == Init /\ Sound => Clearing
  <1> SUFFICES ASSUME Init, Sound, Agreed PROVE Tidy(Outside(start), portal, session)
    BY DEF Clearing
  <1> DEFINE names == Outside(start)
  <1>1. start = portal /\ portal \in Portals /\ jobs \in Jobs /\ session = [a \in Actors |-> Fresh(jobs[a])]
    BY DEF Init
  <1>2. Filed(portal)
    BY <1>1, PortalsAssumption DEF Filed
  <1>3. NobodySends(Rearrangements) /\ NobodyReplaces /\ TimesDiffer(portal)
    BY <1>1 DEF Agreed, CleanersAgree, NobodySends, Sends
  <1>4. ASSUME NEW a \in Actors, NEW i \in DOMAIN jobs[a], NEW r, r = jobs[a][i]
        PROVE  Clean(names, portal, r)
    <2>1. IsOpening(r)
      BY <1>1, <1>4, JobsAssumption
    <2>2. r.op \notin Rearrangements \cup Changing
      BY <1>4 DEF Agreed, CleanersAgree, NobodySends, Sends, Changing
    <2>3. CASE r.use = "project folders"
      BY <2>2, <2>3 DEF Clean, InScan, Scanning, Seen, AllTold
    <2>4. CASE r.use # "project folders"
      <3>1. Tame(Rearrangements, r)
        BY <1>3, <1>4, <2>1, <2>4, OpeningTame DEF Bans
      <3>2. ASSUME NEW f, Aims(r, f) PROVE FALSE
        BY <1>3, <1>4, <2>1, <2>2, <2>4, <3>2, OpeningTame DEF Bans
      <3>3. r.use = "scratch" => r.val.name \notin names
        BY <1>4 DEF Agreed, CleanersAgree
      <3> QED BY <2>2, <3>1, <3>2, <3>3 DEF Clean, Minds, Changing
    <2> QED BY <2>3, <2>4
  <1>5. ASSUME NEW a \in Actors, NEW x \in ToSet(session[a].todo) PROVE Clean(names, portal, x)
    <2>1. session[a].todo = jobs[a]
      BY <1>1 DEF Fresh
    <2> QED BY <1>4, <1>5, <2>1 DEF ToSet
  <1> QED BY <1>1, <1>2, <1>3, <1>5 DEF Tidy

LEMMA AgreedStays ==
  ASSUME start' = start, jobs' = jobs
  PROVE  Agreed' => Agreed
  <1>1. /\ NobodySends(Rearrangements \cup {"drop file"})' => NobodySends(Rearrangements \cup {"drop file"})
        /\ NobodySends({"update"})' => NobodySends({"update"})
        /\ NobodyReplaces' => NobodyReplaces
    BY DEF NobodySends, Sends, NobodyReplaces, Rearrangements
  <1>2. TimesDiffer(start)' => TimesDiffer(start)
    BY DEF TimesDiffer
  <1>3. Outside(start)' = Outside(start)
    BY DEF Outside
  <1> QED BY <1>1, <1>2, <1>3 DEF Agreed, CleanersAgree

LEMMA ClearingStays ==
  ASSUME start' = start, jobs' = jobs, Agreed => Tidy(Outside(start), portal', session')
  PROVE  Clearing'
  <1>1. Tidy(Outside(start), portal', session') => Tidy(Outside(start), portal, session)'
    BY DEF Tidy
  <1> QED BY <1>1, AgreedStays DEF Clearing

LEMMA ClearingMoves ==
  ASSUME Sound, Clearing, NEW a \in Actors, Step(a)
  PROVE  Clearing'
  <1>1. start' = start /\ jobs' = jobs
    BY StepMoves DEF Moves, Outcome, Kept
  <1>2. Agreed => Tidy(Outside(start), portal', session')
    BY TidyMoves DEF Clearing
  <1> QED BY <1>1, <1>2, ClearingStays

\* files_dedupe.go:439: however many commands clean up, upload, copy, convert and mkdir at the
\* same time, and whatever requests are lost or repeated, a document that had a copy outside of
\* trash folders has one there, as long as the clean-ups agree on which of two is newer.
THEOREM CopiesAreKept == Spec => [](CleanersAgree => CleanupKeepsACopy)
  <1>1. Init => Sound /\ Clearing
    BY BeginsSound, ClearingBegins
  <1>2. Sound /\ Clearing /\ [Next]_vars => (Sound /\ Clearing)'
    <2> SUFFICES ASSUME Sound, Clearing, [Next]_vars PROVE (Sound /\ Clearing)'
      OBVIOUS
    <2>1. CASE UNCHANGED vars
      <3>1. Clearing'
        BY <2>1, ClearingStays DEF vars, Clearing, Tidy
      <3> QED BY <2>1, <3>1, StaysSound
    <2>2. ASSUME NEW a \in Actors, Step(a) PROVE (Sound /\ Clearing)'
      BY <2>2, MovesSoundly, ClearingMoves
    <2> QED BY <2>1, <2>2 DEF Next, Finished
  <1>3. Clearing => (CleanersAgree => CleanupKeepsACopy)
    BY DEF Clearing, Agreed, CleanupKeepsACopy, Tidy
  <1> QED BY <1>1, <1>2, <1>3, PTL DEF Spec
=============================================================================
