------------------------------- MODULE CRMProofs -------------------------------
(***************************************************************************)
(* What holds of the CRM for every portal, any number of users and any     *)
(* commands: no clean-up, and no number of them at once, loses a piece of  *)
(* contact information, no command takes away a person's employer, and one *)
(* clean-up beside anything but renames cuts nobody off the deals.         *)
(*                                                                         *)
(* The first part is about data: lists, sorted numbers, concatenations.    *)
(* The second follows each request to the portal, the third each answer to *)
(* the requests it brings, the fourth the sessions.  The rest is about the *)
(* members of deals, in the same order.                                    *)
(***************************************************************************)
EXTENDS CRM, FiniteSetTheorems, FunctionTheorems, SequenceTheorems,
        WellFoundedInduction, TLAPS

-----------------------------------------------------------------------------
(* The least number of a set                                               *)

LessThan == {pair \in Nat \X Nat : pair[1] < pair[2]}

\* Induction by the least counterexample rests on this.
LEMMA LeastNat ==
  ASSUME NEW S, S \subseteq Nat, S # {}
  PROVE  \E n \in S : \A m \in S : n <= m
  <1>1. OpToRel(<, Nat) = LessThan
    BY DEF OpToRel, LessThan
  <1>2. IsWellFoundedOn(LessThan, Nat)
    BY <1>1, NatLessThanWellFounded
  <1>3. PICK n \in S : \A m \in S : <<m, n>> \notin LessThan
    BY <1>2, WFMin
  <1>0. S \subseteq Int /\ n \in S
    BY <1>3
  <1>4. ASSUME NEW m \in S PROVE n <= m
    <2> DEFINE pair == <<m, n>>
    <2>1. pair \in Nat \X Nat /\ pair[1] = m /\ pair[2] = n
      OBVIOUS
    <2>2. pair \notin LessThan
      BY <1>3
    <2> HIDE DEF pair
    <2>3. ~(m < n)
      BY <2>1, <2>2 DEF LessThan
    <2> QED BY <2>3
  <1> QED BY <1>4, Zenon

-----------------------------------------------------------------------------
(* Lists                                                                   *)

LEMMA ListShape ==
  ASSUME NEW s, IsList(s)
  PROVE  /\ Len(s) \in Nat /\ DOMAIN s = 1 .. Len(s)
         /\ s \in Seq(ToSet(s))
         /\ s = <<>> <=> Len(s) = 0
  <1> DEFINE n == Len(s)
             S == ToSet(s)
  <1>1. n \in Nat /\ s = [i \in 1 .. n |-> s[i]]
    BY DEF IsList
  <1> HIDE DEF n
  <1>2. DOMAIN s = 1 .. n
    BY <1>1
  <1>3. \A i \in 1 .. n : s[i] \in S
    BY <1>2 DEF ToSet
  <1> HIDE DEF S
  <1>4. s \in [1 .. n -> S]
    BY <1>1, <1>3
  <1>5. s \in Seq(S)
    BY <1>1, <1>4
  <1> QED BY <1>1, <1>2, <1>5, EmptySeq DEF n, S

LEMMA ShapeIsList ==
  ASSUME NEW n \in Nat, NEW S, NEW s \in [1 .. n -> S]
  PROVE  IsList(s) /\ Len(s) = n /\ DOMAIN s = 1 .. n
  <1>1. s \in Seq(S) /\ Len(s) = n /\ s = [i \in 1 .. n |-> s[i]]
    OBVIOUS
  <1> QED BY <1>1 DEF IsList

LEMMA FunctionIsList ==
  ASSUME NEW n \in Nat, NEW s, s = [i \in 1 .. n |-> s[i]]
  PROVE  IsList(s) /\ Len(s) = n /\ DOMAIN s = 1 .. n
  <1> DEFINE S == {s[i] : i \in 1 .. n}
  <1>1. \A i \in 1 .. n : s[i] \in S
    OBVIOUS
  <1> HIDE DEF S
  <1>2. s \in [1 .. n -> S]
    BY <1>1
  <1> QED BY <1>2, ShapeIsList

LEMMA SeqIsList ==
  ASSUME NEW S, NEW s \in Seq(S)
  PROVE  IsList(s) /\ \A i \in DOMAIN s : s[i] \in S
  <1>1. Len(s) \in Nat /\ s \in [1 .. Len(s) -> S]
    BY LenProperties
  <1> QED BY <1>1, ShapeIsList

LEMMA ConcatList ==
  ASSUME NEW s, IsList(s), NEW t, IsList(t)
  PROVE  LET u == s \o t
         IN  /\ IsList(u)
             /\ \A i \in DOMAIN u : u[i] \in ToSet(s) \cup ToSet(t)
  <1> DEFINE S == ToSet(s) \cup ToSet(t)
             u == s \o t
  <1>1. s \in Seq(S) /\ t \in Seq(S)
    <2>1. /\ s \in Seq(ToSet(s)) /\ ToSet(s) \subseteq S
          /\ t \in Seq(ToSet(t)) /\ ToSet(t) \subseteq S
      BY ListShape
    <2> HIDE DEF S
    <2> QED BY <2>1, SeqMonotonic
  <1> HIDE DEF S
  <1>2. u \in Seq(S)
    BY <1>1, ConcatProperties
  <1> HIDE DEF u
  <1>3. IsList(u) /\ \A i \in DOMAIN u : u[i] \in S
    BY <1>2, SeqIsList
  <1> QED BY <1>3 DEF u, S

LEMMA TailList ==
  ASSUME NEW s, IsList(s), s # <<>>
  PROVE  /\ 1 \in DOMAIN s /\ Head(s) = s[1]
         /\ IsList(Tail(s))
         /\ \A i \in DOMAIN Tail(s) : i + 1 \in DOMAIN s /\ Tail(s)[i] = s[i + 1]
  <1> DEFINE S == ToSet(s)
             t == Tail(s)
  <1>1. /\ s \in Seq(S) /\ Len(s) \in Nat /\ DOMAIN s = 1 .. Len(s)
        /\ Len(s) # 0
    BY ListShape
  <1> HIDE DEF S
  <1>2. /\ Head(s) = s[1] /\ t \in Seq(S) /\ Len(t) = Len(s) - 1
        /\ \A i \in 1 .. Len(t) : t[i] = s[i + 1]
    BY <1>1, HeadTailProperties
  <1> HIDE DEF t
  <1>3. IsList(t)
    BY <1>2, SeqIsList
  <1>4. DOMAIN t = 1 .. Len(t)
    BY <1>3, ListShape
  <1>5. \A i \in 1 .. Len(t) : i + 1 \in 1 .. Len(s)
    BY <1>1, <1>2
  <1> QED BY <1>1, <1>2, <1>3, <1>4, <1>5 DEF t

LEMMA OneElement ==
  ASSUME NEW e
  PROVE  /\ IsList(<<e>>) /\ DOMAIN <<e>> = {1} /\ <<e>>[1] = e
         /\ IsList(<<>>) /\ DOMAIN <<>> = {}
  <1>1. <<e>> \in Seq({e}) /\ <<>> \in Seq({e}) /\ Len(<<e>>) = 1 /\ Len(<<>>) = 0
    OBVIOUS
  <1>2. IsList(<<e>>) /\ IsList(<<>>)
    BY <1>1, SeqIsList
  <1>3. DOMAIN <<e>> = 1 .. 1 /\ DOMAIN <<>> = 1 .. 0
    BY <1>1, <1>2, ListShape
  <1> QED BY <1>2, <1>3

\* g has the lists up to i put one after the other.
FlattensTo(g, seqs, n) ==
  g = [i \in 1 .. n |-> IF i = 1 THEN seqs[i] ELSE g[i - 1] \o seqs[i]]

LEMMA FlattensExist ==
  ASSUME NEW seqs, NEW n \in Nat
  PROVE  \E g : FlattensTo(g, seqs, n)
  <1> DEFINE bad == {k \in Nat : ~ \E g : FlattensTo(g, seqs, k)}
  <1>1. 0 \notin bad
    <2> DEFINE g == [i \in 1 .. 0 |-> <<>>]
    <2>1. g = [i \in 1 .. 0 |-> IF i = 1 THEN seqs[i] ELSE g[i - 1] \o seqs[i]]
      OBVIOUS
    <2> HIDE DEF g
    <2> QED BY <2>1 DEF FlattensTo
  <1>2. ASSUME NEW k \in Nat, k # 0, k - 1 \notin bad PROVE k \notin bad
    <2>1. k - 1 \in Nat /\ \A i \in 1 .. k : i \in 1 .. k - 1 \/ i = k
      BY <1>2
    <2>2. PICK g : FlattensTo(g, seqs, k - 1)
      BY <1>2, <2>1
    <2> DEFINE last == IF k = 1 THEN seqs[k] ELSE g[k - 1] \o seqs[k]
               h == [i \in 1 .. k |-> IF i = k THEN last ELSE g[i]]
    <2>3. ASSUME NEW i \in 1 .. k
          PROVE  h[i] = IF i = 1 THEN seqs[i] ELSE h[i - 1] \o seqs[i]
      <3>1. i # 1 => i - 1 \in 1 .. k /\ i - 1 # k
        BY <1>2
      <3>2. i # 1 => h[i - 1] = g[i - 1]
        BY <3>1
      <3>3. CASE i = k
        <4>1. h[i] = last
          BY <3>3
        <4> HIDE DEF h
        <4> QED BY <3>2, <3>3, <4>1
      <3>4. CASE i # k
        <4>1. i \in 1 .. k - 1
          BY <2>1, <3>4
        <4>2. g[i] = IF i = 1 THEN seqs[i] ELSE g[i - 1] \o seqs[i]
          BY <2>2, <4>1 DEF FlattensTo
        <4>3. h[i] = g[i]
          BY <3>4
        <4> HIDE DEF h
        <4> QED BY <3>2, <4>2, <4>3
      <3> QED BY <3>3, <3>4
    <2>4. h = [i \in 1 .. k |-> h[i]]
      OBVIOUS
    <2> HIDE DEF h
    <2>5. FlattensTo(h, seqs, k)
      BY <2>3, <2>4 DEF FlattensTo
    <2> QED BY <2>5
  <1>3. bad \subseteq Nat
    OBVIOUS
  <1>4. bad = {}
    <2> HIDE DEF bad
    <2> SUFFICES ASSUME bad # {} PROVE FALSE
      OBVIOUS
    <2>1. PICK k \in bad : \A m \in bad : k <= m
      BY <1>3, LeastNat
    <2>2. k \in Nat /\ k # 0
      BY <1>1, <1>3
    <2>3. k - 1 \in Nat /\ ~(k <= k - 1)
      BY <2>2
    <2> QED BY <1>2, <2>1, <2>2, <2>3
  <1> QED BY <1>4

\* All elements of a concatenation are elements of its parts.
LEMMA FlattenList ==
  ASSUME NEW seqs, IsList(seqs), NEW S,
         \A i \in DOMAIN seqs : IsList(seqs[i]) /\ ToSet(seqs[i]) \subseteq S
  PROVE  IsList(FlattenSeq(seqs)) /\ ToSet(FlattenSeq(seqs)) \subseteq S
  <1> DEFINE N == Len(seqs)
             flat == CHOOSE g : g = [i \in 1 .. Len(seqs) |->
                                       IF i = 1 THEN seqs[i] ELSE g[i - 1] \o seqs[i]]
             Right(k) == IsList(flat[k]) /\ ToSet(flat[k]) \subseteq S
             bad == {k \in 1 .. N : ~Right(k)}
  <1>1. N \in Nat /\ DOMAIN seqs = 1 .. N
    BY ListShape
  <1>2. CASE N = 0
    <2>1. FlattenSeq(seqs) = seqs
      BY <1>2 DEF FlattenSeq
    <2> QED BY <1>1, <1>2, <2>1 DEF ToSet
  <1>3. CASE N # 0
    <2>1. FlattenSeq(seqs) = flat[N]
      BY <1>3 DEF FlattenSeq
    <2>2. FlattensTo(flat, seqs, N)
      <3>1. \E g : FlattensTo(g, seqs, N)
        BY <1>1, FlattensExist
      <3> QED BY <3>1 DEF FlattensTo
    <2>3. \A i \in 1 .. N : flat[i] = IF i = 1 THEN seqs[i] ELSE flat[i - 1] \o seqs[i]
      <3> HIDE DEF flat
      <3> QED BY <2>2 DEF FlattensTo
    <2> HIDE DEF flat, N
    <2>4. ASSUME NEW k \in 1 .. N, k = 1 \/ Right(k - 1) PROVE Right(k)
      <3>1. IsList(seqs[k]) /\ ToSet(seqs[k]) \subseteq S
        BY <1>1
      <3>2. CASE k = 1
        BY <2>3, <3>1, <3>2
      <3>3. CASE k # 1
        <4> DEFINE s == flat[k - 1]
                   t == seqs[k]
                   u == s \o t
        <4>1. IsList(s) /\ ToSet(s) \subseteq S /\ flat[k] = u
          BY <2>3, <2>4, <3>3
        <4>2. IsList(u) /\ \A i \in DOMAIN u : u[i] \in ToSet(s) \cup ToSet(t)
          BY <3>1, <4>1, ConcatList
        <4> HIDE DEF s, t, u
        <4>3. ToSet(u) \subseteq S
          BY <3>1, <4>1, <4>2 DEF t, ToSet
        <4> QED BY <4>1, <4>2, <4>3
      <3> QED BY <3>2, <3>3
    <2>5. bad \subseteq Nat /\ \A k \in bad : k \in 1 .. N /\ ~Right(k)
      BY <1>1
    <2>6. \A k \in 1 .. N : Right(k) \/ k \in bad
      OBVIOUS
    <2>7. bad = {}
      <3>1. \A k \in 1 .. N : (k = 1 \/ k - 1 \in 1 .. N) /\ ~(k <= k - 1)
        BY <1>1
      <3> HIDE DEF bad, Right
      <3> SUFFICES ASSUME bad # {} PROVE FALSE
        OBVIOUS
      <3>2. PICK k \in bad : \A m \in bad : k <= m
        BY <2>5, LeastNat
      <3>3. k \in 1 .. N /\ ~Right(k)
        BY <2>5
      <3>4. k - 1 \notin bad
        BY <3>1, <3>2, <3>3
      <3>5. k = 1 \/ Right(k - 1)
        BY <2>6, <3>1, <3>3, <3>4
      <3> QED BY <2>4, <3>3, <3>5
    <2>8. N \in 1 .. N
      BY <1>1, <1>3
    <2> QED BY <2>1, <2>6, <2>7, <2>8
  <1> QED BY <1>2, <1>3

\* The elements of a set in any order.
LEMMA AnyOrder ==
  ASSUME NEW S, IsFiniteSet(S), NEW order \in SetToSeqs(S)
  PROVE  IsList(order) /\ \A i \in DOMAIN order : order[i] \in S
  <1>1. Cardinality(S) \in Nat /\ order \in [1 .. Cardinality(S) -> S]
    BY FS_CardinalityType DEF SetToSeqs
  <1>2. IsList(order)
    BY <1>1, ShapeIsList
  <1> QED BY <1>1, <1>2

-----------------------------------------------------------------------------
(* Numbers in order                                                        *)

LEMMA SortedIsList ==
  ASSUME NEW S, IsFiniteSet(S)
  PROVE  IsList(SortedIds(S)) /\ DOMAIN SortedIds(S) = 1 .. Cardinality(S)
  <1> DEFINE s == SortedIds(S)
  <1>1. Cardinality(S) \in Nat
    BY FS_CardinalityType
  <1>2. s = [i \in 1 .. Cardinality(S) |-> s[i]]
    BY DEF SortedIds
  <1> HIDE DEF s
  <1>3. IsList(s) /\ DOMAIN s = 1 .. Cardinality(S)
    BY <1>1, <1>2, FunctionIsList
  <1> QED BY <1>3 DEF s

LEMMA SortedProperties ==
  ASSUME NEW S, S \subseteq Nat, IsFiniteSet(S)
  PROVE  /\ \A k \in 1 .. Cardinality(S) : SortedIds(S)[k] \in S
         /\ \A i \in S : \E k \in 1 .. Cardinality(S) : SortedIds(S)[k] = i
  <1> DEFINE rank == [i \in S |-> Cardinality({j \in S : j <= i})]
             N == Cardinality(S)
  <1>1. IsFiniteSet(S) /\ N \in Nat
    BY FS_CardinalityType
  <1>2. ASSUME NEW i \in S
        PROVE  /\ IsFiniteSet({j \in S : j <= i})
               /\ rank[i] \in 1 .. N
    <2> DEFINE T == {j \in S : j <= i}
    <2>1. T \in SUBSET S /\ i \in T
      OBVIOUS
    <2> HIDE DEF T
    <2>2. IsFiniteSet(T) /\ Cardinality(T) <= N
      BY <1>1, <2>1, FS_Subset
    <2>3. Cardinality(T) \in Nat /\ Cardinality(T) # 0
      BY <2>1, <2>2, FS_CardinalityType, FS_EmptySet
    <2> QED BY <1>1, <2>2, <2>3 DEF T
  <1>3. ASSUME NEW i \in S, NEW k \in S, i < k PROVE rank[i] < rank[k]
    <2> DEFINE T == {j \in S : j <= i}
               U == {j \in S : j <= k}
    <2>1. T \in SUBSET U /\ k \in U /\ k \notin T
      <3>1. i \in Int /\ k \in Int /\ S \subseteq Int
        OBVIOUS
      <3>2. \A j \in S : j <= i => j <= k
        BY <1>3, <3>1
      <3>3. k <= k /\ ~(k <= i)
        BY <1>3, <3>1
      <3> QED BY <3>2, <3>3
    <2>2. IsFiniteSet(T) /\ IsFiniteSet(U)
      BY <1>2
    <2>3. rank[i] = Cardinality(T) /\ rank[k] = Cardinality(U)
      OBVIOUS
    <2> HIDE DEF T, U, rank
    <2>4. Cardinality(T) <= Cardinality(U) /\ (Cardinality(U) = Cardinality(T) => U = T)
      BY <2>1, <2>2, FS_Subset
    <2>5. Cardinality(T) \in Nat /\ Cardinality(U) \in Nat
      BY <2>2, FS_CardinalityType
    <2> QED BY <2>1, <2>3, <2>4, <2>5
  <1>4. rank \in [S -> 1 .. N]
    BY <1>2
  <1>5. \A i, k \in S : rank[i] = rank[k] => i = k
    <2> SUFFICES ASSUME NEW i \in S, NEW k \in S, i # k PROVE rank[i] # rank[k]
      OBVIOUS
    <2>1. i < k \/ k < i
      OBVIOUS
    <2>2. rank[i] \in Int /\ rank[k] \in Int
      BY <1>4
    <2> HIDE DEF rank
    <2> QED BY <1>3, <2>1, <2>2
  <1>6. \A m \in 1 .. N : \E i \in S : rank[i] = m
    <2> HIDE DEF rank, N
    <2>1. rank \in Injection(S, 1 .. N)
      BY <1>4, <1>5, Fun_IsInj
    <2>2. IsFiniteSet(1 .. N) /\ Cardinality(1 .. N) = N
      BY <1>1, FS_Interval
    <2>3. rank \in Surjection(S, 1 .. N)
      BY <2>1, <2>2, FS_Injection DEF N
    <2> QED BY <2>3 DEF Surjection
  <1> DEFINE at(m) == CHOOSE i \in S : Cardinality({j \in S : j <= i}) = m
  <1>7. \A m \in 1 .. N : at(m) \in S /\ rank[at(m)] = m
    BY <1>6
  <1>8. \A m \in 1 .. N : SortedIds(S)[m] = at(m)
    BY DEF SortedIds
  <1> HIDE DEF at, N, rank
  <1>9. \A i \in S : rank[i] \in 1 .. N /\ at(rank[i]) = i
    BY <1>4, <1>5, <1>7
  <1> QED BY <1>7, <1>8, <1>9 DEF N

LEMMA FiniteImage ==
  ASSUME NEW S, IsFiniteSet(S), NEW f
  PROVE  IsFiniteSet({f[x] : x \in S})
  <1> DEFINE T == {f[x] : x \in S}
             g == [x \in S |-> f[x]]
  <1>1. g \in Surjection(S, T)
    BY DEF Surjection
  <1> HIDE DEF T, g
  <1>2. IsFiniteSet(T)
    BY <1>1, FS_Surjection
  <1> QED BY <1>2 DEF T

LEMMA FiniteIds ==
  ASSUME NEW rows, IsFiniteSet(rows)
  PROVE  IsFiniteSet({x.id : x \in rows})
  <1> DEFINE f == [x \in rows |-> x.id]
  <1>1. {x.id : x \in rows} = {f[x] : x \in rows}
    OBVIOUS
  <1> HIDE DEF f
  <1>2. IsFiniteSet({f[x] : x \in rows})
    BY FiniteImage
  <1> QED BY <1>1, <1>2

LEMMA InOrderIsList ==
  ASSUME NEW rows, IsFiniteSet(rows)
  PROVE  IsList(InOrder(rows))
  <1> DEFINE ids == {x.id : x \in rows}
             s == InOrder(rows)
  <1>1. IsFiniteSet(ids)
    BY FiniteIds
  <1> HIDE DEF ids
  <1>2. IsList(SortedIds(ids)) /\ DOMAIN SortedIds(ids) = 1 .. Cardinality(ids)
        /\ Cardinality(ids) \in Nat
    BY <1>1, SortedIsList, FS_CardinalityType
  <1>3. s = [i \in 1 .. Cardinality(ids) |-> s[i]]
    <2>1. s = ForEach(SortedIds(ids), LAMBDA id : CHOOSE x \in rows : x.id = id)
      BY DEF InOrder, ids
    <2> QED BY <1>2, <2>1 DEF ForEach
  <1> HIDE DEF s
  <1>4. IsList(s)
    BY <1>2, <1>3, FunctionIsList
  <1> QED BY <1>4 DEF s

-----------------------------------------------------------------------------
(* What every command may rely on.  p is a portal, old the one the run has *)
(* begun with, staff the contacts that must keep their employer.           *)

\* Of two rows of a contact that say the same the one GroupContactInfoRows keeps.
Better(x, q) ==
  /\ x.key = q.key
  /\ IF x.primary THEN q.primary => x.id < q.id ELSE ~q.primary /\ x.id < q.id

\* A row that is going to be deleted, where it is still there: the contact has a better one.
Redundant(p, c, v) ==
  /\ c \in Given(p) /\ v \in Given(p)
  /\ c \in DOMAIN p.contacts =>
       \A d \in DOMAIN p.contacts : \A q \in RowsOf(p, d) :
          q.id = v => d = c /\ \E x \in RowsOf(p, c) : Better(x, q)

\* A request that may be under way.
Good(p, staff, r) ==
  /\ IsRequest(r)
  /\ r.op # "drop contact"
  /\ r.op = "merge" => r.at # r.val
  /\ r.op = "drop row" => Redundant(p, r.at, r.val)
  /\ r.op = "put person" => r.val.org # NoOne \/ r.at \notin staff \cap DOMAIN p.contacts

GoodScript(p, staff, script) ==
  IsList(script) /\ \A r \in ToSet(script) : Good(p, staff, r)

HeirIn(p, c) == IF c \in DOMAIN p.into THEN p.into[c] ELSE c

InfoKept(old, p) ==
  \A c \in DOMAIN old.contacts :
    /\ c \in Given(p)
    /\ HeirIn(p, c) \in DOMAIN p.contacts
    /\ \A q \in old.contacts[c].rows : \E x \in RowsOf(p, HeirIn(p, c)) : x.key = q.key

StaffKept(p, staff) ==
  /\ staff \subseteq Given(p)
  /\ \A c \in staff \cap DOMAIN p.contacts : p.contacts[c].org # NoOne

\* Nothing that the requests under way rely on gets lost from p to q.
Safer(p, q, staff) ==
  /\ p.next <= q.next
  /\ \A c, v : Redundant(p, c, v) => Redundant(q, c, v)
  /\ staff \cap DOMAIN q.contacts \subseteq DOMAIN p.contacts

Outcome(old, p, q, staff) ==
  IsPortal(q) /\ InfoKept(old, q) /\ StaffKept(q, staff) /\ Safer(p, q, staff)

LEMMA GoodStays ==
  ASSUME NEW p, NEW q, NEW staff, Safer(p, q, staff), NEW r, Good(p, staff, r)
  PROVE  Good(q, staff, r)
  BY DEF Safer, Good

LEMMA BetterRows ==
  ASSUME NEW ids, ids \subseteq Nat, NEW x, NEW y, NEW z,
         IsRow(x, ids), IsRow(y, ids), IsRow(z, ids)
  PROVE  /\ Better(x, y) /\ Better(y, z) => Better(x, z)
         /\ ~Better(x, x)
  <1>1. x.id \in Nat /\ y.id \in Nat /\ z.id \in Nat
    BY DEF IsRow
  <1>2. ASSUME Better(x, y), Better(y, z) PROVE Better(x, z)
    BY <1>1, <1>2 DEF Better
  <1>3. ~Better(x, x)
    BY <1>1 DEF Better
  <1> QED BY <1>2, <1>3

-----------------------------------------------------------------------------
(* Requests                                                                *)

\* All requests but a merge and the deletion of a row leave the rows where they are.
\* One of them adds row to the contact at.
LEMMA RowsStay ==
  ASSUME NEW p, IsPortal(p), NEW old, InfoKept(old, p), NEW staff, StaffKept(p, staff),
         NEW q, HasNumbers(q), HasDeals(q), p.next <= q.next, q.into = p.into,
         DOMAIN p.contacts \subseteq DOMAIN q.contacts,
         \A c \in DOMAIN q.contacts : DOMAIN q.contacts[c] = ContactFields,
         \A c \in DOMAIN q.contacts \ DOMAIN p.contacts :
            c = p.next /\ RowsOf(q, c) = {},
         \A c \in DOMAIN p.contacts : RowsOf(p, c) \subseteq RowsOf(q, c),
         NEW at, NEW row,
         \A c \in DOMAIN p.contacts : \A x \in RowsOf(q, c) \ RowsOf(p, c) :
            c = at /\ x = row /\ IsRow(row, Given(q)) /\ row.id = p.next,
         \A c \in staff \cap DOMAIN p.contacts : q.contacts[c].org # NoOne
  PROVE  Outcome(old, p, q, staff)
  <1>1. /\ p.next \in Nat /\ q.next \in Nat /\ Given(p) \subseteq Given(q)
        /\ p.next \notin Given(p) /\ Given(q) \subseteq Nat
    BY DEF IsPortal, HasNumbers, Given
  <1>2. \A c \in DOMAIN p.contacts : c \in Given(p) /\ c # p.next
    BY <1>1 DEF IsPortal, HasNumbers
  <1>3. \A c \in DOMAIN p.contacts : \A x \in RowsOf(p, c) :
           IsRow(x, Given(p)) /\ IsRow(x, Given(q)) /\ x.id # p.next
    BY <1>1 DEF IsPortal, HasContacts, IsRow
  <1>4. \A c \in DOMAIN q.contacts : \A x \in RowsOf(q, c) :
           /\ c \in DOMAIN p.contacts
           /\ \/ x \in RowsOf(p, c)
              \/ c = at /\ x = row /\ row.id = p.next /\ IsRow(row, Given(q))
    OBVIOUS
  <1>5. HasContacts(q)
    <2>1. \A c \in DOMAIN q.contacts : \A x \in RowsOf(q, c) : IsRow(x, Given(q))
      BY <1>3, <1>4
    <2>2. ASSUME NEW c \in DOMAIN q.contacts, NEW d \in DOMAIN q.contacts,
                 NEW x \in RowsOf(q, c), NEW y \in RowsOf(q, d), x.id = y.id
          PROVE  c = d /\ x = y
      <3>1. CASE x \in RowsOf(p, c) /\ y \in RowsOf(p, d)
        BY <1>4, <2>2, <3>1 DEF IsPortal, HasContacts
      <3>2. CASE x \notin RowsOf(p, c)
        BY <1>3, <1>4, <2>2, <3>2
      <3>3. CASE y \notin RowsOf(p, d)
        BY <1>3, <1>4, <2>2, <3>3
      <3> QED BY <3>1, <3>2, <3>3
    <2>3. DOMAIN q.into \subseteq Given(q) \ DOMAIN q.contacts
      BY <1>1 DEF IsPortal, HasContacts
    <2> QED BY <2>1, <2>2, <2>3 DEF HasContacts
  <1>6. InfoKept(old, q)
    <2>1. \A c : HeirIn(q, c) = HeirIn(p, c)
      BY DEF HeirIn
    <2> QED BY <1>1, <2>1 DEF InfoKept
  <1>7. StaffKept(q, staff)
    BY <1>1 DEF StaffKept
  <1>8. ASSUME NEW c, NEW v, Redundant(p, c, v) PROVE Redundant(q, c, v)
    <2>1. c \in Given(q) /\ v \in Given(q) /\ c # p.next /\ v # p.next
      BY <1>1, <1>8 DEF Redundant
    <2>2. ASSUME c \in DOMAIN q.contacts, NEW d \in DOMAIN q.contacts,
                 NEW x \in RowsOf(q, d), x.id = v
          PROVE  d = c /\ \E y \in RowsOf(q, c) : Better(y, x)
      <3>1. c \in DOMAIN p.contacts /\ d \in DOMAIN p.contacts /\ x \in RowsOf(p, d)
        BY <1>4, <2>1, <2>2
      <3> QED BY <1>8, <2>2, <3>1 DEF Redundant
    <2> QED BY <2>1, <2>2 DEF Redundant
  <1>9. staff \cap DOMAIN q.contacts \subseteq DOMAIN p.contacts
    BY <1>1 DEF StaffKept
  <1> QED BY <1>5, <1>6, <1>7, <1>8, <1>9 DEF Outcome, IsPortal, Safer

LEMMA DropRowOutcome ==
  ASSUME NEW p, IsPortal(p), NEW old, InfoKept(old, p), NEW staff, StaffKept(p, staff),
         NEW at \in DOMAIN p.contacts, NEW v, Redundant(p, at, v),
         NEW q, q = [p EXCEPT !.contacts[at].rows = {x \in @ : x.id # v}]
  PROVE  Outcome(old, p, q, staff)
  <1>0. /\ DOMAIN q = DOMAIN p /\ q.next = p.next /\ q.into = p.into
        /\ q.deals = p.deals /\ q.tasks = p.tasks
    BY DEF IsPortal, HasNumbers
  <1>3. /\ q.contacts = [p.contacts EXCEPT ![at].rows = {x \in @ : x.id # v}]
    BY DEF IsPortal, HasNumbers
  <1>4. \A c \in DOMAIN p.contacts : DOMAIN p.contacts[c] = ContactFields
    BY DEF IsPortal, HasContacts
  <1>5. /\ DOMAIN q.contacts = DOMAIN p.contacts
        /\ \A c \in DOMAIN p.contacts : /\ DOMAIN q.contacts[c] = ContactFields
                                        /\ q.contacts[c].org = p.contacts[c].org
                                        /\ c # at => RowsOf(q, c) = RowsOf(p, c)
        /\ RowsOf(q, at) = {x \in RowsOf(p, at) : x.id # v}
    BY <1>3, <1>4 DEF ContactFields, RowsOf
  <1>6. Given(q) = Given(p) /\ Given(p) \subseteq Nat
    <2>1. p.next \in Nat
      BY DEF IsPortal, HasNumbers
    <2>2. q.next = p.next
      BY <1>0
    <2> QED BY <2>1, <2>2 DEF Given
  <1>7. \A c \in DOMAIN p.contacts : RowsOf(q, c) \subseteq RowsOf(p, c)
    BY <1>5
  <1>8. IsPortal(q)
    <2>1. HasNumbers(q)
      <3>1. HasNumbers(p) /\ DOMAIN q.contacts = DOMAIN p.contacts
        BY <1>5 DEF IsPortal
      <3> QED BY <1>0, <1>6, <3>1 DEF HasNumbers
    <2>2. HasContacts(q)
      <3>1. HasContacts(p) /\ DOMAIN q.contacts = DOMAIN p.contacts /\ q.into = p.into
        BY <1>0, <1>5 DEF IsPortal
      <3>2. \A c \in DOMAIN q.contacts :
               DOMAIN q.contacts[c] = ContactFields /\ RowsOf(q, c) \subseteq RowsOf(p, c)
        BY <1>5, <1>7
      <3>3. \A c \in DOMAIN q.contacts : \A x \in RowsOf(q, c) : IsRow(x, Given(q))
        BY <1>6, <3>1, <3>2 DEF HasContacts
      <3>4. \A c, d \in DOMAIN q.contacts : \A x \in RowsOf(q, c), y \in RowsOf(q, d) :
               x.id = y.id => c = d /\ x = y
        BY <3>1, <3>2 DEF HasContacts
      <3>5. DOMAIN q.into \subseteq Given(q) \ DOMAIN q.contacts
        BY <1>6, <3>1 DEF HasContacts
      <3> QED BY <3>2, <3>3, <3>4, <3>5 DEF HasContacts
    <2>3. HasDeals(q)
      BY <1>0, <1>6 DEF IsPortal, HasDeals
    <2> QED BY <2>1, <2>2, <2>3 DEF IsPortal
  <1>9. \A c \in DOMAIN p.contacts : \A x \in RowsOf(p, c) :
           /\ IsRow(x, Given(p))
           /\ x.id # v => x \in RowsOf(q, c)
           /\ x.id = v => c = at /\ \E y \in RowsOf(p, at) : Better(y, x)
    BY <1>5 DEF Redundant, IsPortal, HasContacts
  <1>10. \A x, y \in RowsOf(p, at) : Better(y, x) /\ x.id = v => y \in RowsOf(q, at)
    <2>1. ASSUME NEW x \in RowsOf(p, at), NEW y \in RowsOf(p, at), Better(y, x), x.id = v
          PROVE  y.id # v
      <3>1. y.id = v => x = y
        BY <2>1 DEF IsPortal, HasContacts
      <3>2. ~Better(x, x)
        BY <1>6, <1>9, BetterRows
      <3> QED BY <2>1, <3>1, <3>2
    <2> QED BY <1>5, <2>1
  <1>11. InfoKept(old, q)
    <2>1. \A c : HeirIn(q, c) = HeirIn(p, c)
      BY <1>0 DEF HeirIn
    <2>2. ASSUME NEW c \in DOMAIN p.contacts, NEW x \in RowsOf(p, c)
          PROVE  \E y \in RowsOf(q, c) : y.key = x.key
      <3>1. CASE x.id # v
        BY <1>9, <3>1
      <3>2. CASE x.id = v
        <4>1. PICK y \in RowsOf(p, at) : Better(y, x) /\ c = at
          BY <1>9, <3>2
        <4> QED BY <1>10, <3>2, <4>1 DEF Better
      <3> QED BY <3>1, <3>2
    <2>3. ASSUME NEW c \in DOMAIN old.contacts
          PROVE  /\ c \in Given(q) /\ HeirIn(q, c) \in DOMAIN q.contacts
                 /\ \A z \in old.contacts[c].rows :
                       \E y \in RowsOf(q, HeirIn(q, c)) : y.key = z.key
      <3> DEFINE h == HeirIn(p, c)
      <3>1. /\ c \in Given(p) /\ h \in DOMAIN p.contacts
            /\ \A z \in old.contacts[c].rows : \E x \in RowsOf(p, h) : x.key = z.key
        BY DEF InfoKept
      <3>2. HeirIn(q, c) = h
        BY <2>1
      <3> HIDE DEF h
      <3>3. \A z \in old.contacts[c].rows : \E y \in RowsOf(q, h) : y.key = z.key
        <4> TAKE z \in old.contacts[c].rows
        <4>1. PICK x \in RowsOf(p, h) : x.key = z.key
          BY <3>1
        <4>2. PICK y \in RowsOf(q, h) : y.key = x.key
          BY <2>2, <3>1
        <4> QED BY <4>1, <4>2
      <3> QED BY <1>5, <1>6, <3>1, <3>2, <3>3
    <2> QED BY <2>3 DEF InfoKept
  <1>12. StaffKept(q, staff)
    BY <1>5, <1>6 DEF StaffKept
  <1>13. ASSUME NEW c, NEW w, Redundant(p, c, w) PROVE Redundant(q, c, w)
    <2>1. ASSUME c \in DOMAIN p.contacts, NEW d \in DOMAIN p.contacts,
                 NEW x \in RowsOf(q, d), x.id = w
          PROVE  d = c /\ \E y \in RowsOf(q, c) : Better(y, x)
      <3>1. x \in RowsOf(p, d)
        BY <1>7
      <3>2. PICK y \in RowsOf(p, c) : d = c /\ Better(y, x)
        BY <1>13, <2>1, <3>1 DEF Redundant
      <3>3. CASE y.id # v
        BY <1>9, <2>1, <3>2, <3>3
      <3>4. CASE y.id = v
        <4>1. PICK z \in RowsOf(p, at) : Better(z, y) /\ c = at
          BY <1>9, <2>1, <3>4
        <4>2. z \in RowsOf(q, at)
          BY <1>10, <3>2, <3>4, <4>1
        <4>3. IsRow(x, Given(p)) /\ IsRow(y, Given(p)) /\ IsRow(z, Given(p))
          BY <1>9, <2>1, <3>1
        <4>4. Better(z, x)
          BY <1>6, <3>2, <4>1, <4>3, BetterRows
        <4> QED BY <3>2, <4>1, <4>2, <4>4
      <3> QED BY <3>3, <3>4
    <2> QED BY <1>5, <1>6, <1>13, <2>1 DEF Redundant
  <1>14. staff \cap DOMAIN q.contacts \subseteq DOMAIN p.contacts /\ p.next <= q.next
    <2>1. DOMAIN q.contacts = DOMAIN p.contacts
      BY <1>5
    <2>2. p.next \in Nat
      BY DEF IsPortal, HasNumbers
    <2>3. q.next = p.next
      BY <1>0
    <2> QED BY <2>1, <2>2, <2>3
  <1> QED BY <1>8, <1>11, <1>12, <1>13, <1>14 DEF Outcome, Safer


\* The rows of a merged contact are rows of the other one from then on.
LEMMA MergeOutcome ==
  ASSUME NEW p, IsPortal(p), NEW old, InfoKept(old, p), NEW staff, StaffKept(p, staff),
         NEW from \in DOMAIN p.contacts, NEW to \in DOMAIN p.contacts, from # to
  PROVE  Outcome(old, p, MergeInto(p, from, to), staff)
  <1> DEFINE q == MergeInto(p, from, to)
             contacts == [c \in DOMAIN p.contacts \ {from} |-> MergedContact(p, from, to, c)]
             deals == [d \in DOMAIN p.deals |-> MergedDeal(p, from, to, d)]
             into == Put([i \in DOMAIN p.into |-> Moved(from, to, p.into[i])], from, to)
  <1>0. "contacts" \in DOMAIN p /\ "deals" \in DOMAIN p /\ "into" \in DOMAIN p
    BY DEF IsPortal, HasNumbers
  <1>1. /\ DOMAIN q = DOMAIN p /\ q.next = p.next /\ q.tasks = p.tasks
        /\ q.contacts = contacts /\ q.deals = deals /\ q.into = into
    BY <1>0 DEF MergeInto
  <1> HIDE DEF q, contacts, deals, into
  <1>2. DOMAIN q.contacts = DOMAIN p.contacts \ {from} /\ DOMAIN q.deals = DOMAIN p.deals
    BY <1>1 DEF contacts, deals
  <1>3. /\ DOMAIN q.into = DOMAIN p.into \cup {from}
        /\ \A c \in DOMAIN p.into \cup {from} :
              q.into[c] = IF c = from THEN to ELSE Moved(from, to, p.into[c])
    BY <1>1 DEF into, Put
  <1>4. \A c \in DOMAIN p.contacts : DOMAIN p.contacts[c] = ContactFields
    BY DEF IsPortal, HasContacts
  <1>5. \A d \in DOMAIN p.deals : DOMAIN p.deals[d] = DealFields
    BY DEF IsPortal, HasDeals
  <1>6. \A c \in DOMAIN q.contacts :
           /\ DOMAIN q.contacts[c] = ContactFields
           /\ q.contacts[c].org = Moved(from, to, p.contacts[c].org)
           /\ RowsOf(q, c) = IF c = to THEN RowsOf(p, to) \cup RowsOf(p, from) ELSE RowsOf(p, c)
    <2> TAKE c \in DOMAIN q.contacts
    <2> DEFINE e == p.contacts[c]
               more == p.contacts[from].rows
    <2>1. q.contacts[c] = [e EXCEPT !.org  = Moved(from, to, @),
                                    !.rows = IF c = to THEN @ \cup more ELSE @]
      BY <1>1, <1>2 DEF contacts, MergedContact
    <2>2. DOMAIN e = ContactFields
      BY <1>4, <1>2
    <2>3. RowsOf(p, c) = e.rows /\ RowsOf(p, from) = more
      BY DEF RowsOf
    <2> HIDE DEF e, more
    <2>4. /\ DOMAIN q.contacts[c] = ContactFields
          /\ q.contacts[c].org = Moved(from, to, e.org)
          /\ q.contacts[c].rows = IF c = to THEN e.rows \cup more ELSE e.rows
      BY <2>1, <2>2 DEF ContactFields
    <2> QED BY <2>3, <2>4 DEF RowsOf, e
  <1>7. \A d \in DOMAIN q.deals : /\ DOMAIN q.deals[d] = DealFields
                                  /\ q.deals[d].members = {Moved(from, to, m) : m \in p.deals[d].members}
    <2> TAKE d \in DOMAIN q.deals
    <2> DEFINE e == p.deals[d]
               ms == {Moved(from, to, m) : m \in e.members}
    <2>1. q.deals[d] = [e EXCEPT !.members = ms]
      BY <1>1, <1>2 DEF deals, MergedDeal
    <2>2. DOMAIN e = DealFields
      BY <1>5, <1>2
    <2> HIDE DEF e, ms
    <2>3. DOMAIN q.deals[d] = DealFields /\ q.deals[d].members = ms
      BY <2>1, <2>2 DEF DealFields
    <2> QED BY <2>3 DEF e, ms
  <1>8. Given(q) = Given(p)
    BY <1>1 DEF Given
  <1>9. from \in Given(p) /\ to \in Given(p) /\ to \in DOMAIN q.contacts
    BY <1>2 DEF IsPortal, HasNumbers
  <1>10. HasNumbers(q)
    <2>1. HasNumbers(p)
      BY DEF IsPortal
    <2>2. /\ DOMAIN q = DOMAIN p /\ q.next = p.next /\ q.tasks = p.tasks
          /\ DOMAIN q.contacts \subseteq DOMAIN p.contacts /\ DOMAIN q.deals = DOMAIN p.deals
      BY <1>1, <1>2
    <2> QED BY <1>8, <2>1, <2>2 DEF HasNumbers
  <1>11. HasDeals(q)
    <2>1. \A d \in DOMAIN p.deals : p.deals[d].members \subseteq Given(p)
      BY DEF IsPortal, HasDeals
    <2>2. DOMAIN q.deals = DOMAIN p.deals
      BY <1>2
    <2> QED BY <1>7, <1>8, <1>9, <2>1, <2>2 DEF HasDeals, Moved
  <1>12. /\ \A c \in DOMAIN q.contacts : c \in DOMAIN p.contacts /\ c # from
         /\ \A c \in DOMAIN q.contacts : \A x \in RowsOf(q, c) :
               x \in RowsOf(p, c) \/ (c = to /\ x \in RowsOf(p, from))
         /\ \A c \in DOMAIN q.contacts : RowsOf(p, c) \subseteq RowsOf(q, c)
         /\ RowsOf(p, from) \subseteq RowsOf(q, to)
    BY <1>6, <1>9, <1>2
  <1>13. /\ \A c \in DOMAIN p.contacts : \A x \in RowsOf(p, c) : IsRow(x, Given(p))
         /\ \A c, d \in DOMAIN p.contacts : \A x \in RowsOf(p, c), y \in RowsOf(p, d) :
               x.id = y.id => c = d /\ x = y
         /\ DOMAIN p.into \subseteq Given(p) \ DOMAIN p.contacts
    BY DEF IsPortal, HasContacts
  <1>14. HasContacts(q)
    <2>1. \A c \in DOMAIN q.contacts : \A x \in RowsOf(q, c) : IsRow(x, Given(q))
      BY <1>8, <1>12, <1>13
    <2>2. \A c, d \in DOMAIN q.contacts : \A x \in RowsOf(q, c), y \in RowsOf(q, d) :
             x.id = y.id => c = d /\ x = y
      BY <1>12, <1>13
    <2>3. DOMAIN q.into \subseteq Given(q) \ DOMAIN q.contacts
      BY <1>3, <1>8, <1>9, <1>13, <1>2
    <2> QED BY <1>6, <2>1, <2>2, <2>3 DEF HasContacts
  <1>15. InfoKept(old, q)
    <2>1. \A c : HeirIn(p, c) \in DOMAIN p.contacts => HeirIn(q, c) = Moved(from, to, HeirIn(p, c))
      <3> TAKE c
      <3>1. from \notin DOMAIN p.into
        BY <1>13
      <3>2. CASE c = from
        BY <1>3, <3>1, <3>2 DEF HeirIn, Moved
      <3>3. CASE c # from /\ c \in DOMAIN p.into
        BY <1>3, <3>3 DEF HeirIn
      <3>4. CASE c # from /\ c \notin DOMAIN p.into
        BY <1>3, <3>4 DEF HeirIn, Moved
      <3> QED BY <3>2, <3>3, <3>4
    <2>2. \A h \in DOMAIN p.contacts : Moved(from, to, h) \in DOMAIN q.contacts
                                       /\ RowsOf(p, h) \subseteq RowsOf(q, Moved(from, to, h))
      BY <1>9, <1>12, <1>2 DEF Moved
    <2> QED BY <1>8, <2>1, <2>2 DEF InfoKept
  <1>16. StaffKept(q, staff)
    <2>1. 0 \notin Given(p)
      BY DEF Given, IsPortal, HasNumbers
    <2>2. to # NoOne
      BY <1>9, <2>1 DEF NoOne
    <2>3. \A c \in staff \cap DOMAIN q.contacts : q.contacts[c].org # NoOne
      BY <1>6, <1>12, <2>2 DEF StaffKept, Moved
    <2> QED BY <1>8, <2>3 DEF StaffKept
  <1>17. ASSUME NEW c, NEW v, Redundant(p, c, v) PROVE Redundant(q, c, v)
    <2>1. ASSUME c \in DOMAIN q.contacts, NEW d \in DOMAIN q.contacts,
                 NEW x \in RowsOf(q, d), x.id = v
          PROVE  d = c /\ \E y \in RowsOf(q, c) : Better(y, x)
      <3>1. PICK e \in DOMAIN p.contacts : x \in RowsOf(p, e) /\ e \in {d, from}
        BY <1>12
      <3>2. e = c /\ \E y \in RowsOf(p, c) : Better(y, x)
        BY <1>12, <1>17, <2>1, <3>1 DEF Redundant
      <3>3. e = d
        BY <1>12, <2>1, <3>1, <3>2
      <3> QED BY <1>12, <3>2, <3>3
    <2> QED BY <1>8, <1>17, <2>1 DEF Redundant
  <1>18. staff \cap DOMAIN q.contacts \subseteq DOMAIN p.contacts /\ p.next <= q.next
    <2>1. p.next \in Nat /\ q.next = p.next
      BY <1>1 DEF IsPortal, HasNumbers
    <2> QED BY <1>12, <2>1
  <1> QED BY <1>10, <1>11, <1>14, <1>15, <1>16, <1>17, <1>18 DEF Outcome, IsPortal, Safer, q

\* Contacts keep their rows, and staff its employers; nothing is added.
LEMMA NothingNew ==
  ASSUME NEW p, IsPortal(p), NEW old, InfoKept(old, p), NEW staff, StaffKept(p, staff),
         NEW q, DOMAIN q = DOMAIN p, q.next = p.next, q.into = p.into,
         DOMAIN q.contacts = DOMAIN p.contacts,
         \A c \in DOMAIN p.contacts : /\ DOMAIN q.contacts[c] = ContactFields
                                      /\ RowsOf(q, c) = RowsOf(p, c),
         \A c \in staff \cap DOMAIN p.contacts : q.contacts[c].org # NoOne,
         DOMAIN q.deals \subseteq DOMAIN p.deals, DOMAIN q.tasks \subseteq DOMAIN p.tasks,
         \A d \in DOMAIN q.deals : /\ DOMAIN q.deals[d] = DealFields
                                   /\ q.deals[d].members \subseteq Given(p)
  PROVE  Outcome(old, p, q, staff)
  <1>1. p.next \in Nat /\ q.next \in Nat /\ p.next <= q.next /\ Given(q) = Given(p)
    BY DEF IsPortal, HasNumbers, Given
  <1>2. HasNumbers(q)
    BY <1>1 DEF IsPortal, HasNumbers
  <1>3. HasDeals(q)
    BY <1>1 DEF HasDeals
  <1>4. /\ \A c \in DOMAIN q.contacts \ DOMAIN p.contacts : c = p.next /\ RowsOf(q, c) = {}
        /\ \A c \in DOMAIN p.contacts : RowsOf(p, c) \subseteq RowsOf(q, c)
        /\ \A c \in DOMAIN p.contacts : \A x \in RowsOf(q, c) \ RowsOf(p, c) :
              c = 0 /\ x = 0 /\ IsRow(0, Given(q)) /\ 0.id = p.next
    OBVIOUS
  <1> QED BY <1>1, <1>2, <1>3, <1>4, RowsStay

LEMMA SameContacts ==
  ASSUME NEW p, IsPortal(p), NEW old, InfoKept(old, p), NEW staff, StaffKept(p, staff),
         NEW q, DOMAIN q = DOMAIN p, q.next = p.next, q.into = p.into,
         q.contacts = p.contacts,
         DOMAIN q.deals \subseteq DOMAIN p.deals, DOMAIN q.tasks \subseteq DOMAIN p.tasks,
         \A d \in DOMAIN q.deals : /\ DOMAIN q.deals[d] = DealFields
                                   /\ q.deals[d].members \subseteq Given(p)
  PROVE  Outcome(old, p, q, staff)
  <1>1. \A c \in DOMAIN p.contacts : /\ DOMAIN q.contacts[c] = ContactFields
                                     /\ RowsOf(q, c) = RowsOf(p, c)
    BY DEF IsPortal, HasContacts, RowsOf
  <1>2. \A c \in staff \cap DOMAIN p.contacts : q.contacts[c].org # NoOne
    BY DEF StaffKept
  <1> QED BY <1>1, <1>2, NothingNew

LEMMA PortalFields ==
  ASSUME NEW p, IsPortal(p)
  PROVE  /\ DOMAIN p = {"contacts", "deals", "tasks", "tags", "into", "next"}
         /\ \A c \in DOMAIN p.contacts : DOMAIN p.contacts[c] = ContactFields
         /\ \A d \in DOMAIN p.deals : /\ DOMAIN p.deals[d] = DealFields
                                      /\ p.deals[d].members \subseteq Given(p)
  BY DEF IsPortal, HasNumbers, HasContacts, HasDeals

\* Requests that leave contacts alone: q is the portal with other deals, tasks or tags.
LEMMA DealOutcomes ==
  ASSUME NEW p, IsPortal(p), NEW old, InfoKept(old, p), NEW staff, StaffKept(p, staff),
         NEW id \in DOMAIN p.deals, NEW v, NEW q,
         \/ q = [p EXCEPT !.deals = Drop(@, {id})]
         \/ v \in DOMAIN p.contacts /\ q = [p EXCEPT !.deals[id].members = @ \cup {v}]
         \/ q = [p EXCEPT !.deals[id].members = @ \ {v}]
         \/ DOMAIN v = DealFields /\ q = PutDeal(p, id, v)
  PROVE  Outcome(old, p, q, staff)
  <1> USE PortalFields
  <1>1. CASE q = [p EXCEPT !.deals = Drop(@, {id})]
    <2> DEFINE deals == Drop(p.deals, {id})
    <2>1. /\ DOMAIN deals \subseteq DOMAIN p.deals
          /\ \A d \in DOMAIN deals : deals[d] = p.deals[d]
      BY DEF Drop, Restrict
    <2>2. q = [p EXCEPT !.deals = deals]
      BY <1>1
    <2> HIDE DEF deals
    <2>3. /\ DOMAIN q = DOMAIN p /\ q.next = p.next /\ q.into = p.into
          /\ q.contacts = p.contacts /\ q.tasks = p.tasks /\ q.deals = deals
      BY <2>2
    <2> QED BY <2>1, <2>3, SameContacts
  <1>2. ASSUME NEW ms, ms \subseteq Given(p), q = [p EXCEPT !.deals[id].members = ms]
        PROVE  Outcome(old, p, q, staff)
    <2>1. /\ DOMAIN q = DOMAIN p /\ q.next = p.next /\ q.into = p.into
          /\ q.contacts = p.contacts /\ q.tasks = p.tasks
          /\ q.deals = [p.deals EXCEPT ![id].members = ms]
      BY <1>2
    <2>2. DOMAIN q.deals = DOMAIN p.deals
      BY <2>1
    <2>3. \A d \in DOMAIN q.deals :
             /\ DOMAIN q.deals[d] = DealFields
             /\ q.deals[d].members \in {p.deals[d].members, ms}
      BY <2>1 DEF DealFields
    <2>4. \A d \in DOMAIN q.deals : /\ DOMAIN q.deals[d] = DealFields
                                    /\ q.deals[d].members \subseteq Given(p)
      BY <1>2, <2>2, <2>3
    <2> QED BY <2>1, <2>2, <2>4, SameContacts
  <1>3. ASSUME NEW deal, DOMAIN deal = DealFields, deal.members \subseteq Given(p),
               q = [p EXCEPT !.deals[id] = deal]
        PROVE  Outcome(old, p, q, staff)
    <2>1. /\ DOMAIN q = DOMAIN p /\ q.next = p.next /\ q.into = p.into
          /\ q.contacts = p.contacts /\ q.tasks = p.tasks
          /\ q.deals = [p.deals EXCEPT ![id] = deal]
      BY <1>3
    <2>2. DOMAIN q.deals = DOMAIN p.deals
      BY <2>1
    <2>3. \A d \in DOMAIN q.deals : q.deals[d] \in {p.deals[d], deal}
      BY <2>1
    <2> QED BY <1>3, <2>1, <2>2, <2>3, SameContacts
  <1> HIDE PortalFields
  <1>4. DOMAIN p.contacts \subseteq Given(p) /\ p.deals[id].members \subseteq Given(p)
    BY DEF IsPortal, HasNumbers, HasDeals
  <1>5. CASE v \in DOMAIN p.contacts /\ q = [p EXCEPT !.deals[id].members = @ \cup {v}]
    <2> DEFINE ms == p.deals[id].members \cup {v}
    <2>1. ms \subseteq Given(p)
      BY <1>4, <1>5
    <2> QED BY <1>2, <1>5, <2>1
  <1>6. CASE q = [p EXCEPT !.deals[id].members = @ \ {v}]
    <2> DEFINE ms == p.deals[id].members \ {v}
    <2>1. ms \subseteq Given(p)
      BY <1>4
    <2> QED BY <1>2, <1>6, <2>1
  <1>7. CASE DOMAIN v = DealFields /\ q = PutDeal(p, id, v)
    <2> DEFINE ms == IF v.members = {} THEN p.deals[id].members
                     ELSE v.members \cap DOMAIN p.contacts
               deal == [v EXCEPT !.members = ms]
    <2>1. ms \subseteq Given(p)
      BY <1>4
    <2>2. q = [p EXCEPT !.deals[id] = deal]
      BY <1>7 DEF PutDeal
    <2> HIDE DEF ms
    <2>3. DOMAIN deal = DealFields /\ deal.members = ms
      BY <1>7 DEF DealFields
    <2> HIDE DEF deal
    <2> QED BY <1>3, <2>1, <2>2, <2>3
  <1> QED BY <1>1, <1>5, <1>6, <1>7

LEMMA OtherOutcomes ==
  ASSUME NEW p, IsPortal(p), NEW old, InfoKept(old, p), NEW staff, StaffKept(p, staff),
         NEW id, NEW v, NEW q,
         \/ q = p
         \/ q = [p EXCEPT !.tasks = Drop(@, {id})]
         \/ q = [p EXCEPT !.tasks[id] = v]
         \/ q = [p EXCEPT !.tags = @ \cup {v}]
  PROVE  Outcome(old, p, q, staff)
  <1>1. CASE q = p
    BY <1>1, PortalFields, SameContacts
  <1>2. CASE q = [p EXCEPT !.tasks = Drop(@, {id})]
    <2> DEFINE tasks == Drop(p.tasks, {id})
    <2>1. DOMAIN tasks \subseteq DOMAIN p.tasks
      BY DEF Drop, Restrict
    <2>2. q = [p EXCEPT !.tasks = tasks]
      BY <1>2
    <2> HIDE DEF tasks
    <2>3. /\ DOMAIN q = DOMAIN p /\ q.next = p.next /\ q.into = p.into
          /\ q.contacts = p.contacts /\ q.tasks = tasks /\ q.deals = p.deals
      BY <2>2, PortalFields
    <2> QED BY <2>1, <2>3, PortalFields, SameContacts
  <1>3. CASE q = [p EXCEPT !.tasks[id] = v]
    <2>1. /\ DOMAIN q = DOMAIN p /\ q.next = p.next /\ q.into = p.into
          /\ q.contacts = p.contacts /\ DOMAIN q.tasks = DOMAIN p.tasks /\ q.deals = p.deals
      BY <1>3, PortalFields
    <2> QED BY <2>1, PortalFields, SameContacts
  <1>4. CASE q = [p EXCEPT !.tags = @ \cup {v}]
    <2>1. /\ DOMAIN q = DOMAIN p /\ q.next = p.next /\ q.into = p.into
          /\ q.contacts = p.contacts /\ q.tasks = p.tasks /\ q.deals = p.deals
      BY <1>4, PortalFields
    <2> QED BY <2>1, PortalFields, SameContacts
  <1> QED BY <1>1, <1>2, <1>3, <1>4

\* A person gets another name and employer, a contact other tags.
LEMMA ContactOutcomes ==
  ASSUME NEW p, IsPortal(p), NEW old, InfoKept(old, p), NEW staff, StaffKept(p, staff),
         NEW id, NEW v, NEW w, NEW q,
         \/ /\ w # NoOne \/ id \notin staff \cap DOMAIN p.contacts
            /\ q = [p EXCEPT !.contacts[id].name = v, !.contacts[id].org = w]
         \/ q = [p EXCEPT !.contacts[id].tags = @ \cup {v}]
         \/ q = [p EXCEPT !.contacts[id].tags = @ \ {v}]
  PROVE  Outcome(old, p, q, staff)
  <1>1. CASE /\ w # NoOne \/ id \notin staff \cap DOMAIN p.contacts
             /\ q = [p EXCEPT !.contacts[id].name = v, !.contacts[id].org = w]
    <2> DEFINE cs == [p.contacts EXCEPT ![id].name = v, ![id].org = w]
    <2>1. /\ DOMAIN q = DOMAIN p /\ q.next = p.next /\ q.into = p.into
          /\ q.tasks = p.tasks /\ q.deals = p.deals /\ q.contacts = cs
      BY <1>1, PortalFields
    <2>2. /\ DOMAIN cs = DOMAIN p.contacts
          /\ \A c \in DOMAIN p.contacts :
                /\ DOMAIN cs[c] = ContactFields
                /\ cs[c].rows = p.contacts[c].rows
                /\ cs[c].org = IF c = id THEN w ELSE p.contacts[c].org
      BY PortalFields DEF ContactFields
    <2> HIDE DEF cs
    <2>3. \A c \in staff \cap DOMAIN p.contacts : q.contacts[c].org # NoOne
      BY <1>1, <2>1, <2>2 DEF StaffKept
    <2> QED BY <2>1, <2>2, <2>3, PortalFields, NothingNew DEF RowsOf
  <1>2. ASSUME NEW t, q = [p EXCEPT !.contacts[id].tags = t]
        PROVE  Outcome(old, p, q, staff)
    <2> DEFINE cs == [p.contacts EXCEPT ![id].tags = t]
    <2>1. /\ DOMAIN q = DOMAIN p /\ q.next = p.next /\ q.into = p.into
          /\ q.tasks = p.tasks /\ q.deals = p.deals /\ q.contacts = cs
      BY <1>2, PortalFields
    <2>2. /\ DOMAIN cs = DOMAIN p.contacts
          /\ \A c \in DOMAIN p.contacts :
                /\ DOMAIN cs[c] = ContactFields
                /\ cs[c].rows = p.contacts[c].rows
                /\ cs[c].org = p.contacts[c].org
      BY PortalFields DEF ContactFields
    <2> HIDE DEF cs
    <2>3. \A c \in staff \cap DOMAIN p.contacts : q.contacts[c].org # NoOne
      BY <2>1, <2>2 DEF StaffKept
    <2> QED BY <2>1, <2>2, <2>3, PortalFields, NothingNew DEF RowsOf
  <1>3. CASE q = [p EXCEPT !.contacts[id].tags = @ \cup {v}]
    BY <1>2, <1>3
  <1>4. CASE q = [p EXCEPT !.contacts[id].tags = @ \ {v}]
    BY <1>2, <1>4
  <1> QED BY <1>1, <1>3, <1>4

\* A new deal or task; contacts are as they were.
LEMMA MoreRecords ==
  ASSUME NEW p, IsPortal(p), NEW old, InfoKept(old, p), NEW staff, StaffKept(p, staff),
         NEW q, DOMAIN q = DOMAIN p, q.next = p.next + 1, q.into = p.into,
         q.contacts = p.contacts,
         DOMAIN q.deals \subseteq DOMAIN p.deals \cup {p.next},
         DOMAIN q.tasks \subseteq DOMAIN p.tasks \cup {p.next},
         \A d \in DOMAIN q.deals : /\ DOMAIN q.deals[d] = DealFields
                                   /\ q.deals[d].members \subseteq Given(p)
  PROVE  Outcome(old, p, q, staff)
  <1>1. p.next \in Nat /\ Given(p) = 1 .. p.next - 1
    BY DEF IsPortal, HasNumbers, Given
  <1>2. q.next \in Nat \ {0} /\ p.next <= q.next /\ p.next \in Given(q) /\ Given(p) \subseteq Given(q)
    <2>1. p.next \in Nat \ {0} /\ q.next = p.next + 1
      BY DEF IsPortal, HasNumbers
    <2> QED BY <2>1 DEF Given
  <1>3. HasNumbers(q)
    BY <1>1, <1>2 DEF IsPortal, HasNumbers
  <1>4. HasDeals(q)
    BY <1>2 DEF HasDeals
  <1>5. /\ \A c \in DOMAIN q.contacts : DOMAIN q.contacts[c] = ContactFields
        /\ \A c \in DOMAIN q.contacts \ DOMAIN p.contacts : c = p.next /\ RowsOf(q, c) = {}
        /\ \A c \in DOMAIN p.contacts : RowsOf(p, c) \subseteq RowsOf(q, c)
        /\ \A c \in DOMAIN p.contacts : \A x \in RowsOf(q, c) \ RowsOf(p, c) :
              c = 0 /\ x = 0 /\ IsRow(0, Given(q)) /\ 0.id = p.next
        /\ \A c \in staff \cap DOMAIN p.contacts : q.contacts[c].org # NoOne
    BY PortalFields DEF RowsOf, StaffKept
  <1> QED BY <1>2, <1>3, <1>4, <1>5, RowsStay

LEMMA AddOutcomes ==
  ASSUME NEW p, IsPortal(p), NEW old, InfoKept(old, p), NEW staff, StaffKept(p, staff),
         NEW v
  PROVE  /\ DOMAIN v = ContactFields /\ v.rows = {} =>
               /\ Outcome(old, p, Add(p, "contacts", v), staff)
         /\ DOMAIN v = DealFields /\ v.members = {} =>
               Outcome(old, p, Add(p, "deals", v), staff)
         /\ Outcome(old, p, Add(p, "tasks", v), staff)
  <1>1. ASSUME DOMAIN v = ContactFields, v.rows = {}
        PROVE  Outcome(old, p, Add(p, "contacts", v), staff)
    <2> DEFINE cs == Put(p.contacts, p.next, v)
               q == Add(p, "contacts", v)
    <2>1. q = [p EXCEPT !["contacts"] = cs, !.next = p.next + 1]
      BY DEF Add, NewId
    <2>2. /\ DOMAIN cs = DOMAIN p.contacts \cup {p.next} /\ cs[p.next] = v
          /\ \A c \in DOMAIN p.contacts : c # p.next => cs[c] = p.contacts[c]
      BY DEF Put
    <2> HIDE DEF q, cs
    <2>3. /\ DOMAIN q = DOMAIN p /\ q.next = p.next + 1 /\ q.into = p.into /\ q.contacts = cs
          /\ q.deals = p.deals /\ q.tasks = p.tasks
      BY <2>1, PortalFields
    <2>4. p.next \in Nat \ {0} /\ p.next \notin Given(p) /\ DOMAIN p.contacts \subseteq Given(p)
      BY DEF IsPortal, HasNumbers, Given
    <2>5. q.next \in Nat \ {0} /\ p.next <= q.next /\ p.next \in Given(q) /\ Given(p) \subseteq Given(q)
      BY <2>3, <2>4 DEF Given
    <2>6. HasNumbers(q)
      BY <2>2, <2>3, <2>5 DEF IsPortal, HasNumbers
    <2>7. HasDeals(q)
      BY <2>3, <2>5 DEF IsPortal, HasDeals
    <2>8. \A c \in DOMAIN p.contacts : q.contacts[c] = p.contacts[c]
      BY <2>2, <2>3, <2>4
    <2>9. /\ \A c \in DOMAIN q.contacts : DOMAIN q.contacts[c] = ContactFields
          /\ \A c \in DOMAIN q.contacts \ DOMAIN p.contacts : c = p.next /\ RowsOf(q, c) = {}
          /\ \A c \in DOMAIN p.contacts : RowsOf(p, c) \subseteq RowsOf(q, c)
          /\ \A c \in DOMAIN p.contacts : \A x \in RowsOf(q, c) \ RowsOf(p, c) :
                c = 0 /\ x = 0 /\ IsRow(0, Given(q)) /\ 0.id = p.next
          /\ \A c \in staff \cap DOMAIN p.contacts : q.contacts[c].org # NoOne
          /\ DOMAIN p.contacts \subseteq DOMAIN q.contacts
      BY <1>1, <2>2, <2>3, <2>8, PortalFields DEF RowsOf, StaffKept
    <2>10. Outcome(old, p, q, staff)
      BY <2>3, <2>5, <2>6, <2>7, <2>9, RowsStay
    <2> QED BY <2>10 DEF q
  <1>2. ASSUME DOMAIN v = DealFields, v.members = {}
        PROVE  Outcome(old, p, Add(p, "deals", v), staff)
    <2> DEFINE ds == Put(p.deals, p.next, v)
               q == Add(p, "deals", v)
    <2>1. q = [p EXCEPT !["deals"] = ds, !.next = p.next + 1]
      BY DEF Add, NewId
    <2>2. /\ DOMAIN ds = DOMAIN p.deals \cup {p.next}
          /\ \A d \in DOMAIN ds : 
                ds[d] = v \/ (d \in DOMAIN p.deals /\ ds[d] = p.deals[d])
      BY DEF Put
    <2> HIDE DEF q, ds
    <2>3. /\ DOMAIN q = DOMAIN p /\ q.next = p.next + 1 /\ q.into = p.into /\ q.deals = ds
          /\ q.contacts = p.contacts /\ q.tasks = p.tasks
      BY <2>1, PortalFields
    <2>4. \A d \in DOMAIN q.deals : DOMAIN q.deals[d] = DealFields
                                    /\ q.deals[d].members \subseteq Given(p)
      BY <1>2, <2>2, <2>3, PortalFields
    <2>5. Outcome(old, p, q, staff)
      BY <2>2, <2>3, <2>4, MoreRecords
    <2> QED BY <2>5 DEF q
  <1>3. Outcome(old, p, Add(p, "tasks", v), staff)
    <2> DEFINE ts == Put(p.tasks, p.next, v)
               q == Add(p, "tasks", v)
    <2>1. q = [p EXCEPT !["tasks"] = ts, !.next = p.next + 1]
      BY DEF Add, NewId
    <2>2. DOMAIN ts = DOMAIN p.tasks \cup {p.next}
      BY DEF Put
    <2> HIDE DEF q, ts
    <2>3. /\ DOMAIN q = DOMAIN p /\ q.next = p.next + 1 /\ q.into = p.into /\ q.deals = p.deals
          /\ q.contacts = p.contacts /\ q.tasks = ts
      BY <2>1, PortalFields
    <2>4. Outcome(old, p, q, staff)
      BY <2>2, <2>3, PortalFields, MoreRecords
    <2> QED BY <2>4 DEF q
  <1> QED BY <1>1, <1>2, <1>3

LEMMA AddRowOutcome ==
  ASSUME NEW p, IsPortal(p), NEW old, InfoKept(old, p), NEW staff, StaffKept(p, staff),
         NEW id \in DOMAIN p.contacts, NEW v, DOMAIN v = {"key", "primary"},
         v.primary \in BOOLEAN
  PROVE  Outcome(old, p, AddRow(p, id, v), staff)
  <1> DEFINE row == Put(v, "id", NewId(p))
             rows == p.contacts[id].rows \cup {row}
             cs == [p.contacts EXCEPT ![id].rows = rows]
             q == AddRow(p, id, v)
  <1>1. row = [f \in {"id", "key", "primary"} |-> IF f = "id" THEN p.next ELSE v[f]]
    BY DEF Put, NewId
  <1>2. DOMAIN row = {"id", "key", "primary"} /\ row.id = p.next /\ row.primary = v.primary
    BY <1>1
  <1> HIDE DEF row
  <1>3. q = [p EXCEPT !.contacts[id].rows = rows, !.next = p.next + 1]
    BY DEF AddRow, row
  <1> HIDE DEF rows
  <1>4. /\ DOMAIN q = DOMAIN p /\ q.next = p.next + 1 /\ q.into = p.into /\ q.contacts = cs
        /\ q.deals = p.deals /\ q.tasks = p.tasks
    BY <1>3, PortalFields
  <1>5. /\ DOMAIN cs = DOMAIN p.contacts
        /\ \A c \in DOMAIN p.contacts :
              /\ DOMAIN cs[c] = ContactFields
              /\ cs[c].rows = IF c = id THEN rows ELSE p.contacts[c].rows
              /\ cs[c].org = p.contacts[c].org
    BY PortalFields DEF ContactFields
  <1> HIDE DEF q, cs
  <1>6. p.next \in Nat \ {0} /\ p.next \notin Given(p)
    BY DEF IsPortal, HasNumbers, Given
  <1>7. q.next \in Nat \ {0} /\ p.next <= q.next /\ p.next \in Given(q) /\ Given(p) \subseteq Given(q)
    BY <1>4, <1>6 DEF Given
  <1>8. HasNumbers(q)
    BY <1>4, <1>5, <1>7 DEF IsPortal, HasNumbers
  <1>9. HasDeals(q)
    BY <1>4, <1>7 DEF IsPortal, HasDeals
  <1>10. IsRow(row, Given(q))
    BY <1>2, <1>7 DEF IsRow
  <1>11. /\ \A c \in DOMAIN q.contacts : DOMAIN q.contacts[c] = ContactFields
         /\ \A c \in DOMAIN q.contacts \ DOMAIN p.contacts : c = p.next /\ RowsOf(q, c) = {}
         /\ \A c \in DOMAIN p.contacts : RowsOf(p, c) \subseteq RowsOf(q, c)
         /\ \A c \in DOMAIN p.contacts : \A x \in RowsOf(q, c) \ RowsOf(p, c) :
               c = id /\ x = row /\ IsRow(row, Given(q)) /\ row.id = p.next
         /\ \A c \in staff \cap DOMAIN p.contacts : q.contacts[c].org # NoOne
         /\ DOMAIN p.contacts \subseteq DOMAIN q.contacts
    BY <1>2, <1>4, <1>5, <1>10 DEF RowsOf, StaffKept, rows
  <1>12. Outcome(old, p, q, staff)
    BY <1>4, <1>7, <1>8, <1>9, <1>11, RowsStay
  <1> QED BY <1>12 DEF q

\* Whatever a good request does to the portal, contacts keep their information and persons
\* their employers, and the other requests under way stay good.
LEMMA EffectOutcome ==
  ASSUME NEW p, IsPortal(p), NEW old, InfoKept(old, p), NEW staff, StaffKept(p, staff),
         NEW r, Good(p, staff, r), Accepts(p, r)
  PROVE  Outcome(old, p, Effect(p, r), staff)
  <1>1. CASE r.op = "merge"
    <2>1. Effect(p, r) = MergeInto(p, r.val, r.at)
      BY <1>1 DEF Effect
    <2>2. r.at \in DOMAIN p.contacts /\ r.val \in DOMAIN p.contacts /\ r.at # r.val
      BY <1>1 DEF Good, Accepts
    <2> QED BY <2>1, <2>2, MergeOutcome
  <1>2. CASE r.op = "drop row"
    <2>1. Effect(p, r) = [p EXCEPT !.contacts[r.at].rows = {q \in @ : q.id # r.val}]
      BY <1>2 DEF Effect
    <2>2. r.at \in DOMAIN p.contacts /\ Redundant(p, r.at, r.val)
      BY <1>2 DEF Good, Accepts, OnContacts
    <2> QED BY <2>1, <2>2, DropRowOutcome
  <1>3. CASE r.op = "drop deal"
    <2>1. Effect(p, r) = [p EXCEPT !.deals = Drop(@, {r.at})]
      BY <1>3 DEF Effect
    <2>2. r.at \in DOMAIN p.deals
      BY <1>3 DEF Accepts, OnDeals
    <2> QED BY <2>1, <2>2, DealOutcomes
  <1>4. CASE r.op = "drop task"
    <2>1. Effect(p, r) = [p EXCEPT !.tasks = Drop(@, {r.at})]
      BY <1>4 DEF Effect
    <2> QED BY <2>1, OtherOutcomes
  <1>5. CASE r.op = "add contact"
    <2>1. Effect(p, r) = Add(p, "contacts", r.val)
      BY <1>5 DEF Effect
    <2>2. DOMAIN r.val = ContactFields /\ r.val.rows = {}
      BY <1>5 DEF Good, IsRequest
    <2> QED BY <2>1, <2>2, AddOutcomes
  <1>6. CASE r.op = "add deal"
    <2>1. Effect(p, r) = Add(p, "deals", r.val)
      BY <1>6 DEF Effect
    <2>2. DOMAIN r.val = DealFields /\ r.val.members = {}
      BY <1>6 DEF Good, IsRequest
    <2> QED BY <2>1, <2>2, AddOutcomes
  <1>7. CASE r.op = "add task"
    <2>1. Effect(p, r) = Add(p, "tasks", r.val)
      BY <1>7 DEF Effect
    <2> QED BY <2>1, AddOutcomes
  <1>8. CASE r.op = "add row"
    <2>1. Effect(p, r) = AddRow(p, r.at, r.val)
      BY <1>8 DEF Effect
    <2>2. /\ r.at \in DOMAIN p.contacts /\ DOMAIN r.val = {"key", "primary"}
          /\ r.val.primary \in BOOLEAN
      BY <1>8 DEF Good, IsRequest, Accepts, OnContacts
    <2> QED BY <2>1, <2>2, AddRowOutcome
  <1>9. CASE r.op = "add member"
    <2>1. Effect(p, r) = [p EXCEPT !.deals[r.at].members = @ \cup {r.val}]
      BY <1>9 DEF Effect
    <2>2. r.at \in DOMAIN p.deals /\ r.val \in DOMAIN p.contacts
      BY <1>9 DEF Accepts, OnDeals
    <2> QED BY <2>1, <2>2, DealOutcomes
  <1>10. CASE r.op = "remove member"
    <2>1. Effect(p, r) = [p EXCEPT !.deals[r.at].members = @ \ {r.val}]
      BY <1>10 DEF Effect
    <2>2. r.at \in DOMAIN p.deals
      BY <1>10 DEF Accepts, OnDeals
    <2> QED BY <2>1, <2>2, DealOutcomes
  <1>11. CASE r.op = "put deal"
    <2>1. Effect(p, r) = PutDeal(p, r.at, r.val)
      BY <1>11 DEF Effect
    <2>2. r.at \in DOMAIN p.deals /\ DOMAIN r.val = DealFields
      BY <1>11 DEF Good, IsRequest, Accepts, OnDeals
    <2> QED BY <2>1, <2>2, DealOutcomes
  <1>12. CASE r.op = "put person"
    <2>1. Effect(p, r) = [p EXCEPT !.contacts[r.at].name = r.val.name,
                                   !.contacts[r.at].org = r.val.org]
      BY <1>12 DEF Effect
    <2>2. r.val.org # NoOne \/ r.at \notin staff \cap DOMAIN p.contacts
      BY <1>12 DEF Good
    <2> QED BY <2>1, <2>2, ContactOutcomes
  <1>13. CASE r.op = "put task"
    <2>1. Effect(p, r) = [p EXCEPT !.tasks[r.at] = r.val]
      BY <1>13 DEF Effect
    <2> QED BY <2>1, OtherOutcomes
  <1>14. CASE r.op = "add tag"
    <2>1. Effect(p, r) = [p EXCEPT !.tags = @ \cup {r.val}]
      BY <1>14 DEF Effect
    <2> QED BY <2>1, OtherOutcomes
  <1>15. CASE r.op = "tag"
    <2>1. Effect(p, r) = [p EXCEPT !.contacts[r.at].tags = @ \cup {r.val}]
      BY <1>15 DEF Effect
    <2> QED BY <2>1, ContactOutcomes
  <1>16. CASE r.op = "untag"
    <2>1. Effect(p, r) = [p EXCEPT !.contacts[r.at].tags = @ \ {r.val}]
      BY <1>16 DEF Effect
    <2> QED BY <2>1, ContactOutcomes
  <1>17. CASE r.op \notin {"merge", "drop row", "drop deal", "drop task", "add contact", "add deal",
                         "add task", "add row", "add member", "remove member", "put deal",
                         "put person", "put task", "add tag", "tag", "untag"}
    <2>1. r.op # "drop contact"
      BY DEF Good
    <2>2. Effect(p, r) = p
      BY <1>17, <2>1 DEF Effect
    <2> QED BY <2>2, OtherOutcomes
  <1> QED BY <1>1, <1>2, <1>3, <1>4, <1>5, <1>6, <1>7, <1>8, <1>9, <1>10, <1>11, <1>12, <1>13, <1>14, <1>15, <1>16, <1>17

\* A creating request can be applied again.
LEMMA AcceptsAgain ==
  ASSUME NEW p, IsPortal(p), NEW r, Creates(r), Accepts(p, r)
  PROVE  Accepts(Effect(p, r), r)
  <1>1. CASE r.op # "add row"
    BY <1>1 DEF Creates, Accepts, OnContacts, OnDeals, OnTasks
  <1>2. CASE r.op = "add row"
    <2>1. Effect(p, r) = AddRow(p, r.at, r.val)
      BY <1>2 DEF Effect
    <2>2. AddRow(p, r.at, r.val).contacts
             = [p.contacts EXCEPT ![r.at].rows = @ \cup {Put(r.val, "id", NewId(p))}]
      BY PortalFields DEF AddRow
    <2>3. DOMAIN Effect(p, r).contacts = DOMAIN p.contacts
      BY <2>1, <2>2
    <2> QED BY <1>2, <2>3 DEF Accepts, OnContacts, OnDeals, OnTasks
  <1> QED BY <1>1, <1>2

LEMMA OutcomesCompose ==
  ASSUME NEW p, IsPortal(p), NEW old, NEW staff, NEW q, Outcome(old, p, q, staff),
         NEW s, Outcome(old, q, s, staff)
  PROVE  Outcome(old, p, s, staff)
  <1>1. p.next \in Nat /\ q.next \in Nat /\ s.next \in Nat
    BY DEF Outcome, IsPortal, HasNumbers
  <1>2. p.next <= s.next
    BY <1>1 DEF Outcome, Safer
  <1> QED BY <1>2 DEF Outcome, Safer

-----------------------------------------------------------------------------
(* Scripts                                                                 *)

LEMMA NoScript ==
  ASSUME NEW p, NEW staff
  PROVE  GoodScript(p, staff, <<>>)
  BY OneElement DEF GoodScript, ToSet

LEMMA OneRequest ==
  ASSUME NEW p, NEW staff, NEW r, Good(p, staff, r)
  PROVE  GoodScript(p, staff, <<r>>)
  <1> DEFINE s == <<r>>
  <1>1. IsList(s) /\ DOMAIN s = {1} /\ s[1] = r
    BY OneElement
  <1> HIDE DEF s
  <1>2. ToSet(s) = {r}
    BY <1>1 DEF ToSet
  <1>3. GoodScript(p, staff, s)
    BY <1>1, <1>2 DEF GoodScript
  <1> QED BY <1>3 DEF s

\* One good request for each element of a list.
LEMMA GoodForEach ==
  ASSUME NEW p, NEW staff, NEW list, IsList(list),
         NEW s, s = [i \in DOMAIN list |-> s[i]],
         \A i \in DOMAIN list : Good(p, staff, s[i])
  PROVE  GoodScript(p, staff, s)
  <1>1. Len(list) \in Nat /\ DOMAIN list = 1 .. Len(list)
    BY ListShape
  <1>2. IsList(s) /\ DOMAIN s = DOMAIN list
    BY <1>1, FunctionIsList
  <1>3. \A r \in ToSet(s) : Good(p, staff, r)
    BY <1>2 DEF ToSet
  <1> QED BY <1>2, <1>3 DEF GoodScript

LEMMA GoodConcat ==
  ASSUME NEW p, NEW staff, NEW s, GoodScript(p, staff, s), NEW t, GoodScript(p, staff, t)
  PROVE  GoodScript(p, staff, s \o t)
  <1> DEFINE u == s \o t
  <1>1. IsList(u) /\ \A i \in DOMAIN u : u[i] \in ToSet(s) \cup ToSet(t)
    BY ConcatList DEF GoodScript
  <1> HIDE DEF u
  <1>2. \A r \in ToSet(u) : Good(p, staff, r)
    BY <1>1 DEF ToSet, GoodScript
  <1>3. GoodScript(p, staff, u)
    BY <1>1, <1>2 DEF GoodScript
  <1> QED BY <1>3 DEF u

LEMMA GoodFlatten ==
  ASSUME NEW p, NEW staff, NEW seqs, IsList(seqs),
         \A i \in DOMAIN seqs : GoodScript(p, staff, seqs[i])
  PROVE  GoodScript(p, staff, FlattenSeq(seqs))
  <1> DEFINE S == UNION {ToSet(seqs[i]) : i \in DOMAIN seqs}
             flat == FlattenSeq(seqs)
  <1>1. \A i \in DOMAIN seqs : IsList(seqs[i]) /\ ToSet(seqs[i]) \subseteq S
    BY DEF GoodScript
  <1>2. \A r \in S : Good(p, staff, r)
    BY DEF GoodScript
  <1> HIDE DEF S
  <1>3. IsList(flat) /\ ToSet(flat) \subseteq S
    BY <1>1, FlattenList
  <1> HIDE DEF flat
  <1>4. GoodScript(p, staff, flat)
    BY <1>2, <1>3 DEF GoodScript
  <1> QED BY <1>4 DEF flat

\* The first request of a script, and what is left of it.
LEMMA GoodRest ==
  ASSUME NEW p, NEW staff, NEW s, GoodScript(p, staff, s), s # <<>>
  PROVE  Good(p, staff, Head(s)) /\ GoodScript(p, staff, Tail(s))
  <1> DEFINE t == Tail(s)
  <1>1. /\ 1 \in DOMAIN s /\ Head(s) = s[1] /\ IsList(t)
        /\ \A i \in DOMAIN t : i + 1 \in DOMAIN s /\ t[i] = s[i + 1]
    BY TailList DEF GoodScript
  <1> HIDE DEF t
  <1>2. Head(s) \in ToSet(s) /\ ToSet(t) \subseteq ToSet(s)
    BY <1>1 DEF ToSet
  <1>3. GoodScript(p, staff, t)
    BY <1>1, <1>2 DEF GoodScript
  <1> QED BY <1>2, <1>3 DEF GoodScript, t

LEMMA ScriptStays ==
  ASSUME NEW p, NEW q, NEW staff, Safer(p, q, staff), NEW s, GoodScript(p, staff, s)
  PROVE  GoodScript(q, staff, s)
  BY GoodStays DEF GoodScript

-----------------------------------------------------------------------------
(* Requests as the commands make them                                      *)

Asks(r, op, at, val, use) ==
  DOMAIN r = RequestFields /\ r.op = op /\ r.at = at /\ r.val = val /\ r.use = use

LEMMA RequestShapes ==
  ASSUME NEW op, NEW at, NEW val, NEW onErr, NEW use
  PROVE  /\ Asks(Request(op, at, val, onErr), op, at, val, "")
         /\ Asks(Must(op, at, val), op, at, val, "")
         /\ Asks(Try(op, at, val), op, at, val, "")
         /\ Asks(Tally(op, at, val), op, at, val, "")
         /\ Asks(Either(Tally(op, at, val)), op, at, val, "")
         /\ Asks(For(use, Request(op, at, val, onErr)), op, at, val, use)
         /\ Asks(For(use, Must(op, at, val)), op, at, val, use)
         /\ \A c : Asks([Must(op, at, val) EXCEPT !.counts = c], op, at, val, "")
  BY DEF Asks, Request, Must, Try, Tally, Either, For, RequestFields

\* A request without an effect on contacts, or a read, asks for nothing special.
Harmless == {"contact", "deal", "company", "add member", "remove member", "drop deal",
             "put task", "nothing"}

LEMMA HarmlessIsGood ==
  ASSUME NEW p, NEW staff, NEW r, NEW op \in Harmless, NEW at, NEW val, NEW use,
         Asks(r, op, at, val, use),
         use \notin Listings /\ use # "employer" /\ use # "fix names of",
         use \in OfContact => op = "contact",
         use \in OfDeal => op = "deal"
  PROVE  Good(p, staff, r)
  BY DEF Asks, Good, IsRequest, Harmless

LEMMA CountedIsGood ==
  ASSUME NEW p, NEW staff, NEW r, Good(p, staff, r)
  PROVE  Good(p, staff, Counted(r))
  <1>1. /\ DOMAIN Counted(r) = RequestFields
        /\ Counted(r).op = "nothing" /\ Counted(r).use = ""
    BY DEF Counted, Good, IsRequest, RequestFields
  <1> QED BY <1>1 DEF Good, IsRequest, Listings, OfContact, OfDeal

LEMMA PutPersonIsGood ==
  ASSUME NEW p, NEW staff, NEW r, NEW at, NEW val, Asks(r, "put person", at, val, ""),
         val.org # NoOne \/ at \notin staff \cap DOMAIN p.contacts
  PROVE  Good(p, staff, r)
  BY DEF Asks, Good, IsRequest, Listings, OfContact, OfDeal

LEMMA PutDealIsGood ==
  ASSUME NEW p, NEW staff, NEW r, NEW at, NEW val, Asks(r, "put deal", at, val, ""),
         DOMAIN val = DealFields
  PROVE  Good(p, staff, r)
  BY DEF Asks, Good, IsRequest, Listings, OfContact, OfDeal

LEMMA MergeIsGood ==
  ASSUME NEW p, NEW staff, NEW r, NEW at, NEW val, Asks(r, "merge", at, val, ""), at # val
  PROVE  Good(p, staff, r)
  BY DEF Asks, Good, IsRequest, Listings, OfContact, OfDeal

LEMMA DropRowIsGood ==
  ASSUME NEW p, NEW staff, NEW r, NEW at, NEW val, Asks(r, "drop row", at, val, ""),
         Redundant(p, at, val)
  PROVE  Good(p, staff, r)
  BY DEF Asks, Good, IsRequest, Listings, OfContact, OfDeal

LEMMA AddRowIsGood ==
  ASSUME NEW p, NEW staff, NEW r, NEW at, NEW val, Asks(r, "add row", at, val, ""),
         DOMAIN val = {"key", "primary"}, val.primary \in BOOLEAN
  PROVE  Good(p, staff, r)
  BY DEF Asks, Good, IsRequest, Listings, OfContact, OfDeal

\* crm.go:213: a person without an employer to set is read first.
LEMMA UpdatePersonIsGood ==
  ASSUME NEW p, NEW staff, NEW id, NEW name, NEW org, NEW counts
  PROVE  GoodScript(p, staff, UpdatePerson(id, name, org, counts))
  <1> DEFINE body == [name |-> name, org |-> org, counts |-> counts]
             put  == [Must("put person", id, body) EXCEPT !.counts = counts]
             read == For("employer", Must("contact", id, body))
  <1>1. body.org = org /\ "org" \in DOMAIN body
    OBVIOUS
  <1>2. Asks(put, "put person", id, body, "") /\ Asks(read, "contact", id, body, "employer")
    BY RequestShapes
  <1>3. UpdatePerson(id, name, org, counts) = IF org # NoOne THEN <<put>> ELSE <<read>>
    BY DEF UpdatePerson
  <1> HIDE DEF body, put, read
  <1>4. CASE org # NoOne
    <2>1. Good(p, staff, put)
      BY <1>1, <1>2, <1>4, PutPersonIsGood
    <2> QED BY <1>3, <1>4, <2>1, OneRequest
  <1>5. CASE org = NoOne
    <2>1. Good(p, staff, read)
      BY <1>1, <1>2 DEF Asks, Good, IsRequest, Listings, OfContact, OfDeal
    <2> QED BY <1>3, <1>5, <2>1, OneRequest
  <1> QED BY <1>4, <1>5

LEMMA PutPersonScript ==
  ASSUME NEW p, NEW staff, NEW r, Good(p, staff, r), r.use = "employer", NEW org,
         org # NoOne \/ r.at \notin staff \cap DOMAIN p.contacts
  PROVE  GoodScript(p, staff, PutPerson(r, org))
  <1> DEFINE body == [r.val EXCEPT !.org = org]
             put  == [Must("put person", r.at, body) EXCEPT !.counts = r.val.counts]
  <1>1. body.org = org
    BY DEF Good, IsRequest
  <1>2. PutPerson(r, org) = <<put>>
    BY DEF PutPerson
  <1>3. Asks(put, "put person", r.at, body, "")
    BY RequestShapes
  <1> HIDE DEF body, put
  <1>4. Good(p, staff, put)
    BY <1>1, <1>3, PutPersonIsGood
  <1> QED BY <1>2, <1>4, OneRequest

-----------------------------------------------------------------------------
(* What follows an answer                                                  *)

\* The records of a portal, and the rows of a contact, are finitely many numbers.
LEMMA FiniteGiven ==
  ASSUME NEW p, IsPortal(p), NEW S, S \subseteq Given(p)
  PROVE  IsFiniteSet(S) /\ S \subseteq Nat
  <1>1. p.next \in Nat \ {0}
    BY DEF IsPortal, HasNumbers
  <1>2. p.next - 1 \in Nat /\ Given(p) = 1 .. p.next - 1 /\ Given(p) \subseteq Nat
    BY <1>1 DEF Given
  <1>3. IsFiniteSet(Given(p))
    BY <1>2, FS_Interval
  <1> QED BY <1>2, <1>3, FS_Subset

\* The page that a listing has just brought.
Chunk(records, r) == {[id |-> i, of |-> records[i]] : i \in Page(DOMAIN records, r.at)}

LEMMA PageRows ==
  ASSUME NEW p, IsPortal(p), NEW records, DOMAIN records \subseteq Given(p), NEW r
  PROVE  /\ IsFiniteSet(Chunk(records, r))
         /\ \A x \in Chunk(records, r) : x.id \in Nat
  <1> DEFINE ids == DOMAIN records
             n == Cardinality(ids)
             places == {j \in 1 .. n : r.at < j /\ j <= r.at + ContactsPage}
             s == SortedIds(ids)
             page == Page(ids, r.at)
             row == [i \in page |-> [id |-> i, of |-> records[i]]]
  <1>1. IsFiniteSet(ids) /\ ids \subseteq Nat
    BY FiniteGiven
  <1>2. n \in Nat
    BY <1>1, FS_CardinalityType
  <1>3. \A j \in 1 .. n : s[j] \in ids
    <2> HIDE DEF ids
    <2> QED BY <1>1, SortedProperties
  <1>4. page = {s[j] : j \in places}
    BY DEF Page
  <1>5. places \subseteq 1 .. n
    OBVIOUS
  <1> HIDE DEF places, n, s
  <1>6. IsFiniteSet(places)
    <2>1. IsFiniteSet(1 .. n)
      BY <1>2, FS_Interval
    <2> QED BY <1>5, <2>1, FS_Subset
  <1>7. IsFiniteSet(page) /\ page \subseteq Nat
    <2> HIDE DEF page
    <2>1. page \subseteq Nat
      BY <1>1, <1>3, <1>4, <1>5
    <2>2. IsFiniteSet({s[j] : j \in places})
      BY <1>6, FiniteImage
    <2> QED BY <1>4, <2>1, <2>2
  <1>8. Chunk(records, r) = {row[i] : i \in page}
    BY DEF Chunk
  <1>9. \A i \in page : row[i].id = i
    OBVIOUS
  <1> HIDE DEF page, row
  <1>10. IsFiniteSet({row[i] : i \in page})
    BY <1>7, FiniteImage
  <1> QED BY <1>7, <1>8, <1>9, <1>10

\* The rows of a listing so far.
Listed(records, r) == r.val \cup Chunk(records, r)

LEMMA ListedRows ==
  ASSUME NEW p, IsPortal(p), NEW staff, NEW records, DOMAIN records \subseteq Given(p),
         NEW r, Good(p, staff, r), r.use \in Listings
  PROVE  /\ IsFiniteSet(Listed(records, r))
         /\ \A x \in Listed(records, r) : x.id \in Nat
         /\ GoodScript(p, staff, <<[r EXCEPT !.at = NextStart(@), !.val = Listed(records, r)]>>)
  <1> DEFINE rows == Listed(records, r)
             next == [r EXCEPT !.at = NextStart(@), !.val = rows]
  <1>1. IsFiniteSet(rows) /\ \A x \in rows : x.id \in Nat
    <2>1. IsFiniteSet(r.val) /\ \A x \in r.val : x.id \in Nat
      BY DEF Good, IsRequest
    <2> QED BY <2>1, PageRows, FS_Union DEF Listed
  <1> HIDE DEF rows
  <1>2. /\ DOMAIN next = RequestFields /\ next.op = r.op /\ next.use = r.use
        /\ next.val = rows
    BY DEF Good, IsRequest, RequestFields
  <1> HIDE DEF next
  <1>3. r.op \in {"contacts", "deals", "tasks"}
    BY DEF Good, IsRequest
  <1>4. Good(p, staff, next)
    BY <1>1, <1>2, <1>3 DEF Good, IsRequest, Listings, OfContact, OfDeal
  <1> QED BY <1>1, <1>4, OneRequest DEF rows, next

\* The members of a set in any order, one request for each.
LEMMA GoodInAnyOrder ==
  ASSUME NEW p, NEW staff, NEW S, IsFiniteSet(S), NEW order \in SetToSeqs(S),
         NEW s, s = [i \in DOMAIN order |-> s[i]],
         \A i \in DOMAIN order : order[i] \in S => Good(p, staff, s[i])
  PROVE  GoodScript(p, staff, s)
  <1>1. IsList(order) /\ \A i \in DOMAIN order : order[i] \in S
    BY AnyOrder
  <1> QED BY <1>1, GoodForEach

\* The numbers of a set in order, one request for each.
LEMMA GoodSorted ==
  ASSUME NEW p, NEW staff, NEW S, IsFiniteSet(S), S \subseteq Nat,
         NEW s, s = [i \in DOMAIN SortedIds(S) |-> s[i]],
         \A i \in DOMAIN SortedIds(S) : SortedIds(S)[i] \in S => Good(p, staff, s[i])
  PROVE  GoodScript(p, staff, s)
  <1>1. IsList(SortedIds(S)) /\ DOMAIN SortedIds(S) = 1 .. Cardinality(S)
    BY SortedIsList
  <1>2. \A i \in DOMAIN SortedIds(S) : SortedIds(S)[i] \in S
    BY <1>1, SortedProperties
  <1> QED BY <1>1, <1>2, GoodForEach

LEMMA MergePlanIsGood ==
  ASSUME NEW p, NEW staff, NEW group, IsFiniteSet(group), group \subseteq Nat
  PROVE  GoodScript(p, staff, MergePlan(group))
  <1> DEFINE first == PickCanonicalID(group)
             S == group \ {first}
             s == MergePlan(group)
  <1>1. /\ s = [i \in DOMAIN SortedIds(S) |-> s[i]]
        /\ \A i \in DOMAIN SortedIds(S) : s[i] = MergeContacts(first, SortedIds(S)[i])
    BY DEF MergePlan, ForEach
  <1>2. IsFiniteSet(S) /\ S \subseteq Nat /\ first \notin S
    BY FS_Subset
  <1> HIDE DEF S, s, first
  <1>3. ASSUME NEW i \in DOMAIN SortedIds(S), SortedIds(S)[i] \in S
        PROVE  Good(p, staff, s[i])
    <2>1. Asks(MergeContacts(first, SortedIds(S)[i]), "merge", first, SortedIds(S)[i], "")
      BY RequestShapes DEF MergeContacts
    <2> QED BY <1>1, <1>2, <1>3, <2>1, MergeIsGood
  <1>4. GoodScript(p, staff, s)
    BY <1>1, <1>2, <1>3, GoodSorted
  <1> QED BY <1>4 DEF s

\* crm_dedupe_plan.go:175: of the rows that say the same one stays, the better one.
LEMMA RepeatedRowsAreRedundant ==
  ASSUME NEW p, IsPortal(p), NEW c \in DOMAIN p.contacts
  PROVE  /\ GroupContactInfoRows(RowsOf(p, c)) \subseteq Given(p)
         /\ \A v \in GroupContactInfoRows(RowsOf(p, c)) : Redundant(p, c, v)
  <1> DEFINE rows == RowsOf(p, c)
             Same(y) == {x \in rows : x.key = y.key}
             First(y) == {x \in Same(y) : x.primary}
             Best(y) == IF First(y) = {} THEN Same(y) ELSE First(y)
             Keep(y) == Min({x.id : x \in Best(y)})
  <1>1. GroupContactInfoRows(rows) = {x.id : x \in {y \in rows : y.id # Keep(y)}}
    BY DEF GroupContactInfoRows
  <1>2. Given(p) \subseteq Nat /\ c \in Given(p)
    BY FiniteGiven DEF IsPortal, HasNumbers
  <1>3. \A x \in rows : x.id \in Given(p) /\ x.id \in Nat /\ x.primary \in BOOLEAN
    BY <1>2 DEF IsPortal, HasContacts, IsRow
  <1>4. \A d \in DOMAIN p.contacts : \A x \in RowsOf(p, d), y \in rows :
           x.id = y.id => d = c /\ x = y
    BY DEF IsPortal, HasContacts
  <1> HIDE DEF rows
  <1>5. ASSUME NEW y \in rows, y.id # Keep(y)
        PROVE  \E x \in rows : Better(x, y)
    <2> DEFINE ids == {x.id : x \in Best(y)}
    <2>1. Best(y) # {} /\ Best(y) \subseteq Same(y) /\ Same(y) \subseteq rows
      OBVIOUS
    <2>2. First(y) = {} => Best(y) = Same(y)
      OBVIOUS
    <2>3. First(y) # {} => \A x \in Best(y) : x.primary
      OBVIOUS
    <2>4. \A x \in Same(y) : x.key = y.key /\ (x.primary => First(y) # {})
      OBVIOUS
    <2>5. y \in Same(y) /\ (y.primary => y \in Best(y)) /\ (First(y) = {} => y \in Best(y))
      OBVIOUS
    <2> HIDE DEF Best, Same, First
    <2>6. ids # {} /\ ids \subseteq Nat
      BY <1>3, <2>1
    <2>7. Keep(y) \in ids /\ \A i \in ids : Keep(y) <= i
      <3>1. Keep(y) = CHOOSE n \in ids : \A m \in ids : n <= m
        BY DEF Min
      <3> HIDE DEF ids, Keep
      <3>2. \E n \in ids : \A m \in ids : n <= m
        BY <2>6, LeastNat
      <3> QED BY <3>1, <3>2
    <2>8. PICK x \in Best(y) : x.id = Keep(y)
      BY <2>7
    <2>9. x \in rows /\ x.key = y.key /\ x.id \in Nat /\ y.id \in Nat
      BY <1>3, <2>1, <2>4
    <2>10. y \in Best(y) => x.id < y.id
      <3>1. y \in Best(y) => x.id <= y.id
        BY <2>7, <2>8
      <3>2. x.id # y.id
        BY <1>5, <2>8
      <3> HIDE DEF Keep
      <3> QED BY <2>9, <3>1, <3>2
    <2>11. Better(x, y)
      <3>1. CASE x.primary
        BY <2>5, <2>9, <2>10, <3>1 DEF Better
      <3>2. CASE ~x.primary
        <4>1. First(y) = {}
          BY <2>3, <3>2
        <4>2. ~y.primary /\ y \in Best(y)
          BY <2>4, <2>5, <4>1
        <4> QED BY <2>9, <2>10, <3>2, <4>2 DEF Better
      <3> QED BY <3>1, <3>2
    <2> QED BY <2>9, <2>11
  <1> HIDE DEF Keep
  <1>6. ASSUME NEW y \in rows, y.id # Keep(y) PROVE Redundant(p, c, y.id)
    BY <1>2, <1>3, <1>4, <1>5, <1>6 DEF Redundant, rows
  <1> QED BY <1>1, <1>3, <1>6 DEF rows

\* The groups of a pass: sets of listed numbers.
LEMMA GroupsAreFinite ==
  ASSUME NEW rows, IsFiniteSet(rows), \A x \in rows : x.id \in Nat,
         NEW groups, groups \subseteq SUBSET {x.id : x \in rows}
  PROVE  IsFiniteSet(groups) /\ \A g \in groups : IsFiniteSet(g) /\ g \subseteq Nat
  <1> DEFINE ids == {x.id : x \in rows}
  <1>1. IsFiniteSet(ids) /\ ids \subseteq Nat
    BY FiniteIds
  <1> HIDE DEF ids
  <1>2. IsFiniteSet(SUBSET ids)
    BY <1>1, FS_SUBSET
  <1>3. groups \subseteq SUBSET ids
    BY DEF ids
  <1> QED BY <1>1, <1>2, <1>3, FS_Subset

\* A pass that works off its groups with good scripts.
LEMMA GoodGroups ==
  ASSUME NEW p, NEW staff, NEW groups, IsFiniteSet(groups), NEW order \in SetToSeqs(groups),
         NEW seqs, seqs = [i \in DOMAIN order |-> seqs[i]],
         \A i \in DOMAIN order : order[i] \in groups => GoodScript(p, staff, seqs[i])
  PROVE  GoodScript(p, staff, FlattenSeq(seqs))
  <1>1. IsList(order) /\ \A i \in DOMAIN order : order[i] \in groups
    BY AnyOrder
  <1>2. Len(order) \in Nat /\ DOMAIN order = 1 .. Len(order)
    BY <1>1, ListShape
  <1>3. IsList(seqs) /\ DOMAIN seqs = DOMAIN order
    BY <1>2, FunctionIsList
  <1> QED BY <1>1, <1>3, GoodFlatten

\* The three passes that merge contacts.
LEMMA MergePassesAreGood ==
  ASSUME NEW p, NEW staff, NEW rows, IsFiniteSet(rows), \A x \in rows : x.id \in Nat,
         NEW script,
         script \in DedupeCompanies(rows) \cup DedupePersons(rows) \cup DedupeCompanyPersons(rows)
  PROVE  GoodScript(p, staff, script)
  <1>1. PICK groups, order :
           /\ groups \subseteq SUBSET {x.id : x \in rows} /\ order \in SetToSeqs(groups)
           /\ script = FlattenSeq(ForEach(order, MergePlan))
    <2>1. CASE script \in DedupeCompanies(rows)
      <3> DEFINE groups == Groups({x \in rows : x.of.company},
                                  LAMBDA c : CompanyGroupingKey(c.name))
      <3>1. \E order \in SetToSeqs(groups) : script = FlattenSeq(ForEach(order, MergePlan))
        BY <2>1 DEF DedupeCompanies, InAnyOrder
      <3>2. groups \subseteq SUBSET {x.id : x \in rows}
        BY DEF Groups
      <3> HIDE DEF groups
      <3> QED BY <3>1, <3>2
    <2>2. CASE script \in DedupePersons(rows)
      <3> DEFINE groups == Groups({x \in rows : ~x.of.company},
                                  LAMBDA c : NormalizePersonKey(c.name))
      <3>1. \E order \in SetToSeqs(groups) : script = FlattenSeq(ForEach(order, MergePlan))
        BY <2>2 DEF DedupePersons, InAnyOrder
      <3>2. groups \subseteq SUBSET {x.id : x \in rows}
        BY DEF Groups
      <3> HIDE DEF groups
      <3> QED BY <3>1, <3>2
    <2>3. CASE script \in DedupeCompanyPersons(rows)
      <3> DEFINE groups == Groups({x \in rows : ~x.of.company /\ x.of.org # NoOne},
                                  LAMBDA c : <<c.org, NormalizePersonKey(c.name)>>)
      <3>1. \E order \in SetToSeqs(groups) : script = FlattenSeq(ForEach(order, MergePlan))
        BY <2>3 DEF DedupeCompanyPersons, InAnyOrder
      <3>2. groups \subseteq SUBSET {x.id : x \in rows}
        BY DEF Groups
      <3> HIDE DEF groups
      <3> QED BY <3>1, <3>2
    <2> QED BY <2>1, <2>2, <2>3
  <1> DEFINE seqs == ForEach(order, MergePlan)
  <1>2. IsFiniteSet(groups) /\ \A g \in groups : IsFiniteSet(g) /\ g \subseteq Nat
    BY <1>1, GroupsAreFinite
  <1>3. /\ seqs = [i \in DOMAIN order |-> seqs[i]]
        /\ \A i \in DOMAIN order : seqs[i] = MergePlan(order[i])
    BY DEF ForEach
  <1> HIDE DEF seqs
  <1>4. \A i \in DOMAIN order : order[i] \in groups => GoodScript(p, staff, seqs[i])
    BY <1>2, <1>3, MergePlanIsGood
  <1>5. GoodScript(p, staff, FlattenSeq(seqs))
    BY <1>1, <1>2, <1>3, <1>4, GoodGroups
  <1> QED BY <1>1, <1>5 DEF seqs

\* The requests of the passes that read a record again, and of the one for tasks.
LEMMA ReadsAreGood ==
  ASSUME NEW p, NEW staff, NEW at, NEW val
  PROVE  /\ Good(p, staff, For("rows", Request("contact", at, val, "count")))
         /\ Good(p, staff, For("members", Request("deal", at, val, "count")))
         /\ Good(p, staff, For("relink", Request("deal", at, val, "count")))
         /\ Good(p, staff, For("rename", Request("deal", at, val, "count")))
  <1>1. ASSUME NEW r, NEW op \in {"contact", "deal"}, NEW use \in {"rows", "members", "relink", "rename"},
               Asks(r, op, at, val, use), use = "rows" <=> op = "contact"
        PROVE  Good(p, staff, r)
    BY <1>1 DEF Asks, Good, IsRequest, Listings, OfContact, OfDeal
  <1>2. Good(p, staff, For("rows", Request("contact", at, val, "count")))
    <2>1. Asks(For("rows", Request("contact", at, val, "count")), "contact", at, val, "rows")
      BY RequestShapes
    <2> QED BY <1>1, <2>1
  <1>3. ASSUME NEW use \in {"members", "relink", "rename"}
        PROVE  Good(p, staff, For(use, Request("deal", at, val, "count")))
    <2>1. Asks(For(use, Request("deal", at, val, "count")), "deal", at, val, use)
      BY RequestShapes
    <2> QED BY <1>1, <2>1
  <1> QED BY <1>2, <1>3

LEMMA PutTaskIsGood ==
  ASSUME NEW p, NEW staff, NEW at, NEW val, NEW r,
         r = [Must("put task", at, val) EXCEPT !.counts = TRUE]
  PROVE  Good(p, staff, r)
  <1>1. Asks(r, "put task", at, val, "")
    BY RequestShapes
  <1> QED BY <1>1 DEF Asks, Good, IsRequest, Listings, OfContact, OfDeal

\* The pass that reads the deals of each group again.
LEMMA RelinkPassIsGood ==
  ASSUME NEW p, NEW staff, NEW rows, IsFiniteSet(rows), \A x \in rows : x.id \in Nat,
         NEW ignore, NEW script, script \in DedupeOpportunities(rows, ignore)
  PROVE  GoodScript(p, staff, script)
  <1> DEFINE Relink(group) ==
                ForEach(SortedIds(group \ {PickCanonicalID(group)}), LAMBDA sec :
                    For("relink", Request("deal", sec, PickCanonicalID(group), "count")))
  <1>1. PICK groups, order :
           /\ groups \subseteq SUBSET {x.id : x \in rows} /\ order \in SetToSeqs(groups)
           /\ script = FlattenSeq([i \in DOMAIN order |-> Relink(order[i])])
    <2> DEFINE all == Groups(rows, LAMBDA d : DealTitleKey(d.title, ignore))
    <2>1. \E order \in SetToSeqs(all) : script = FlattenSeq([i \in DOMAIN order |-> Relink(order[i])])
      BY DEF DedupeOpportunities, InAnyOrder, ForEach
    <2>2. all \subseteq SUBSET {x.id : x \in rows}
      BY DEF Groups
    <2> HIDE DEF all, Relink
    <2> QED BY <2>1, <2>2
  <1>2. IsFiniteSet(groups) /\ \A g \in groups : IsFiniteSet(g) /\ g \subseteq Nat
    BY <1>1, GroupsAreFinite
  <1>3. ASSUME NEW g \in groups PROVE GoodScript(p, staff, Relink(g))
    <2> DEFINE first == PickCanonicalID(g)
               S == g \ {first}
               s == Relink(g)
    <2>1. /\ s = [i \in DOMAIN SortedIds(S) |-> s[i]]
          /\ \A i \in DOMAIN SortedIds(S) :
                s[i] = For("relink", Request("deal", SortedIds(S)[i], first, "count"))
      BY DEF ForEach
    <2>2. IsFiniteSet(S) /\ S \subseteq Nat
      BY <1>2, FS_Subset
    <2> HIDE DEF s, S, first
    <2>3. \A i \in DOMAIN SortedIds(S) : Good(p, staff, s[i])
      BY <2>1, ReadsAreGood
    <2>4. GoodScript(p, staff, s)
      BY <2>1, <2>2, <2>3, GoodSorted
    <2> QED BY <2>4 DEF s
  <1> DEFINE seqs == [i \in DOMAIN order |-> Relink(order[i])]
  <1> HIDE DEF Relink
  <1>4. seqs = [i \in DOMAIN order |-> seqs[i]] /\ \A i \in DOMAIN order : seqs[i] = Relink(order[i])
    OBVIOUS
  <1> HIDE DEF seqs
  <1>5. GoodScript(p, staff, FlattenSeq(seqs))
    BY <1>1, <1>2, <1>3, <1>4, GoodGroups
  <1> QED BY <1>1, <1>5 DEF seqs

\* A request for each row of a listing.
LEMMA RowPassesAreGood ==
  ASSUME NEW p, NEW staff, NEW rows, IsFiniteSet(rows),
         NEW script,
         script \in DedupeContactInfo(rows) \cup DedupeOpportunityMembers(rows)
                      \cup FixOpportunityTitles(rows) \cup Reassign(rows)
  PROVE  GoodScript(p, staff, script)
  <1>1. ASSUME NEW some, some \subseteq rows,
               NEW s, s = [i \in DOMAIN InOrder(some) |-> s[i]],
               \A i \in DOMAIN InOrder(some) : Good(p, staff, s[i])
        PROVE  GoodScript(p, staff, s)
    <2>1. IsFiniteSet(some)
      BY <1>1, FS_Subset
    <2> QED BY <1>1, <2>1, InOrderIsList, GoodForEach
  <1>2. CASE script \in DedupeContactInfo(rows)
    <2>1. /\ script = [i \in DOMAIN InOrder(rows) |-> script[i]]
          /\ \A i \in DOMAIN InOrder(rows) :
                script[i] = For("rows", Request("contact", InOrder(rows)[i].id, 0, "count"))
      BY <1>2 DEF DedupeContactInfo, ForEach
    <2>2. \A i \in DOMAIN InOrder(rows) : Good(p, staff, script[i])
      BY <2>1, ReadsAreGood
    <2> QED BY <1>1, <2>1, <2>2
  <1>3. CASE script \in DedupeOpportunityMembers(rows)
    <2>1. /\ script = [i \in DOMAIN InOrder(rows) |-> script[i]]
          /\ \A i \in DOMAIN InOrder(rows) :
                script[i] = For("members", Request("deal", InOrder(rows)[i].id, 0, "count"))
      BY <1>3 DEF DedupeOpportunityMembers, ForEach
    <2>2. \A i \in DOMAIN InOrder(rows) : Good(p, staff, script[i])
      BY <2>1, ReadsAreGood
    <2> QED BY <1>1, <2>1, <2>2
  <1>4. CASE script \in FixOpportunityTitles(rows)
    <2> DEFINE some == {x \in rows : FixDealTitle(x.of.title) # x.of.title}
    <2>1. /\ script = [i \in DOMAIN InOrder(some) |-> script[i]]
          /\ \A i \in DOMAIN InOrder(some) :
                script[i] = For("rename", Request("deal", InOrder(some)[i].id,
                                            FixDealTitle(InOrder(some)[i].of.title), "count"))
      BY <1>4 DEF FixOpportunityTitles, ForEach
    <2> HIDE DEF some
    <2>2. \A i \in DOMAIN InOrder(some) : Good(p, staff, script[i])
      BY <2>1, ReadsAreGood
    <2>3. some \subseteq rows
      BY DEF some
    <2> QED BY <1>1, <2>1, <2>2, <2>3
  <1>5. CASE script \in Reassign(rows)
    <2> DEFINE some == {x \in rows : NeedsOwner(x.of)}
               mine(i) == [InOrder(some)[i].of EXCEPT !.owner = "self"]
    <2>1. /\ script = [i \in DOMAIN InOrder(some) |-> script[i]]
          /\ \A i \in DOMAIN InOrder(some) :
                script[i] = [Must("put task", InOrder(some)[i].id, mine(i)) EXCEPT !.counts = TRUE]
      BY <1>5 DEF Reassign, ForEach
    <2> HIDE DEF some, mine
    <2>2. \A i \in DOMAIN InOrder(some) : Good(p, staff, script[i])
      BY <2>1, PutTaskIsGood
    <2>3. some \subseteq rows
      BY DEF some
    <2> QED BY <1>1, <2>1, <2>2, <2>3
  <1> QED BY <1>2, <1>3, <1>4, <1>5

LEMMA FixNamesIsGood ==
  ASSUME NEW p, NEW staff, NEW rows, IsFiniteSet(rows), NEW script, script \in FixNames(rows)
  PROVE  GoodScript(p, staff, script)
  <1> DEFINE some == {x \in rows : ~x.of.company /\ CleanPersonNames(x.of.name) # x.of.name}
             list == InOrder(some)
             update(i) == UpdatePerson(list[i].id, CleanPersonNames(list[i].of.name),
                                       list[i].of.org, TRUE)
             seqs == [i \in DOMAIN list |-> update(i)]
  <1>1. script = FlattenSeq(seqs)
    BY DEF FixNames, ForEach
  <1>2. some \subseteq rows
    OBVIOUS
  <1> HIDE DEF some
  <1>3. IsList(list)
    BY <1>2, FS_Subset, InOrderIsList
  <1>4. \A i \in DOMAIN list : GoodScript(p, staff, update(i))
    BY UpdatePersonIsGood
  <1> HIDE DEF list, update
  <1>5. seqs = [i \in DOMAIN list |-> seqs[i]] /\ \A i \in DOMAIN list : seqs[i] = update(i)
    OBVIOUS
  <1> HIDE DEF seqs
  <1>6. Len(list) \in Nat /\ DOMAIN list = 1 .. Len(list)
    BY <1>3, ListShape
  <1>7. IsList(seqs) /\ DOMAIN seqs = DOMAIN list
    BY <1>5, <1>6, FunctionIsList
  <1> QED BY <1>1, <1>4, <1>5, <1>7, GoodFlatten

LEMMA DryRunIsGood ==
  ASSUME NEW p, NEW staff, NEW scripts, \A s \in scripts : GoodScript(p, staff, s),
         NEW script \in DryRun(scripts)
  PROVE  GoodScript(p, staff, script)
  <1>1. PICK s \in scripts : script = [i \in DOMAIN s |-> Counted(s[i])]
    BY DEF DryRun, ForEach
  <1>2. IsList(s) /\ \A i \in DOMAIN s : Good(p, staff, s[i])
    BY DEF GoodScript, ToSet
  <1>3. script = [i \in DOMAIN s |-> script[i]] /\ \A i \in DOMAIN s : script[i] = Counted(s[i])
    BY <1>1
  <1>4. \A i \in DOMAIN s : Good(p, staff, script[i])
    BY <1>2, <1>3, CountedIsGood
  <1> QED BY <1>2, <1>3, <1>4, GoodForEach

\* crm_dedupe.go:97: the repeated rows of a contact that has just been read.
LEMMA DropRowsIsGood ==
  ASSUME NEW p, IsPortal(p), NEW staff, NEW c \in DOMAIN p.contacts,
         NEW script \in DropRows(p, c)
  PROVE  GoodScript(p, staff, script)
  <1> DEFINE S == GroupContactInfoRows(p.contacts[c].rows)
  <1>1. PICK order \in SetToSeqs(S) :
           script = [i \in DOMAIN order |-> Tally("drop row", c, order[i])]
    BY DEF DropRows, ForEach
  <1>2. S \subseteq Given(p) /\ \A v \in S : Redundant(p, c, v)
    BY RepeatedRowsAreRedundant DEF RowsOf
  <1> HIDE DEF S
  <1>3. IsFiniteSet(S)
    BY <1>2, FiniteGiven
  <1>4. ASSUME NEW v \in S PROVE Good(p, staff, Tally("drop row", c, v))
    <2>1. Asks(Tally("drop row", c, v), "drop row", c, v, "")
      BY RequestShapes
    <2> QED BY <1>2, <2>1, DropRowIsGood
  <1>5. /\ script = [i \in DOMAIN order |-> script[i]]
        /\ \A i \in DOMAIN order : order[i] \in S => Good(p, staff, script[i])
    BY <1>1, <1>4
  <1> QED BY <1>1, <1>3, <1>5, GoodInAnyOrder

LEMMA PlainIsGood ==
  ASSUME NEW p, NEW staff, NEW op \in Harmless, NEW at, NEW val
  PROVE  Good(p, staff, Tally(op, at, val)) /\ Good(p, staff, Try(op, at, val))
  <1>1. ASSUME NEW r, Asks(r, op, at, val, "") PROVE Good(p, staff, r)
    BY <1>1 DEF Asks, Harmless, Good, IsRequest, Listings, OfContact, OfDeal
  <1>2. Asks(Tally(op, at, val), op, at, val, "") /\ Asks(Try(op, at, val), op, at, val, "")
    BY RequestShapes
  <1> QED BY <1>1, <1>2

LEMMA DealScriptsAreGood ==
  ASSUME NEW p, IsPortal(p), NEW staff, NEW d \in DOMAIN p.deals, NEW val, NEW script,
         \/ script \in RemoveMembers(p, d)
         \/ script \in RelinkMembers(p, d, val)
         \/ script \in UpdateOpportunityTitle(p, d, val)
         \/ script = <<Must("put deal", d, OpportunityUpdateBody(p.deals[d], val))>>
  PROVE  GoodScript(p, staff, script)
  <1>0. p.deals[d].members \subseteq Given(p) /\ DOMAIN p.deals[d] = DealFields
    BY PortalFields
  <1>1. CASE script \in RemoveMembers(p, d)
    <2> DEFINE S == DedupeMembersByDisplayName(p.contacts, p.deals[d].members)
    <2>1. PICK order \in SetToSeqs(S) :
             script = [i \in DOMAIN order |-> Tally("remove member", d, order[i])]
      BY <1>1 DEF RemoveMembers, ForEach
    <2>2. S \subseteq Given(p)
      BY <1>0 DEF DedupeMembersByDisplayName
    <2> HIDE DEF S
    <2>3. IsFiniteSet(S)
      BY <2>2, FiniteGiven
    <2>4. \A m : Good(p, staff, Tally("remove member", d, m))
      BY PlainIsGood DEF Harmless
    <2>5. /\ script = [i \in DOMAIN order |-> script[i]]
          /\ \A i \in DOMAIN order : Good(p, staff, script[i])
      BY <2>1, <2>4
    <2> QED BY <2>1, <2>3, <2>5, GoodInAnyOrder
  <1>2. CASE script \in RelinkMembers(p, d, val)
    <2> DEFINE S == p.deals[d].members
               adds == [i \in DOMAIN SortedIds(S) |-> Try("add member", val, SortedIds(S)[i])]
               drop == Tally("drop deal", d, 0)
    <2>1. script = adds \o <<drop>>
      BY <1>2 DEF RelinkMembers, ForEach
    <2>2. IsFiniteSet(S) /\ S \subseteq Nat
      BY <1>0, FiniteGiven
    <2> HIDE DEF S
    <2>3. /\ adds = [i \in DOMAIN SortedIds(S) |-> adds[i]]
          /\ \A i \in DOMAIN SortedIds(S) : adds[i] = Try("add member", val, SortedIds(S)[i])
      OBVIOUS
    <2>4. \A m : Good(p, staff, Try("add member", val, m))
      BY PlainIsGood DEF Harmless
    <2>5. Good(p, staff, drop)
      BY PlainIsGood DEF Harmless
    <2> HIDE DEF adds, drop
    <2>6. \A i \in DOMAIN SortedIds(S) : Good(p, staff, adds[i])
      BY <2>3, <2>4
    <2>7. GoodScript(p, staff, adds)
      BY <2>2, <2>3, <2>6, GoodSorted
    <2> QED BY <2>1, <2>5, <2>7, OneRequest, GoodConcat
  <1>3. ASSUME NEW r, Asks(r, "put deal", d, OpportunityUpdateBody(p.deals[d], val), "")
        PROVE  GoodScript(p, staff, <<r>>)
    <2>1. DOMAIN OpportunityUpdateBody(p.deals[d], val) = DealFields
      BY <1>0 DEF OpportunityUpdateBody
    <2>2. Good(p, staff, r)
      BY <1>3, <2>1, PutDealIsGood
    <2> QED BY <2>2, OneRequest
  <1>4. CASE script \in UpdateOpportunityTitle(p, d, val)
    BY <1>3, <1>4, RequestShapes DEF UpdateOpportunityTitle
  <1>5. CASE script = <<Must("put deal", d, OpportunityUpdateBody(p.deals[d], val))>>
    BY <1>3, <1>5, RequestShapes
  <1> QED BY <1>1, <1>2, <1>4, <1>5

\* contacts.go, opportunities.go: the rows and members of what has just been created.
LEMMA CreatedScriptsAreGood ==
  ASSUME NEW p, NEW staff, NEW r, NEW script,
         \/ script \in AfterCreate(p, r)
         \/ IsList(r.extra) /\ script \in AfterDeal(p, r)
  PROVE  GoodScript(p, staff, script)
  <1>1. CASE script \in AfterCreate(p, r)
    <2> DEFINE about == IF r.val.company THEN <<Try("company", LastId(p), 0)>> ELSE <<>>
               r1 == Try("add row", LastId(p), NewRow(r.extra[1], TRUE))
               r2 == Try("add row", LastId(p), NewRow(r.extra[2], FALSE))
    <2>1. script = about \o <<r1, r2>>
      BY <1>1 DEF AfterCreate
    <2>2. Good(p, staff, Try("company", LastId(p), 0))
      BY PlainIsGood DEF Harmless
    <2>3. GoodScript(p, staff, about)
      BY <2>2, OneRequest, NoScript
    <2>4. ASSUME NEW key, NEW primary \in BOOLEAN, NEW id
          PROVE  Good(p, staff, Try("add row", id, NewRow(key, primary)))
      <3>1. DOMAIN NewRow(key, primary) = {"key", "primary"} /\ NewRow(key, primary).primary = primary
        BY DEF NewRow
      <3>2. Asks(Try("add row", id, NewRow(key, primary)), "add row", id, NewRow(key, primary), "")
        BY RequestShapes
      <3> QED BY <3>1, <3>2, AddRowIsGood
    <2>5. Good(p, staff, r1) /\ Good(p, staff, r2)
      BY <2>4
    <2> HIDE DEF about, r1, r2
    <2> DEFINE s == <<r1, r2>>
    <2>6. s \in Seq({r1, r2})
      OBVIOUS
    <2> HIDE DEF s
    <2>7. IsList(s) /\ \A i \in DOMAIN s : s[i] \in {r1, r2}
      BY <2>6, SeqIsList
    <2>8. GoodScript(p, staff, s)
      BY <2>5, <2>7 DEF GoodScript, ToSet
    <2> QED BY <2>1, <2>3, <2>8, GoodConcat DEF s
  <1>2. CASE IsList(r.extra) /\ script \in AfterDeal(p, r)
    <2>1. /\ script = [i \in DOMAIN r.extra |-> script[i]]
          /\ \A i \in DOMAIN r.extra : script[i] = Try("add member", LastId(p), r.extra[i])
      BY <1>2 DEF AfterDeal, ForEach
    <2>2. \A c : Good(p, staff, Try("add member", LastId(p), c))
      BY PlainIsGood DEF Harmless
    <2>3. \A i \in DOMAIN r.extra : Good(p, staff, script[i])
      BY <2>1, <2>2
    <2> QED BY <1>2, <2>1, <2>3, GoodForEach
  <1> QED BY <1>1, <1>2

\* Whatever the answer to a good request brings is good: q is the portal that answers.
LEMMA ListingThenIsGood ==
  ASSUME NEW q, IsPortal(q), NEW staff, NEW r, Good(q, staff, r), r.use \in Listings,
         NEW script \in CRMThen(q, r)
  PROVE  GoodScript(q, staff, script)
  <1> DEFINE records == IF r.use \in {"companies", "persons", "company-persons", "contact-info",
                                      "fix names", "names to fix"} THEN q.contacts
                        ELSE IF r.use \in {"reassign", "to reassign"} THEN q.tasks
                        ELSE Deals(q)
             rows == Listed(records, r)
             next == <<[r EXCEPT !.at = NextStart(@), !.val = rows]>>
  <1>1. DOMAIN records \subseteq Given(q)
    BY DEF IsPortal, HasNumbers, Deals, Restrict
  <1>2. r.op \notin {"add contact", "add deal"}
    BY DEF Good, IsRequest
  <1>3. IsFiniteSet(rows) /\ (\A x \in rows : x.id \in Nat) /\ GoodScript(q, staff, next)
    <2> HIDE DEF records
    <2> QED BY <1>1, ListedRows
  <1>4. CASE script = next
    BY <1>3, <1>4
  <1>5. CASE script # next
    <2>1. CASE r.use = "companies"
      <3>1. script \in DedupeCompanies(rows)
        BY <1>2, <1>5, <2>1 DEF CRMThen, CleanupThen, Paged, Listed, Chunk
      <3> HIDE DEF rows
      <3> QED BY <1>3, <3>1, MergePassesAreGood
    <2>2. CASE r.use = "persons"
      <3>1. script \in DedupePersons(rows)
        BY <1>2, <1>5, <2>2 DEF CRMThen, CleanupThen, Paged, Listed, Chunk
      <3> HIDE DEF rows
      <3> QED BY <1>3, <3>1, MergePassesAreGood
    <2>3. CASE r.use = "company-persons"
      <3>1. script \in DedupeCompanyPersons(rows)
        BY <1>2, <1>5, <2>3 DEF CRMThen, CleanupThen, Paged, Listed, Chunk
      <3> HIDE DEF rows
      <3> QED BY <1>3, <3>1, MergePassesAreGood
    <2>4. CASE r.use = "contact-info"
      <3>1. script \in DedupeContactInfo(rows)
        BY <1>2, <1>5, <2>4 DEF CRMThen, CleanupThen, Paged, Listed, Chunk
      <3> HIDE DEF rows
      <3> QED BY <1>3, <3>1, RowPassesAreGood
    <2>5. CASE r.use = "opportunity-members"
      <3>1. script \in DedupeOpportunityMembers(rows)
        BY <1>2, <1>5, <2>5 DEF CRMThen, CleanupThen, Paged, Listed, Chunk
      <3> HIDE DEF rows
      <3> QED BY <1>3, <3>1, RowPassesAreGood
    <2>6. CASE r.use = "opportunities"
      <3>1. script \in DedupeOpportunities(rows, FALSE)
        BY <1>2, <1>5, <2>6 DEF CRMThen, CleanupThen, Paged, Listed, Chunk
      <3> HIDE DEF rows
      <3> QED BY <1>3, <3>1, RelinkPassIsGood
    <2>7. CASE r.use = "positions"
      <3>1. script \in DedupeOpportunities(rows, TRUE)
        BY <1>2, <1>5, <2>7 DEF CRMThen, CleanupThen, Paged, Listed, Chunk
      <3> HIDE DEF rows
      <3> QED BY <1>3, <3>1, RelinkPassIsGood
    <2>8. CASE r.use = "fix-titles"
      <3>1. script \in FixOpportunityTitles(rows)
        BY <1>2, <1>5, <2>8 DEF CRMThen, CleanupThen, Paged, Listed, Chunk
      <3> HIDE DEF rows
      <3> QED BY <1>3, <3>1, RowPassesAreGood
    <2>9. CASE r.use = "fix names"
      <3>1. script \in FixNames(rows)
        BY <1>2, <1>5, <2>9 DEF CRMThen, Paged, Listed, Chunk
      <3> HIDE DEF rows
      <3> QED BY <1>3, <3>1, FixNamesIsGood
    <2>10. CASE r.use = "names to fix"
      <3>1. script \in DryRun(FixNames(rows))
        BY <1>2, <1>5, <2>10 DEF CRMThen, Paged, Listed, Chunk
      <3> HIDE DEF rows
      <3>2. \A s \in FixNames(rows) : GoodScript(q, staff, s)
        BY <1>3, FixNamesIsGood
      <3> QED BY <3>1, <3>2, DryRunIsGood
    <2>11. CASE r.use = "reassign"
      <3>1. script \in Reassign(rows)
        BY <1>2, <1>5, <2>11 DEF CRMThen, Paged, Listed, Chunk
      <3> HIDE DEF rows
      <3> QED BY <1>3, <3>1, RowPassesAreGood
    <2>12. CASE r.use = "to reassign"
      <3>1. script \in DryRun(Reassign(rows))
        BY <1>2, <1>5, <2>12 DEF CRMThen, Paged, Listed, Chunk
      <3> HIDE DEF rows
      <3>2. \A s \in Reassign(rows) : GoodScript(q, staff, s)
        BY <1>3, RowPassesAreGood
      <3> QED BY <3>1, <3>2, DryRunIsGood
    <2> QED BY <2>1, <2>2, <2>3, <2>4, <2>5, <2>6, <2>7, <2>8, <2>9, <2>10, <2>11, <2>12 DEF Listings
  <1> QED BY <1>4, <1>5

LEMMA ThenIsGood ==
  ASSUME NEW q, IsPortal(q), NEW staff, StaffKept(q, staff), NEW r, Good(q, staff, r),
         r.op = "contact" => r.at \in DOMAIN q.contacts,
         r.op = "deal" => r.at \in DOMAIN q.deals,
         NEW script \in CRMThen(q, r)
  PROVE  GoodScript(q, staff, script)
  <1>0. ASSUME r.op \in {"add contact", "add deal"}
        PROVE  r.use \notin {"person update", "employer", "fix names", "fix names of",
                             "names to fix", "update", "reassign", "to reassign"}
    BY <1>0 DEF Good, IsRequest, Listings, OfContact, OfDeal
  <1>1. CASE r.op = "add contact"
    <2>1. script \in AfterCreate(q, r)
      BY <1>0, <1>1 DEF CRMThen
    <2> QED BY <2>1, CreatedScriptsAreGood
  <1>2. CASE r.op = "add deal"
    <2>1. script \in AfterDeal(q, r)
      BY <1>0, <1>2 DEF CRMThen
    <2>2. IsList(r.extra)
      BY <1>2 DEF Good, IsRequest
    <2> QED BY <2>1, <2>2, CreatedScriptsAreGood
  <1>3. CASE r.use \in Listings
    BY <1>3, ListingThenIsGood
  <1>4. CASE r.use \in OfContact
    <2>1. r.op = "contact" /\ r.at \in DOMAIN q.contacts
      BY <1>4 DEF Good, IsRequest
    <2>2. CASE r.use = "rows"
      BY <2>1, <2>2, DropRowsIsGood DEF CRMThen, CleanupThen
    <2>3. CASE r.use = "employer"
      <3>1. script = PutPerson(r, q.contacts[r.at].org)
        BY <2>1, <2>3 DEF CRMThen
      <3>2. q.contacts[r.at].org # NoOne \/ r.at \notin staff \cap DOMAIN q.contacts
        BY DEF StaffKept
      <3> QED BY <2>3, <3>1, <3>2, PutPersonScript
    <2>4. CASE r.use = "person update"
      BY <2>1, <2>4, UpdatePersonIsGood DEF CRMThen
    <2> QED BY <1>4, <2>2, <2>3, <2>4 DEF OfContact
  <1>5. CASE r.use \in OfDeal
    <2>1. r.op = "deal" /\ r.at \in DOMAIN q.deals
      BY <1>5 DEF Good, IsRequest
    <2>2. CASE r.use = "members"
      BY <2>1, <2>2, DealScriptsAreGood DEF CRMThen, CleanupThen
    <2>3. CASE r.use = "relink"
      BY <2>1, <2>3, DealScriptsAreGood DEF CRMThen, CleanupThen
    <2>4. CASE r.use = "rename"
      BY <2>1, <2>4, DealScriptsAreGood DEF CRMThen, CleanupThen
    <2>5. CASE r.use = "update"
      BY <2>1, <2>5, DealScriptsAreGood DEF CRMThen, UpdateOpportunity
    <2> QED BY <1>5, <2>2, <2>3, <2>4, <2>5 DEF OfDeal
  <1>6. CASE r.use = "fix names of"
    <2>1. r.op = "company"
      BY <1>6 DEF Good, IsRequest
    <2>2. script \in FixNames(Employees(q, r.at))
      BY <1>6, <2>1 DEF CRMThen
    <2> DEFINE here == {j \in DOMAIN q.contacts : q.contacts[j].org = r.at}
               row == [i \in here |-> [id |-> i, of |-> q.contacts[i]]]
    <2>3. Employees(q, r.at) = {row[i] : i \in here}
      BY DEF Employees
    <2>4. here \subseteq Given(q)
      BY DEF IsPortal, HasNumbers
    <2> HIDE DEF here, row
    <2>5. IsFiniteSet({row[i] : i \in here})
      BY <2>4, FiniteGiven, FiniteImage
    <2> QED BY <2>2, <2>3, <2>5, FixNamesIsGood
  <1>7. CASE /\ r.op # "add contact" /\ r.op # "add deal" /\ r.use \notin Listings
             /\ r.use \notin OfContact /\ r.use \notin OfDeal /\ r.use # "fix names of"
    <2>1. script = Nothing
      BY <1>7 DEF CRMThen, CleanupThen, Listings, OfContact, OfDeal
    <2> QED BY <2>1, NoScript DEF Nothing
  <1> QED BY <1>1, <1>2, <1>3, <1>4, <1>5, <1>6, <1>7

-----------------------------------------------------------------------------
(* Sessions                                                                *)

\* Who must keep his employer, as long as no request has gone wrong.
Staff == IF faults = 0 THEN {c \in DOMAIN start.contacts : start.contacts[c].org # NoOne}
         ELSE {}

SessionFields == {"todo", "failed", "done", "errors", "dropped"}

GoodSessions(p, staff, s) ==
  /\ DOMAIN s = Actors
  /\ \A a \in Actors : DOMAIN s[a] = SessionFields /\ GoodScript(p, staff, s[a].todo)

Orderly == /\ faults \in Nat
           /\ IsPortal(portal)
           /\ InfoKept(start, portal)
           /\ StaffKept(portal, Staff)
           /\ GoodSessions(portal, Staff, session)

CRMInv == OnlyCleanupsDelete => Orderly

\* With fewer persons to look after, what was good stays good.
LEMMA FewerStaff ==
  ASSUME NEW p, NEW staff, NEW less, less \subseteq staff
  PROVE  /\ StaffKept(p, staff) => StaffKept(p, less)
         /\ \A r : Good(p, staff, r) => Good(p, less, r)
         /\ \A s : GoodScript(p, staff, s) => GoodScript(p, less, s)
  <1>1. \A r : Good(p, staff, r) => Good(p, less, r)
    BY DEF Good
  <1>2. StaffKept(p, staff) => StaffKept(p, less)
    BY DEF StaffKept
  <1> QED BY <1>1, <1>2 DEF GoodScript

\* One session goes on with a good script, the others are where they were.
LEMMA SessionsStay ==
  ASSUME NEW p, NEW q, NEW staff, Safer(p, q, staff), GoodSessions(p, staff, session),
         NEW a \in Actors, DOMAIN session' = Actors,
         \A b \in Actors \ {a} : session'[b] = session[b],
         DOMAIN session'[a] = SessionFields,
         NEW todo, session'[a].todo = todo, GoodScript(q, staff, todo)
  PROVE  GoodSessions(q, staff, session')
  <1>1. ASSUME NEW b \in Actors
        PROVE  DOMAIN session'[b] = SessionFields /\ GoodScript(q, staff, session'[b].todo)
    <2>1. CASE b = a
      BY <2>1
    <2>2. CASE b # a
      BY <2>2, ScriptStays DEF GoodSessions
    <2> QED BY <2>1, <2>2
  <1> QED BY <1>1 DEF GoodSessions

LEMMA SafeToStay ==
  ASSUME NEW p, IsPortal(p), NEW staff
  PROVE  Safer(p, p, staff)
  <1>1. p.next \in Nat
    BY DEF IsPortal, HasNumbers
  <1>2. p.next <= p.next
    BY <1>1
  <1> QED BY <1>2 DEF Safer

\* What is tried when a request fails is good: another endpoint, or a PUT without an employer
\* where there is nobody left to lose one.
LEMMA AlternativesAreGood ==
  ASSUME NEW p, NEW staff, NEW r, Good(p, staff, r),
         r.use = "employer" => r.at \notin staff \cap DOMAIN p.contacts,
         NEW script \in Alternatives(r)
  PROVE  GoodScript(p, staff, script)
  <1>1. CASE r.ways > 1
    <2> DEFINE next == [r EXCEPT !.ways = @ - 1]
    <2>1. script = <<next>>
      BY <1>1 DEF Alternatives
    <2>2. /\ DOMAIN next = RequestFields /\ next.op = r.op /\ next.at = r.at
          /\ next.val = r.val /\ next.use = r.use /\ next.extra = r.extra
      BY DEF Good, IsRequest, RequestFields
    <2> HIDE DEF next
    <2>3. Good(p, staff, next)
      BY <2>2 DEF Good, IsRequest
    <2> QED BY <2>1, <2>3, OneRequest
  <1>2. CASE ~(r.ways > 1)
    <2>1. r.use = "employer" /\ script = PutPerson(r, NoOne)
      BY <1>2 DEF Alternatives, CRMOtherwise
    <2> QED BY <2>1, PutPersonScript
  <1> QED BY <1>1, <1>2

\* A session in which a request has just failed.
LEMMA RefusedIsGood ==
  ASSUME NEW p, NEW q, NEW staff, Safer(p, q, staff), GoodSessions(p, staff, session),
         NEW a \in Actors, session[a].todo # <<>>, NEW r, r = Head(session[a].todo),
         Good(q, staff, r),
         r.use = "employer" => r.at \notin staff \cap DOMAIN q.contacts,
         Refused(a, r)
  PROVE  GoodSessions(q, staff, session')
  <1> DEFINE rest == Tail(session[a].todo)
  <1>1. GoodScript(q, staff, rest)
    <2>1. GoodScript(p, staff, session[a].todo)
      BY DEF GoodSessions
    <2> QED BY <2>1, GoodRest, ScriptStays
  <1>2. DOMAIN session = Actors /\ DOMAIN session[a] = SessionFields
    BY DEF GoodSessions
  <1> HIDE DEF rest
  <1>3. ASSUME NEW script \in Alternatives(r), Instead(a, script)
        PROVE  GoodSessions(q, staff, session')
    <2>1. GoodScript(q, staff, script)
      BY <1>3, AlternativesAreGood
    <2>2. /\ DOMAIN session' = Actors
          /\ \A b \in Actors \ {a} : session'[b] = session[b]
          /\ DOMAIN session'[a] = SessionFields
          /\ session'[a].todo = script \o rest
      BY <1>2, <1>3 DEF Instead, SessionFields, rest
    <2>3. GoodScript(q, staff, script \o rest)
      BY <1>1, <2>1, GoodConcat
    <2> QED BY <2>2, <2>3, SessionsStay
  <1>4. ASSUME DealsWith(a, r)
        PROVE  GoodSessions(q, staff, session')
    <2>1. /\ DOMAIN session' = Actors
          /\ \A b \in Actors \ {a} : session'[b] = session[b]
          /\ DOMAIN session'[a] = SessionFields
          /\ session'[a].todo \in {<<>>, rest}
      <3>1. /\ DOMAIN Broken(session[a]) = SessionFields
            /\ Broken(session[a]).todo = <<>>
        BY <1>2 DEF Broken, SessionFields
      <3>2. /\ DOMAIN Skipped(session[a], r) = SessionFields
            /\ Skipped(session[a], r).todo = rest
        BY <1>2 DEF Skipped, SessionFields, rest
      <3>3. session' = [session EXCEPT ![a] = IF r.onErr = "stop" THEN Broken(session[a])
                                              ELSE Skipped(session[a], r)]
        BY <1>4 DEF DealsWith
      <3> QED BY <1>2, <3>1, <3>2, <3>3
    <2>2. GoodScript(q, staff, session'[a].todo)
      BY <1>1, <2>1, NoScript
    <2> QED BY <2>1, <2>2, SessionsStay
  <1> QED BY <1>3, <1>4 DEF Refused

\* A session whose request has just been answered.
LEMMA AnsweredIsGood ==
  ASSUME NEW p, NEW staff, Safer(p, portal', staff), GoodSessions(p, staff, session),
         NEW a \in Actors, session[a].todo # <<>>, NEW r, r = Head(session[a].todo),
         IsPortal(portal'), StaffKept(portal', staff), Good(portal', staff, r),
         r.op = "contact" => r.at \in DOMAIN portal'.contacts,
         r.op = "deal" => r.at \in DOMAIN portal'.deals,
         Answered(a, r)
  PROVE  GoodSessions(portal', staff, session')
  <1> DEFINE rest == Tail(session[a].todo)
  <1>1. GoodScript(portal', staff, rest)
    <2>1. GoodScript(p, staff, session[a].todo)
      BY DEF GoodSessions
    <2> QED BY <2>1, GoodRest, ScriptStays
  <1>2. DOMAIN session = Actors /\ DOMAIN session[a] = SessionFields
    BY DEF GoodSessions
  <1>3. PICK more \in CRMThen(portal', r) :
           session' = [session EXCEPT ![a].todo = more \o Tail(@),
                                      ![a].done = IF r.counts THEN @ \cup {r.at} ELSE @]
    BY DEF Answered
  <1>4. GoodScript(portal', staff, more)
    BY <1>3, ThenIsGood
  <1>5. /\ DOMAIN session' = Actors
        /\ \A b \in Actors \ {a} : session'[b] = session[b]
        /\ DOMAIN session'[a] = SessionFields
        /\ session'[a].todo = more \o rest
    BY <1>2, <1>3 DEF SessionFields
  <1> HIDE DEF rest
  <1>6. GoodScript(portal', staff, more \o rest)
    BY <1>1, <1>4, GoodConcat
  <1> QED BY <1>5, <1>6, SessionsStay

LEMMA ReadsChangeNothing ==
  ASSUME NEW p, NEW r, Accepts(p, r), r.op \in {"contact", "deal"}
  PROVE  /\ Effect(p, r) = p
         /\ r.op = "contact" => r.at \in DOMAIN p.contacts
         /\ r.op = "deal" => r.at \in DOMAIN p.deals
  BY DEF Effect, Accepts, OnContacts, OnDeals

LEMMA BeginsOrderly == Init => CRMInv
  <1> SUFFICES ASSUME Init, OnlyCleanupsDelete PROVE Orderly
    BY DEF CRMInv
  <1>1. /\ portal \in Portals /\ jobs \in Jobs /\ faults = 0 /\ start = portal
        /\ session = [a \in Actors |-> Fresh(jobs[a])]
    BY DEF Init
  <1>2. IsPortal(portal) /\ portal.into = <<>>
    BY <1>1, PortalsAssumption
  <1>3. InfoKept(start, portal)
    <2>1. DOMAIN portal.into = {}
      BY <1>2
    <2>2. \A c : HeirIn(portal, c) = c
      BY <2>1 DEF HeirIn
    <2>3. DOMAIN portal.contacts \subseteq Given(portal)
      BY <1>2 DEF IsPortal, HasNumbers
    <2> QED BY <1>1, <2>2, <2>3 DEF InfoKept, RowsOf
  <1>4. StaffKept(portal, Staff)
    BY <1>1, <1>2 DEF StaffKept, Staff, IsPortal, HasNumbers
  <1>5. ASSUME NEW a \in Actors PROVE GoodScript(portal, Staff, jobs[a])
    <2>1. /\ IsList(jobs[a])
          /\ \A i \in DOMAIN jobs[a] :
                /\ IsRequest(jobs[a][i])
                /\ jobs[a][i].op = "put person" => jobs[a][i].val.org # NoOne
                /\ jobs[a][i].use = "contact-info" =>
                      \A k \in DOMAIN jobs[a] : jobs[a][k].op \in {"contacts", "deals"}
      BY <1>1, JobsAssumption
    <2>2. \A i \in DOMAIN jobs[a] : jobs[a][i].op \notin {"drop contact", "merge", "drop row"}
      <3>1. CASE \E i \in DOMAIN jobs[a] : jobs[a][i].use = "contact-info"
        BY <2>1, <3>1
      <3>2. CASE ~ \E i \in DOMAIN jobs[a] : jobs[a][i].use = "contact-info"
        <4>1. CleanupsOf(a) = 0
          <5>1. {i \in DOMAIN jobs[a] : jobs[a][i].use = "contact-info"} = {}
            BY <3>2
          <5> QED BY <5>1, FS_EmptySet DEF CleanupsOf
        <4> QED BY <4>1 DEF OnlyCleanupsDelete, Deletes
      <3> QED BY <3>1, <3>2
    <2>3. \A i \in DOMAIN jobs[a] : Good(portal, Staff, jobs[a][i])
      BY <2>1, <2>2 DEF Good
    <2> QED BY <2>1, <2>3 DEF GoodScript, ToSet
  <1>6. GoodSessions(portal, Staff, session)
    <2>1. /\ DOMAIN session = Actors
          /\ \A a \in Actors : /\ DOMAIN session[a] = SessionFields
                               /\ session[a].todo = jobs[a]
      BY <1>1 DEF Fresh, SessionFields
    <2> QED BY <1>5, <2>1 DEF GoodSessions
  <1> QED BY <1>1, <1>2, <1>3, <1>4, <1>6 DEF Orderly

\* The request that comes first, and what it may rely on.
LEMMA FirstRequest ==
  ASSUME Orderly, NEW a \in Actors, ~Ended(a), NEW r, r = Head(session[a].todo)
  PROVE  session[a].todo # <<>> /\ Good(portal, Staff, r)
  BY GoodRest DEF Orderly, GoodSessions, Ended

LEMMA SucceedIsOrderly ==
  ASSUME Orderly, NEW a \in Actors, Succeed(a) PROVE Orderly'
  <1> DEFINE r == Head(session[a].todo)
             q == Effect(portal, r)
  <1>1. /\ ~Ended(a) /\ Accepts(portal, r) /\ portal' = q /\ Answered(a, r)
        /\ faults' = faults /\ start' = start
    BY DEF Succeed
  <1>2. session[a].todo # <<>> /\ Good(portal, Staff, r)
    BY <1>1, FirstRequest
  <1>3. Staff' = Staff
    BY <1>1 DEF Staff
  <1> HIDE DEF r, q
  <1>4. Outcome(start, portal, portal', Staff)
    BY <1>1, <1>2, EffectOutcome DEF Orderly, q
  <1>5. IsPortal(portal') /\ InfoKept(start, portal') /\ StaffKept(portal', Staff)
        /\ Safer(portal, portal', Staff)
    BY <1>4 DEF Outcome
  <1>6. Good(portal', Staff, r)
    BY <1>2, <1>5, GoodStays
  <1>7. /\ r.op = "contact" => r.at \in DOMAIN portal'.contacts
        /\ r.op = "deal" => r.at \in DOMAIN portal'.deals
    BY <1>1, ReadsChangeNothing DEF q
  <1>8. GoodSessions(portal', Staff, session')
    BY <1>1, <1>2, <1>5, <1>6, <1>7, AnsweredIsGood DEF Orderly, r
  <1> QED BY <1>1, <1>3, <1>5, <1>8 DEF Orderly

LEMMA RejectIsOrderly ==
  ASSUME Orderly, NEW a \in Actors, Reject(a) PROVE Orderly'
  <1> DEFINE r == Head(session[a].todo)
  <1>1. /\ ~Ended(a) /\ ~Accepts(portal, r) /\ Refused(a, r)
        /\ portal' = portal /\ faults' = faults /\ start' = start
    BY DEF Reject
  <1>2. session[a].todo # <<>> /\ Good(portal, Staff, r)
    BY <1>1, FirstRequest
  <1>3. Staff' = Staff
    BY <1>1 DEF Staff
  <1> HIDE DEF r
  <1>4. r.use = "employer" => r.at \notin DOMAIN portal.contacts
    BY <1>1, <1>2 DEF Good, IsRequest, OfContact, Accepts, OnContacts, OnDeals, OnTasks
  <1>5. Safer(portal, portal, Staff)
    BY SafeToStay DEF Orderly
  <1>6. GoodSessions(portal, Staff, session')
    BY <1>1, <1>2, <1>4, <1>5, RefusedIsGood DEF Orderly, r
  <1> QED BY <1>1, <1>3, <1>6 DEF Orderly

LEMMA FailIsOrderly ==
  ASSUME Orderly, NEW a \in Actors, Fail(a) PROVE Orderly'
  <1> DEFINE r == Head(session[a].todo)
  <1>1. /\ ~Ended(a) /\ faults' = faults + 1 /\ start' = start /\ Refused(a, r)
        /\ \/ portal' = portal
           \/ Accepts(portal, r) /\ portal' = Effect(portal, r)
    BY DEF Fail, Fault
  <1>2. session[a].todo # <<>> /\ Good(portal, Staff, r)
    BY <1>1, FirstRequest
  <1>3. Staff' = {} /\ faults' \in Nat
    BY <1>1 DEF Orderly, Staff
  <1> HIDE DEF r
  <1>4. StaffKept(portal, {}) /\ Good(portal, {}, r) /\ GoodSessions(portal, {}, session)
    BY <1>2, FewerStaff DEF Orderly, GoodSessions
  <1>5. Outcome(start, portal, portal', {})
    <2>1. CASE portal' = portal
      BY <1>4, <2>1, SafeToStay DEF Orderly, Outcome
    <2>2. CASE Accepts(portal, r) /\ portal' = Effect(portal, r)
      BY <1>4, <2>2, EffectOutcome DEF Orderly
    <2> QED BY <1>1, <2>1, <2>2
  <1>6. IsPortal(portal') /\ InfoKept(start, portal') /\ StaffKept(portal', {})
        /\ Safer(portal, portal', {})
    BY <1>5 DEF Outcome
  <1>7. Good(portal', {}, r)
    BY <1>4, <1>6, GoodStays
  <1>8. GoodSessions(portal', {}, session')
    BY <1>1, <1>2, <1>4, <1>6, <1>7, RefusedIsGood DEF r
  <1> QED BY <1>1, <1>3, <1>6, <1>8 DEF Orderly

LEMMA ApplyTwiceIsOrderly ==
  ASSUME Orderly, NEW a \in Actors, ApplyTwice(a) PROVE Orderly'
  <1> DEFINE r == Head(session[a].todo)
             q == Effect(portal, r)
  <1>1. /\ ~Ended(a) /\ faults' = faults + 1 /\ start' = start /\ Answered(a, r)
        /\ Creates(r) /\ Accepts(portal, r) /\ portal' = Effect(q, r)
    BY DEF ApplyTwice, Fault
  <1>2. session[a].todo # <<>> /\ Good(portal, Staff, r)
    BY <1>1, FirstRequest
  <1>3. Staff' = {} /\ faults' \in Nat
    BY <1>1 DEF Orderly, Staff
  <1> HIDE DEF r, q
  <1>4. StaffKept(portal, {}) /\ Good(portal, {}, r) /\ GoodSessions(portal, {}, session)
    BY <1>2, FewerStaff DEF Orderly, GoodSessions
  <1>5. Outcome(start, portal, q, {})
    BY <1>1, <1>4, EffectOutcome DEF Orderly, q
  <1>6. Accepts(q, r)
    BY <1>1, AcceptsAgain DEF Orderly, q
  <1>7. Good(q, {}, r)
    BY <1>4, <1>5, GoodStays DEF Outcome
  <1>8. Outcome(start, q, portal', {})
    BY <1>1, <1>5, <1>6, <1>7, EffectOutcome DEF Outcome
  <1>9. Outcome(start, portal, portal', {})
    BY <1>5, <1>8, OutcomesCompose DEF Orderly
  <1>10. IsPortal(portal') /\ InfoKept(start, portal') /\ StaffKept(portal', {})
         /\ Safer(portal, portal', {})
    BY <1>9 DEF Outcome
  <1>11. Good(portal', {}, r)
    BY <1>4, <1>10, GoodStays
  <1>12. r.op \notin {"contact", "deal"}
    BY <1>1 DEF Creates
  <1>13. GoodSessions(portal', {}, session')
    BY <1>1, <1>2, <1>4, <1>10, <1>11, <1>12, AnsweredIsGood DEF r
  <1> QED BY <1>1, <1>3, <1>10, <1>13 DEF Orderly

LEMMA StaysOrderly == CRMInv /\ [Next]_vars => CRMInv'
  <1> SUFFICES ASSUME CRMInv, [Next]_vars, OnlyCleanupsDelete' PROVE Orderly'
    BY DEF CRMInv
  <1>1. jobs' = jobs
    BY DEF Next, Step, Succeed, Reject, Fail, Fault, ApplyTwice, Finished, vars
  <1>2. OnlyCleanupsDelete
    BY <1>1 DEF OnlyCleanupsDelete, CleanupsOf
  <1>3. Orderly
    BY <1>2 DEF CRMInv
  <1>4. CASE UNCHANGED vars
    <2>1. Staff' = Staff
      BY <1>4 DEF vars, Staff
    <2> QED BY <1>3, <1>4, <2>1 DEF vars, Orderly
  <1>5. ASSUME NEW a \in Actors, Step(a) PROVE Orderly'
    BY <1>3, <1>5, SucceedIsOrderly, RejectIsOrderly, FailIsOrderly, ApplyTwiceIsOrderly DEF Step
  <1> QED BY <1>4, <1>5 DEF Next, Finished

\* crm_dedupe.go:97, crm_dedupe_plan.go:116, crm.go:213: whoever works on the portal, and
\* whatever requests fail, every request that is still to be sent is one that may be sent: a row
\* to be deleted has a better one beside it, nobody is merged into himself, and a PUT of a
\* person that could lose an employer is not under way.
THEOREM AlwaysOrderly == Spec => []CRMInv
  BY BeginsOrderly, StaysOrderly, PTL DEF Spec

\* crm_dedupe.go:97, crm_dedupe_plan.go:175: the ids of repeated rows are worked off while other
\* clean-ups merge contacts and delete rows.  Whatever happens, of every piece of contact
\* information one row stays, on the contact that its contact has become.
THEOREM ContactInformationSurvives == Spec => []InfoSurvives
  <1>1. CRMInv => InfoSurvives
    <2>1. \A c : Heir(c) = HeirIn(portal, c)
      BY DEF Heir, HeirIn
    <2> QED BY <2>1 DEF CRMInv, Orderly, InfoKept, InfoSurvives, RowsOf
  <1> QED BY <1>1, AlwaysOrderly, PTL

\* crm.go:213: a PUT without an employer unlinks, so the present one is read and sent along, and
\* a merge links the employees of the lost company to the other.  As long as no request goes
\* wrong nobody loses his employer, whoever else is at work.
THEOREM EmployersStay == Spec => []EmployerKept
  <1>1. CRMInv => EmployerKept
    BY DEF CRMInv, Orderly, StaffKept, Staff, EmployerKept
  <1> QED BY <1>1, AlwaysOrderly, PTL

-----------------------------------------------------------------------------
(* The members of deals.  With one clean-up at work and nobody renaming    *)
(* contacts, a member is followed by the key of his name, and a deal by    *)
(* the key of its title without the company: both are kept by every pass.  *)

TitleKey(t)   == DealTitleKey(FixDealTitle(t), TRUE)
NameKey(p, n) == CompanyGroupingKey(p.contacts[n].name)
DealKey(p, d) == TitleKey(p.deals[d].title)

\* Requests that take something away or change a name or a title.
Harsh == {"drop contact", "drop deal", "remove member", "merge", "put deal", "put person"}

\* A request of somebody who does not clean up.
Tame(r) == r.op \notin Harsh /\ r.op # "deal" /\ r.use \notin Passes \cup Renames

\* One that a clean-up may send as well, at any time.
Calm(r) == Tame(r) /\ r.op # "add member" /\ r.op # "add deal"

\* The requests that work off what has just been read of a deal.
Commits == {"add member", "drop deal", "remove member", "put deal"}
Commit(r) == r.op \in Commits

Mergeable(p, a, b) ==
  /\ a \in Given(p) /\ b \in Given(p)
  /\ a \in DOMAIN p.contacts /\ b \in DOMAIN p.contacts => NameKey(p, a) = NameKey(p, b)

\* A deal of this title, where it is still there.
Called(p, d, key) == d \in Given(p) /\ (d \in DOMAIN p.deals => DealKey(p, d) = key)

SameDeal(p, d, e) ==
  /\ d \in Given(p) /\ e \in Given(p)
  /\ d \in DOMAIN p.deals /\ e \in DOMAIN p.deals => DealKey(p, d) = DealKey(p, e)

\* The rows of a listing are those of the portal.
Tracked(p, use, rows) ==
  \A x \in rows :
    /\ x.id \in Given(p)
    /\ use \in ContactPasses /\ x.id \in DOMAIN p.contacts => p.contacts[x.id].name = x.of.name
    /\ use \in DealPasses => x.id \in DOMAIN p.deals /\ p.deals[x.id].title = x.of.title

\* What a clean-up may have before it.
Proper(p, r) ==
  \/ Calm(r)
  \/ /\ r.use \in Passes /\ r.op \in {"contacts", "deals", "tasks"}
     /\ Tracked(p, r.use, r.val)
  \/ r.op = "merge" /\ r.use = "" /\ Mergeable(p, r.at, r.val)
  \/ /\ r.op = "deal"
     /\ \/ r.use = "members"
        \/ r.use = "relink" /\ SameDeal(p, r.at, r.val)
        \/ r.use = "rename" /\ DOMAIN r.val = TitleFields /\ Called(p, r.at, TitleKey(r.val))
  \/ /\ r.op \in Commits /\ r.use = "" /\ r.ways = 1 /\ r.at \in Given(p)
     /\ r.onErr = (IF r.op = "add member" THEN "drop" ELSE "count")
     /\ r.op = "add member" => r.val \in DOMAIN p.contacts
     /\ r.op = "remove member" => r.val \in DOMAIN p.contacts
     /\ r.op = "put deal" => /\ r.val.members \subseteq DOMAIN p.contacts
                             /\ DOMAIN r.val.title = TitleFields
                             /\ Called(p, r.at, TitleKey(r.val.title))

\* What gets members is not what gets deleted, and a deal that is put back whole gets no
\* members and loses none meanwhile.
DoomsDeal(x, d) == (x.use = "relink" \/ x.op = "drop deal") /\ x.at = d

Apart(reqs) ==
  \A r \in reqs, x \in reqs :
    /\ r.use = "relink" => ~DoomsDeal(x, r.val)
    /\ r.op = "add member" => ~DoomsDeal(x, r.at)
    /\ r.op = "put deal" => x.op \notin {"add member", "remove member"}

\* A member that is going to be removed has a namesake that is not.
Backed(p, reqs) ==
  \A r \in reqs :
    r.op = "remove member" /\ r.at \in DOMAIN p.deals =>
      \E k \in p.deals[r.at].members :
        /\ NameKey(p, k) = NameKey(p, r.val)
        /\ \A x \in reqs : x.op = "remove member" /\ x.at = r.at => x.val # k

\* Member n of deal d is going to stay.
Stays(reqs, d, n) ==
  \A r \in reqs : r.at = d =>
    /\ r.op # "drop deal"
    /\ r.op = "put deal" => r.val.members = {} \/ n \in r.val.members

\* On a deal with this title is somebody with this name, or is going to be.
IsOn(p, reqs, title, name) ==
  \E d \in DOMAIN p.deals : \E n \in p.deals[d].members :
    DealKey(p, d) = title /\ NameKey(p, n) = name /\ Stays(reqs, d, n)

GetsOn(p, reqs, title, name) ==
  \E r \in reqs : r.op = "add member" /\ NameKey(p, r.val) = name /\ Called(p, r.at, title)

Held(p, reqs, title, name) == IsOn(p, reqs, title, name) \/ GetsOn(p, reqs, title, name)

EverybodyHeld(old, p, reqs) ==
  \A d \in DOMAIN old.deals : \A m \in old.deals[d].members :
    Held(p, reqs, DealKey(old, d), NameKey(old, m))

Plan(old, p, reqs) ==
  /\ \A r \in reqs : Proper(p, r)
  /\ Apart(reqs)
  /\ Backed(p, reqs)
  /\ EverybodyHeld(old, p, reqs)

\* Commits come first, only the listing at the head has brought rows yet, and what a listing
\* has brought is worked off before the next one.
InTurn(s) ==
  \A i, j \in DOMAIN s : i < j =>
    /\ Commit(s[j]) => Commit(s[i])
    /\ s[j].use \in Passes => s[j].val = {}
    /\ s[i].use \in Passes => s[j].use # "relink"

-----------------------------------------------------------------------------
(* Keys                                                                    *)

LEMMA KeyOfTitle ==
  ASSUME NEW t, DOMAIN t = TitleFields
  PROVE  LET key == DealTitleKey(t, TRUE)
             mended == FixDealTitle(t)
         IN  /\ key.lead = t.lead /\ key.role = ""
             /\ key.company = IF t.role # "" THEN t.role ELSE t.company
             /\ t = [f \in TitleFields |-> t[f]] =>
                    DOMAIN key = TitleFields /\ key = [f \in TitleFields |-> key[f]]
             /\ DOMAIN mended = TitleFields /\ mended = [f \in TitleFields |-> mended[f]]
             /\ mended.lead = FALSE /\ mended.role = t.role /\ mended.company = t.company
  <1>1. CASE t.role # ""
    BY <1>1 DEF DealTitleKey, FixDealTitle, TitleFields
  <1>2. CASE t.role = ""
    BY <1>2 DEF DealTitleKey, FixDealTitle, TitleFields
  <1> QED BY <1>1, <1>2

\* crm_dedupe_plan.go:69: deals in one group, with their company or without it, have the same
\* title when it has been mended.
LEMMA SameTitles ==
  ASSUME NEW t, DOMAIN t = TitleFields, NEW u, DOMAIN u = TitleFields,
         NEW ignore \in BOOLEAN, DealTitleKey(t, ignore) = DealTitleKey(u, ignore)
  PROVE  TitleKey(t) = TitleKey(u)
  <1>1. CASE ~ignore
    BY <1>1 DEF DealTitleKey
  <1>2. CASE ignore
    <2> DEFINE Company(x) == IF x.role # "" THEN x.role ELSE x.company
    <2>1. Company(t) = Company(u)
      BY <1>2, KeyOfTitle
    <2>2. ASSUME NEW x, DOMAIN x = TitleFields
          PROVE  /\ TitleKey(x) = [f \in TitleFields |-> TitleKey(x)[f]]
                 /\ TitleKey(x).lead = FALSE /\ TitleKey(x).role = ""
                 /\ TitleKey(x).company = Company(x)
      <3> DEFINE mended == FixDealTitle(x)
      <3>1. /\ DOMAIN mended = TitleFields /\ mended = [f \in TitleFields |-> mended[f]]
            /\ mended.lead = FALSE /\ mended.role = x.role /\ mended.company = x.company
        BY <2>2, KeyOfTitle
      <3> HIDE DEF mended
      <3>2. LET key == DealTitleKey(mended, TRUE)
            IN  /\ key.lead = mended.lead /\ key.role = "" /\ key.company = Company(mended)
                /\ key = [f \in TitleFields |-> key[f]]
        BY <3>1, KeyOfTitle
      <3>3. TitleKey(x) = DealTitleKey(mended, TRUE)
        BY DEF TitleKey, mended
      <3> QED BY <3>1, <3>2, <3>3
    <2> HIDE DEF Company
    <2>3. \A f \in TitleFields : TitleKey(t)[f] = TitleKey(u)[f]
      BY <2>1, <2>2 DEF TitleFields
    <2>4. /\ TitleKey(t) = [f \in TitleFields |-> TitleKey(t)[f]]
          /\ TitleKey(u) = [f \in TitleFields |-> TitleKey(u)[f]]
      BY <2>2
    <2>5. [f \in TitleFields |-> TitleKey(t)[f]] = [f \in TitleFields |-> TitleKey(u)[f]]
      BY <2>3
    <2> QED BY <2>4, <2>5, Zenon
  <1> QED BY <1>1, <1>2

\* crm.go:1011: a title that is mended twice is mended once.
LEMMA MendedTitle ==
  ASSUME NEW t, DOMAIN t = TitleFields
  PROVE  DOMAIN FixDealTitle(t) = TitleFields /\ TitleKey(FixDealTitle(t)) = TitleKey(t)
  <1>1. FixDealTitle(FixDealTitle(t)) = FixDealTitle(t)
    BY DEF FixDealTitle, TitleFields
  <1> QED BY <1>1 DEF TitleKey, FixDealTitle

-----------------------------------------------------------------------------
(* What requests do to members and titles                                  *)

\* Records may go, but numbers, names and titles do not change hands.
Steady(p, q) ==
  /\ Given(p) \subseteq Given(q)
  /\ \A c \in DOMAIN q.contacts \cap Given(p) :
        c \in DOMAIN p.contacts /\ q.contacts[c].name = p.contacts[c].name
  /\ \A d \in DOMAIN q.deals \cap Given(p) : d \in DOMAIN p.deals /\ DealKey(q, d) = DealKey(p, d)

\* Nothing goes.
Grows(p, q) ==
  /\ Given(p) \subseteq Given(q)
  /\ DOMAIN q.contacts \cap Given(p) \subseteq DOMAIN p.contacts
  /\ DOMAIN q.deals \cap Given(p) \subseteq DOMAIN p.deals
  /\ \A c \in DOMAIN p.contacts :
        c \in DOMAIN q.contacts /\ q.contacts[c].name = p.contacts[c].name
  /\ \A d \in DOMAIN p.deals : /\ d \in DOMAIN q.deals /\ q.deals[d].title = p.deals[d].title
                               /\ p.deals[d].members \subseteq q.deals[d].members

LEMMA SameDealsGrow ==
  ASSUME NEW p, IsPortal(p), IsLinked(p), NEW q, p.next <= q.next, q.next \in Nat,
         q.deals = p.deals,
         DOMAIN q.contacts \cap Given(p) \subseteq DOMAIN p.contacts,
         \A c \in DOMAIN p.contacts :
            c \in DOMAIN q.contacts /\ q.contacts[c].name = p.contacts[c].name
  PROVE  Grows(p, q) /\ IsLinked(q)
  <1>1. p.next \in Nat
    BY DEF IsPortal, HasNumbers
  <1>2. Given(p) \subseteq Given(q)
    BY <1>1 DEF Given
  <1>3. IsLinked(q)
    BY DEF IsLinked
  <1>4. DOMAIN q.deals \cap Given(p) \subseteq DOMAIN p.deals
    OBVIOUS
  <1> QED BY <1>2, <1>3, <1>4 DEF Grows

\* Whatever is neither harsh nor refused takes nobody off a deal.
LEMMA EffectGrows ==
  ASSUME NEW p, IsPortal(p), IsLinked(p), NEW r, IsRequest(r), Accepts(p, r), r.op \notin Harsh
  PROVE  Grows(p, Effect(p, r)) /\ IsLinked(Effect(p, r))
  <1> DEFINE q == Effect(p, r)
  <1>0. /\ DOMAIN p = {"contacts", "deals", "tasks", "tags", "into", "next"}
        /\ p.next \in Nat /\ p.next <= p.next /\ p.next + 1 \in Nat /\ p.next <= p.next + 1
        /\ p.next \notin Given(p)
        /\ DOMAIN p.contacts \subseteq Given(p) /\ DOMAIN p.deals \subseteq Given(p)
        /\ Given(p) \subseteq 1 .. p.next
        /\ \A c \in DOMAIN p.contacts : DOMAIN p.contacts[c] = ContactFields
        /\ \A d \in DOMAIN p.deals : DOMAIN p.deals[d] = DealFields
    <2>1. p.next \in Nat \ {0}
      BY DEF IsPortal, HasNumbers
    <2> QED BY <2>1, PortalFields DEF IsPortal, HasNumbers, Given
  <1>1. CASE r.op = "add contact"
    <2>1. /\ q.contacts = Put(p.contacts, p.next, r.val)
          /\ q.next = p.next + 1 /\ q.deals = p.deals
      BY <1>0, <1>1 DEF Effect, Add, NewId
    <2> HIDE DEF q
    <2>2. /\ DOMAIN q.contacts = DOMAIN p.contacts \cup {p.next}
          /\ \A c \in DOMAIN p.contacts : q.contacts[c] = p.contacts[c]
      BY <1>0, <2>1 DEF Put
    <2>3. DOMAIN q.contacts \cap Given(p) \subseteq DOMAIN p.contacts
      BY <1>0, <2>2
    <2> QED BY <1>0, <2>1, <2>2, <2>3, SameDealsGrow DEF q
  <1>2. CASE r.op = "add deal"
    <2>1. /\ q.deals = Put(p.deals, p.next, r.val)
          /\ q.next = p.next + 1 /\ q.contacts = p.contacts
      BY <1>0, <1>2 DEF Effect, Add, NewId
    <2>2. r.val.members = {} /\ DOMAIN r.val.title = TitleFields
      BY <1>2 DEF IsRequest
    <2> HIDE DEF q
    <2>3. /\ DOMAIN q.deals = DOMAIN p.deals \cup {p.next} /\ q.deals[p.next] = r.val
          /\ \A d \in DOMAIN p.deals : q.deals[d] = p.deals[d]
      BY <1>0, <2>1 DEF Put
    <2>4. Given(p) \subseteq Given(q)
      BY <1>0, <2>1 DEF Given
    <2>5. IsLinked(q)
      BY <2>1, <2>2, <2>3 DEF IsLinked
    <2>6. DOMAIN q.deals \cap Given(p) \subseteq DOMAIN p.deals
      BY <1>0, <2>3
    <2>7. Grows(p, q)
      BY <2>1, <2>3, <2>4, <2>6 DEF Grows
    <2> QED BY <2>5, <2>7 DEF q
  <1>3. CASE r.op = "add member"
    <2>1. r.at \in DOMAIN p.deals /\ r.val \in DOMAIN p.contacts
      BY <1>3 DEF Accepts, OnDeals
    <2>2. /\ q.deals = [p.deals EXCEPT ![r.at].members = @ \cup {r.val}]
          /\ q.next = p.next /\ q.contacts = p.contacts
      BY <1>0, <1>3 DEF Effect
    <2> HIDE DEF q
    <2>3. /\ DOMAIN q.deals = DOMAIN p.deals
          /\ \A d \in DOMAIN p.deals :
                /\ q.deals[d].title = p.deals[d].title
                /\ q.deals[d].members \in {p.deals[d].members, p.deals[d].members \cup {r.val}}
      BY <1>0, <2>1, <2>2 DEF DealFields
    <2>4. Given(p) = Given(q)
      BY <2>2 DEF Given
    <2>5. IsLinked(q)
      BY <2>1, <2>2, <2>3 DEF IsLinked
    <2>6. Grows(p, q)
      BY <2>2, <2>3, <2>4 DEF Grows
    <2> QED BY <2>5, <2>6 DEF q
  <1>4. CASE r.op \in {"drop row", "add row", "tag", "untag"}
    <2>1. r.at \in DOMAIN p.contacts
      BY <1>4 DEF Accepts, OnContacts
    <2>2. /\ DOMAIN q.contacts = DOMAIN p.contacts
          /\ \A c \in DOMAIN p.contacts : q.contacts[c].name = p.contacts[c].name
          /\ q.next \in {p.next, p.next + 1} /\ q.deals = p.deals
      <3>1. CASE r.op = "drop row"
        BY <1>0, <2>1, <3>1 DEF Effect, ContactFields
      <3>2. CASE r.op = "add row"
        BY <1>0, <2>1, <3>2 DEF Effect, AddRow, ContactFields
      <3>3. CASE r.op = "tag"
        BY <1>0, <2>1, <3>3 DEF Effect, ContactFields
      <3>4. CASE r.op = "untag"
        BY <1>0, <2>1, <3>4 DEF Effect, ContactFields
      <3> QED BY <1>4, <3>1, <3>2, <3>3, <3>4
    <2> HIDE DEF q
    <2> QED BY <1>0, <2>2, SameDealsGrow DEF q
  <1>5. CASE r.op \in {"drop task", "put task", "add task", "add tag"}
    <2>1. q.contacts = p.contacts /\ q.deals = p.deals /\ q.next \in {p.next, p.next + 1}
      <3>1. CASE r.op = "drop task"
        BY <1>0, <3>1 DEF Effect
      <3>2. CASE r.op = "put task"
        BY <1>0, <3>2 DEF Effect
      <3>3. CASE r.op = "add task"
        BY <1>0, <3>3 DEF Effect, Add
      <3>4. CASE r.op = "add tag"
        BY <1>0, <3>4 DEF Effect
      <3> QED BY <1>5, <3>1, <3>2, <3>3, <3>4
    <2> HIDE DEF q
    <2> QED BY <1>0, <2>1, SameDealsGrow DEF q
  <1>6. CASE r.op \notin {"add contact", "add deal", "add member", "drop row", "add row", "tag",
                          "untag", "drop task", "put task", "add task", "add tag"}
    <2>1. q = p
      BY <1>6 DEF Effect, Harsh
    <2> HIDE DEF q
    <2> QED BY <1>0, <2>1, SameDealsGrow DEF q
  <1> QED BY <1>1, <1>2, <1>3, <1>4, <1>5, <1>6

LEMMA GrowsIsSteady ==
  ASSUME NEW p, NEW q, Grows(p, q)
  PROVE  Steady(p, q)
  BY DEF Grows, Steady, DealKey

LEMMA GrowthAddsUp ==
  ASSUME NEW p, NEW q, Grows(p, q), NEW x, Grows(q, x)
  PROVE  Grows(p, x)
  BY DEF Grows

LEMMA NoGrowth ==
  ASSUME NEW p
  PROVE  Grows(p, p)
  BY DEF Grows

-----------------------------------------------------------------------------
(* Plans outlast what others do                                            *)

LEMMA KeysGrow ==
  ASSUME NEW p, NEW q, Steady(p, q)
  PROVE  /\ \A c, d : Mergeable(p, c, d) => Mergeable(q, c, d)
         /\ \A d, key : Called(p, d, key) => Called(q, d, key)
         /\ \A d, e : SameDeal(p, d, e) => SameDeal(q, d, e)
         /\ \A c \in DOMAIN q.contacts \cap Given(p) : NameKey(q, c) = NameKey(p, c)
  <1>1. \A c \in DOMAIN q.contacts \cap Given(p) : NameKey(q, c) = NameKey(p, c)
    BY DEF Steady, NameKey
  <1>2. \A c, d : Mergeable(p, c, d) => Mergeable(q, c, d)
    BY <1>1 DEF Steady, Mergeable
  <1>3. \A d, key : Called(p, d, key) => Called(q, d, key)
    BY DEF Steady, Called
  <1>4. \A d, e : SameDeal(p, d, e) => SameDeal(q, d, e)
    BY DEF Steady, SameDeal
  <1> QED BY <1>1, <1>2, <1>3, <1>4

LEMMA ProperStays ==
  ASSUME NEW p, NEW q, Steady(p, q), NEW r, Proper(p, r),
         Commit(r) => DOMAIN p.contacts \subseteq DOMAIN q.contacts,
         r.use \in Passes /\ Tracked(p, r.use, r.val) => Tracked(q, r.use, r.val)
  PROVE  Proper(q, r)
  <1>1. CASE Calm(r)
    BY <1>1 DEF Proper
  <1>2. CASE /\ r.use \in Passes /\ r.op \in {"contacts", "deals", "tasks"}
             /\ Tracked(p, r.use, r.val)
    BY <1>2 DEF Proper
  <1>3. CASE r.op = "merge" /\ r.use = "" /\ Mergeable(p, r.at, r.val)
    BY <1>3, KeysGrow DEF Proper
  <1>4. CASE /\ r.op = "deal"
             /\ \/ r.use = "members"
                \/ r.use = "relink" /\ SameDeal(p, r.at, r.val)
                \/ /\ r.use = "rename" /\ DOMAIN r.val = TitleFields
                   /\ Called(p, r.at, TitleKey(r.val))
    BY <1>4, KeysGrow DEF Proper
  <1>5. CASE r.op \in Commits /\ ~Calm(r) /\ r.use = ""
    <2>1. /\ r.ways = 1 /\ r.at \in Given(p)
          /\ r.onErr = (IF r.op = "add member" THEN "drop" ELSE "count")
          /\ r.op = "add member" => r.val \in DOMAIN p.contacts
          /\ r.op = "remove member" => r.val \in DOMAIN p.contacts
          /\ r.op = "put deal" => /\ r.val.members \subseteq DOMAIN p.contacts
                                  /\ DOMAIN r.val.title = TitleFields
                                  /\ Called(p, r.at, TitleKey(r.val.title))
      BY <1>5 DEF Proper, Commits, Passes, ContactPasses, DealPasses
    <2>2. DOMAIN p.contacts \subseteq DOMAIN q.contacts /\ r.at \in Given(q)
      BY <1>5, <2>1 DEF Commit, Steady
    <2>3. r.op = "put deal" => Called(q, r.at, TitleKey(r.val.title))
      BY <2>1, KeysGrow
    <2> QED BY <1>5, <2>1, <2>2, <2>3 DEF Proper
  <1> QED BY <1>1, <1>2, <1>3, <1>4, <1>5 DEF Proper

LEMMA TrackedGrows ==
  ASSUME NEW p, NEW q, Grows(p, q), NEW use, NEW rows, Tracked(p, use, rows)
  PROVE  Tracked(q, use, rows)
  BY DEF Tracked, Grows

\* Of a member that a clean-up adds or removes.
LEMMA CommitsAreKnown ==
  ASSUME NEW p, NEW r, Proper(p, r), r.op \in Commits
  PROVE  /\ r.use = "" /\ r.ways = 1 /\ r.at \in Given(p)
         /\ r.onErr = (IF r.op = "add member" THEN "drop" ELSE "count")
         /\ r.op = "add member" => r.val \in DOMAIN p.contacts
         /\ r.op = "remove member" => r.val \in DOMAIN p.contacts
         /\ r.op = "put deal" => /\ r.val.members \subseteq DOMAIN p.contacts
                                 /\ DOMAIN r.val.title = TitleFields
                                 /\ Called(p, r.at, TitleKey(r.val.title))
  BY DEF Proper, Commits, Calm, Tame, Harsh

LEMMA PlanGrows ==
  ASSUME NEW old, NEW p, IsPortal(p), IsLinked(p), NEW q, Grows(p, q), NEW reqs,
         Plan(old, p, reqs)
  PROVE  Plan(old, q, reqs)
  <1>0. /\ Steady(p, q) /\ DOMAIN p.contacts \subseteq DOMAIN q.contacts
        /\ DOMAIN p.contacts \subseteq Given(p) /\ DOMAIN p.deals \subseteq Given(p)
        /\ \A c \in DOMAIN p.contacts : NameKey(q, c) = NameKey(p, c)
        /\ \A d \in DOMAIN p.deals : DealKey(q, d) = DealKey(p, d)
    BY GrowsIsSteady DEF Grows, NameKey, DealKey, IsPortal, HasNumbers
  <1>1. \A r \in reqs : Proper(q, r)
    BY <1>0, ProperStays, TrackedGrows DEF Plan
  <1>2. Backed(q, reqs)
    <2> SUFFICES ASSUME NEW r \in reqs, r.op = "remove member", r.at \in DOMAIN q.deals
                 PROVE  \E k \in q.deals[r.at].members :
                           /\ NameKey(q, k) = NameKey(q, r.val)
                           /\ \A x \in reqs : x.op = "remove member" /\ x.at = r.at => x.val # k
      BY DEF Backed
    <2>1. r.at \in Given(p) /\ r.val \in DOMAIN p.contacts
      BY CommitsAreKnown DEF Plan, Commits
    <2>2. r.at \in DOMAIN p.deals
      BY <2>1 DEF Grows
    <2>3. PICK k \in p.deals[r.at].members :
             /\ NameKey(p, k) = NameKey(p, r.val)
             /\ \A x \in reqs : x.op = "remove member" /\ x.at = r.at => x.val # k
      BY <2>2 DEF Plan, Backed
    <2>4. k \in q.deals[r.at].members /\ k \in DOMAIN p.contacts
      BY <2>2 DEF Grows, IsLinked
    <2> QED BY <1>0, <2>1, <2>3, <2>4
  <1>3. ASSUME NEW t, NEW n, Held(p, reqs, t, n) PROVE Held(q, reqs, t, n)
    <2>1. ASSUME NEW d \in DOMAIN p.deals, NEW m \in p.deals[d].members,
                 DealKey(p, d) = t, NameKey(p, m) = n, Stays(reqs, d, m)
          PROVE  IsOn(q, reqs, t, n)
      BY <1>0, <2>1 DEF IsOn, Grows, IsLinked
    <2>2. ASSUME NEW r \in reqs, r.op = "add member", NameKey(p, r.val) = n, Called(p, r.at, t)
          PROVE  GetsOn(q, reqs, t, n)
      <3>1. r.val \in DOMAIN p.contacts
        BY <2>2, CommitsAreKnown DEF Plan, Commits
      <3>2. Called(q, r.at, t)
        BY <1>0, <2>2, KeysGrow
      <3> QED BY <1>0, <2>2, <3>1, <3>2 DEF GetsOn
    <2> QED BY <1>3, <2>1, <2>2 DEF Held, IsOn, GetsOn
  <1> QED BY <1>1, <1>2, <1>3 DEF Plan, EverybodyHeld

\* With a request less, which does not add a member, the rest is as good.
LEMMA PlanShrinks ==
  ASSUME NEW old, NEW p, NEW reqs, Plan(old, p, reqs), NEW fewer, fewer \subseteq reqs,
         \A r \in reqs \ fewer : r.op # "add member"
  PROVE  Plan(old, p, fewer)
  <1>1. Apart(fewer) /\ \A r \in fewer : Proper(p, r)
    BY DEF Plan, Apart
  <1>2. Backed(p, fewer)
    BY DEF Plan, Backed
  <1>3. ASSUME NEW t, NEW n, Held(p, reqs, t, n) PROVE Held(p, fewer, t, n)
    <2>1. \A d, m : Stays(reqs, d, m) => Stays(fewer, d, m)
      BY DEF Stays
    <2> QED BY <1>3, <2>1 DEF Held, IsOn, GetsOn
  <1> QED BY <1>1, <1>2, <1>3 DEF Plan, EverybodyHeld

\* With other requests beside it that touch no deals.
LEMMA PlanWidens ==
  ASSUME NEW old, NEW p, NEW reqs, Plan(old, p, reqs), NEW more,
         \A r \in more : Proper(p, r) /\ ~Commit(r) /\ r.use # "relink"
  PROVE  Plan(old, p, reqs \cup more)
  <1>1. \A r \in more : r.op \notin Commits /\ \A d : ~DoomsDeal(r, d)
    BY DEF Commit, Commits, DoomsDeal
  <1>2. Apart(reqs \cup more)
    BY <1>1 DEF Plan, Apart, Commits
  <1>3. Backed(p, reqs \cup more)
    <2> SUFFICES ASSUME NEW r \in reqs \cup more, r.op = "remove member", r.at \in DOMAIN p.deals
                 PROVE  \E k \in p.deals[r.at].members :
                           /\ NameKey(p, k) = NameKey(p, r.val)
                           /\ \A x \in reqs \cup more :
                                 x.op = "remove member" /\ x.at = r.at => x.val # k
      BY DEF Backed
    <2>1. \A x \in more : x.op # "remove member"
      BY <1>1 DEF Commits
    <2>2. PICK k \in p.deals[r.at].members :
             /\ NameKey(p, k) = NameKey(p, r.val)
             /\ \A x \in reqs : x.op = "remove member" /\ x.at = r.at => x.val # k
      BY <2>1 DEF Plan, Backed
    <2> QED BY <2>1, <2>2
  <1>4. ASSUME NEW t, NEW n, Held(p, reqs, t, n) PROVE Held(p, reqs \cup more, t, n)
    <2>1. \A d, m : Stays(reqs, d, m) => Stays(reqs \cup more, d, m)
      BY <1>1 DEF Stays, Commits
    <2> QED BY <1>4, <2>1 DEF Held, IsOn, GetsOn
  <1> QED BY <1>2, <1>3, <1>4 DEF Plan, EverybodyHeld

-----------------------------------------------------------------------------
(* What a clean-up does to deals                                           *)

\* reqs without r, unless it is there a second time.
Without(reqs, fewer, r) ==
  /\ r \in reqs /\ fewer \subseteq reqs /\ reqs \subseteq fewer \cup {r}
  /\ \A x \in fewer : x.use \in Passes => x.val = {}

\* Deals lost a record or a member, or got one back, and contacts are as they were.
LEMMA ProperAtDeals ==
  ASSUME NEW old, NEW p, NEW q, Steady(p, q), q.contacts = p.contacts,
         NEW reqs, Plan(old, p, reqs), NEW fewer, NEW r, Without(reqs, fewer, r)
  PROVE  (\A x \in fewer : Proper(q, x)) /\ Apart(fewer)
  <1>1. ASSUME NEW x \in fewer PROVE Proper(q, x)
    <2>1. Proper(p, x) /\ (x.use \in Passes => x.val = {})
      BY DEF Plan, Without
    <2>2. x.use \in Passes => Tracked(q, x.use, x.val)
      BY <2>1 DEF Tracked
    <2> QED BY <2>1, <2>2, ProperStays
  <1>2. Apart(fewer)
    BY DEF Plan, Apart, Without
  <1> QED BY <1>1, <1>2

LEMMA FewerRequests ==
  ASSUME NEW p, NEW reqs, NEW fewer, fewer \subseteq reqs
  PROVE  /\ Apart(reqs) => Apart(fewer)
         /\ Backed(p, reqs) => Backed(p, fewer)
         /\ \A d, m : Stays(reqs, d, m) => Stays(fewer, d, m)
  <1>1. Apart(reqs) => Apart(fewer)
    BY DEF Apart
  <1>2. Backed(p, reqs) => Backed(p, fewer)
    BY DEF Backed
  <1>3. \A d, m : Stays(reqs, d, m) => Stays(fewer, d, m)
    BY DEF Stays
  <1> QED BY <1>1, <1>2, <1>3

LEMMA NumbersHold ==
  ASSUME NEW p, NEW q, IsPortal(p), q.next = p.next,
         DOMAIN q.contacts \subseteq DOMAIN p.contacts,
         DOMAIN q.deals \subseteq DOMAIN p.deals,
         \A c \in DOMAIN q.contacts : q.contacts[c].name = p.contacts[c].name,
         \A d \in DOMAIN q.deals : DealKey(q, d) = DealKey(p, d)
  PROVE  Steady(p, q)
  <1>1. Given(q) = Given(p)
    BY DEF Given
  <1> QED BY <1>1 DEF Steady

\* crm_dedupe.go:150: a member of the lost deal has got onto the other one.
LEMMA AddMemberStep ==
  ASSUME NEW old, NEW p, IsPortal(p), IsLinked(p), NEW reqs, Plan(old, p, reqs),
         NEW r, IsRequest(r), r.op = "add member", Accepts(p, r),
         NEW fewer, Without(reqs, fewer, r)
  PROVE  IsLinked(Effect(p, r)) /\ Plan(old, Effect(p, r), fewer)
  <1> DEFINE q == Effect(p, r)
  <1>1. Grows(p, q) /\ IsLinked(q)
    BY EffectGrows DEF Harsh
  <1>2. r.at \in DOMAIN p.deals /\ r.val \in DOMAIN p.contacts
    BY DEF Accepts, OnDeals
  <1>3. r.at \in DOMAIN q.deals /\ r.val \in q.deals[r.at].members
    <2>1. DOMAIN p = {"contacts", "deals", "tasks", "tags", "into", "next"}
          /\ DOMAIN p.deals[r.at] = DealFields
      BY <1>2, PortalFields
    <2>2. q.deals = [p.deals EXCEPT ![r.at].members = @ \cup {r.val}]
      BY <2>1 DEF Effect
    <2> HIDE DEF q
    <2>3. /\ DOMAIN q.deals = DOMAIN p.deals
          /\ q.deals[r.at] = [p.deals[r.at] EXCEPT !.members = @ \cup {r.val}]
      BY <1>2, <2>2
    <2>4. q.deals[r.at].members = p.deals[r.at].members \cup {r.val}
      BY <2>1, <2>3 DEF DealFields
    <2> QED BY <1>2, <2>3, <2>4
  <1> HIDE DEF q
  <1>4. Plan(old, q, reqs)
    BY <1>1, PlanGrows
  <1>5. r \in reqs /\ fewer \subseteq reqs /\ reqs \subseteq fewer \cup {r}
    BY DEF Without
  <1>6. Apart(fewer) /\ Backed(q, fewer) /\ \A x \in fewer : Proper(q, x)
    BY <1>4, <1>5, FewerRequests DEF Plan
  <1>7. Stays(fewer, r.at, r.val)
    BY <1>4, <1>5 DEF Plan, Apart, Stays, DoomsDeal
  <1>8. ASSUME NEW t, NEW n, Held(q, reqs, t, n) PROVE Held(q, fewer, t, n)
    <2>1. \A d, m : Stays(reqs, d, m) => Stays(fewer, d, m)
      BY <1>5, FewerRequests
    <2>2. IsOn(q, reqs, t, n) => IsOn(q, fewer, t, n)
      BY <2>1 DEF IsOn
    <2>3. GetsOn(q, reqs, t, n) => GetsOn(q, fewer, t, n) \/ IsOn(q, fewer, t, n)
      BY <1>3, <1>5, <1>7 DEF GetsOn, IsOn, Called
    <2> QED BY <1>8, <2>2, <2>3 DEF Held
  <1>9. Plan(old, q, fewer)
    BY <1>4, <1>6, <1>8 DEF Plan, EverybodyHeld
  <1> QED BY <1>1, <1>9 DEF q

\* crm_dedupe.go:157: a deal is deleted when its members are on the other one.
LEMMA DropDealStep ==
  ASSUME NEW old, NEW p, IsPortal(p), IsLinked(p), NEW reqs, Plan(old, p, reqs),
         NEW r, r.op = "drop deal", NEW fewer, Without(reqs, fewer, r)
  PROVE  IsLinked(Effect(p, r)) /\ Plan(old, Effect(p, r), fewer)
  <1> DEFINE q == Effect(p, r)
  <1>1. q = [p EXCEPT !.deals = Drop(@, {r.at})]
    BY DEF Effect
  <1>2. /\ DOMAIN q.deals = DOMAIN p.deals \ {r.at}
        /\ \A d \in DOMAIN q.deals : q.deals[d] = p.deals[d]
        /\ q.contacts = p.contacts /\ q.next = p.next
    <2>1. DOMAIN p = {"contacts", "deals", "tasks", "tags", "into", "next"}
      BY PortalFields
    <2> HIDE DEF q
    <2> QED BY <1>1, <2>1 DEF Drop, Restrict
  <1> HIDE DEF q
  <1>3. IsLinked(q)
    BY <1>2 DEF IsLinked
  <1>4. Steady(p, q)
    <2>1. \A d \in DOMAIN q.deals : DealKey(q, d) = DealKey(p, d)
      BY <1>2 DEF DealKey
    <2> QED BY <1>2, <2>1, NumbersHold
  <1>5. r \in reqs /\ fewer \subseteq reqs /\ reqs \subseteq fewer \cup {r}
    BY DEF Without
  <1>6. (\A x \in fewer : Proper(q, x)) /\ Apart(fewer)
    BY <1>2, <1>4, ProperAtDeals
  <1>7. \A n : NameKey(q, n) = NameKey(p, n)
    BY <1>2 DEF NameKey
  <1>8. Backed(q, fewer)
    <2> SUFFICES ASSUME NEW x \in fewer, x.op = "remove member", x.at \in DOMAIN q.deals
                 PROVE  \E k \in q.deals[x.at].members :
                           /\ NameKey(q, k) = NameKey(q, x.val)
                           /\ \A y \in fewer : y.op = "remove member" /\ y.at = x.at => y.val # k
      BY DEF Backed
    <2>1. PICK k \in p.deals[x.at].members :
             /\ NameKey(p, k) = NameKey(p, x.val)
             /\ \A y \in reqs : y.op = "remove member" /\ y.at = x.at => y.val # k
      BY <1>2, <1>5 DEF Plan, Backed
    <2>2. k \in q.deals[x.at].members /\ NameKey(q, k) = NameKey(q, x.val)
      BY <1>2, <1>7, <2>1
    <2>3. \A y \in fewer : y.op = "remove member" /\ y.at = x.at => y.val # k
      BY <1>5, <2>1
    <2> QED BY <2>2, <2>3
  <1>9. ASSUME NEW t, NEW n, Held(p, reqs, t, n) PROVE Held(q, fewer, t, n)
    <2>1. ASSUME NEW d \in DOMAIN p.deals, NEW m \in p.deals[d].members,
                 DealKey(p, d) = t, NameKey(p, m) = n, Stays(reqs, d, m)
          PROVE  IsOn(q, fewer, t, n)
      <3>1. d # r.at /\ Stays(fewer, d, m)
        BY <1>5, <2>1 DEF Stays
      <3>2. d \in DOMAIN q.deals /\ m \in q.deals[d].members /\ DealKey(q, d) = t
        BY <1>2, <2>1, <3>1 DEF DealKey
      <3> QED BY <1>7, <2>1, <3>1, <3>2 DEF IsOn
    <2>2. ASSUME NEW x \in reqs, x.op = "add member", NameKey(p, x.val) = n, Called(p, x.at, t)
          PROVE  GetsOn(q, fewer, t, n)
      <3>1. x \in fewer
        BY <1>5, <2>2
      <3>2. Called(q, x.at, t)
        BY <1>4, <2>2, KeysGrow
      <3> QED BY <1>7, <2>2, <3>1, <3>2 DEF GetsOn
    <2> QED BY <1>9, <2>1, <2>2 DEF Held, IsOn, GetsOn
  <1>10. Plan(old, q, fewer)
    BY <1>6, <1>8, <1>9 DEF Plan, EverybodyHeld
  <1> QED BY <1>3, <1>10 DEF q

\* crm_dedupe.go:187: a member is removed who has a namesake on the deal.
LEMMA RemoveMemberStep ==
  ASSUME NEW old, NEW p, IsPortal(p), IsLinked(p), NEW reqs, Plan(old, p, reqs),
         NEW r, r.op = "remove member", Accepts(p, r),
         NEW fewer, Without(reqs, fewer, r)
  PROVE  IsLinked(Effect(p, r)) /\ Plan(old, Effect(p, r), fewer)
  <1> DEFINE q == Effect(p, r)
  <1>0. r.at \in DOMAIN p.deals
    BY DEF Accepts, OnDeals
  <1>1. /\ DOMAIN p = {"contacts", "deals", "tasks", "tags", "into", "next"}
        /\ \A d \in DOMAIN p.deals : DOMAIN p.deals[d] = DealFields
    BY PortalFields
  <1>2. /\ q.deals = [p.deals EXCEPT ![r.at].members = @ \ {r.val}]
        /\ q.contacts = p.contacts /\ q.next = p.next
    BY <1>1 DEF Effect
  <1> HIDE DEF q
  <1>3. /\ DOMAIN q.deals = DOMAIN p.deals
        /\ q.deals[r.at] = [p.deals[r.at] EXCEPT !.members = @ \ {r.val}]
        /\ \A d \in DOMAIN p.deals \ {r.at} : q.deals[d] = p.deals[d]
    BY <1>0, <1>2
  <1>4. /\ q.deals[r.at].members = p.deals[r.at].members \ {r.val}
        /\ \A d \in DOMAIN p.deals : q.deals[d].title = p.deals[d].title
    BY <1>0, <1>1, <1>3 DEF DealFields
  <1>5. IsLinked(q)
    BY <1>2, <1>3, <1>4 DEF IsLinked
  <1>6. /\ \A d \in DOMAIN p.deals : DealKey(q, d) = DealKey(p, d)
        /\ \A n : NameKey(q, n) = NameKey(p, n)
    BY <1>2, <1>4 DEF DealKey, NameKey
  <1>7. Steady(p, q)
    BY <1>2, <1>3, <1>6, NumbersHold
  <1>8. r \in reqs /\ fewer \subseteq reqs /\ reqs \subseteq fewer \cup {r}
    BY DEF Without
  <1>9. (\A x \in fewer : Proper(q, x)) /\ Apart(fewer)
    BY <1>2, <1>7, ProperAtDeals
  <1>10. ASSUME NEW x \in reqs, x.op = "remove member", x.at \in DOMAIN p.deals
         PROVE  \E k \in q.deals[x.at].members :
                   /\ NameKey(p, k) = NameKey(p, x.val)
                   /\ \A y \in fewer : y.op = "remove member" /\ y.at = x.at => y.val # k
    <2>1. PICK k \in p.deals[x.at].members :
             /\ NameKey(p, k) = NameKey(p, x.val)
             /\ \A y \in reqs : y.op = "remove member" /\ y.at = x.at => y.val # k
      BY <1>10 DEF Plan, Backed
    <2>2. k \in q.deals[x.at].members
      <3>1. CASE x.at = r.at
        BY <1>4, <1>8, <2>1, <3>1
      <3>2. CASE x.at # r.at
        BY <1>3, <1>10, <2>1, <3>2
      <3> QED BY <3>1, <3>2
    <2>3. \A y \in fewer : y.op = "remove member" /\ y.at = x.at => y.val # k
      BY <1>8, <2>1
    <2> QED BY <2>1, <2>2, <2>3
  <1>11. Backed(q, fewer)
    <2> SUFFICES ASSUME NEW x \in fewer, x.op = "remove member", x.at \in DOMAIN q.deals
                 PROVE  \E k \in q.deals[x.at].members :
                           /\ NameKey(q, k) = NameKey(q, x.val)
                           /\ \A y \in fewer : y.op = "remove member" /\ y.at = x.at => y.val # k
      BY DEF Backed
    <2>1. x \in reqs /\ x.at \in DOMAIN p.deals
      BY <1>3, <1>8
    <2>2. NameKey(q, x.val) = NameKey(p, x.val) /\ \A k : NameKey(q, k) = NameKey(p, k)
      BY <1>6
    <2>3. PICK k \in q.deals[x.at].members :
             /\ NameKey(p, k) = NameKey(p, x.val)
             /\ \A y \in fewer : y.op = "remove member" /\ y.at = x.at => y.val # k
      <3> HIDE DEF NameKey
      <3> QED BY <1>10, <2>1
    <2> QED BY <2>2, <2>3
  <1>12. ASSUME NEW t, NEW n, Held(p, reqs, t, n) PROVE Held(q, fewer, t, n)
    <2>1. ASSUME NEW d \in DOMAIN p.deals, NEW m \in p.deals[d].members,
                 DealKey(p, d) = t, NameKey(p, m) = n, Stays(reqs, d, m)
          PROVE  IsOn(q, fewer, t, n)
      <3>1. Stays(fewer, d, m)
        BY <1>8, <2>1, FewerRequests
      <3>2. CASE m \in q.deals[d].members
        BY <1>3, <1>6, <2>1, <3>1, <3>2 DEF IsOn
      <3>3. CASE m \notin q.deals[d].members
        <4>1. d = r.at /\ m = r.val
          BY <1>3, <1>4, <2>1, <3>3
        <4>2. PICK k \in q.deals[d].members : NameKey(p, k) = NameKey(p, m)
          BY <1>0, <1>8, <1>10, <4>1
        <4>3. Stays(fewer, d, k)
          BY <1>8, <3>1 DEF Stays, Plan, Apart
        <4> QED BY <1>3, <1>6, <2>1, <4>2, <4>3 DEF IsOn
      <3> QED BY <3>2, <3>3
    <2>2. ASSUME NEW x \in reqs, x.op = "add member", NameKey(p, x.val) = n, Called(p, x.at, t)
          PROVE  GetsOn(q, fewer, t, n)
      <3>1. x \in fewer
        BY <1>8, <2>2
      <3>2. Called(q, x.at, t)
        BY <1>7, <2>2, KeysGrow
      <3> QED BY <1>6, <2>2, <3>1, <3>2 DEF GetsOn
    <2> QED BY <1>12, <2>1, <2>2 DEF Held, IsOn, GetsOn
  <1>13. Plan(old, q, fewer)
    BY <1>9, <1>11, <1>12 DEF Plan, EverybodyHeld
  <1> QED BY <1>5, <1>13 DEF q

\* crm.go:545: a deal is put back whole, as it was read, under its mended title.
LEMMA PutDealStep ==
  ASSUME NEW old, NEW p, IsPortal(p), IsLinked(p), NEW reqs, Plan(old, p, reqs),
         NEW r, IsRequest(r), r.op = "put deal", Accepts(p, r),
         NEW fewer, Without(reqs, fewer, r)
  PROVE  IsLinked(Effect(p, r)) /\ Plan(old, Effect(p, r), fewer)
  <1> DEFINE q == Effect(p, r)
             kept == IF r.val.members = {} THEN p.deals[r.at].members
                     ELSE r.val.members \cap DOMAIN p.contacts
  <1>0. r.at \in DOMAIN p.deals /\ DOMAIN r.val = DealFields
    BY DEF Accepts, OnDeals, IsRequest
  <1>1. DOMAIN p = {"contacts", "deals", "tasks", "tags", "into", "next"}
    BY PortalFields
  <1>2. /\ q.deals = [p.deals EXCEPT ![r.at] = [r.val EXCEPT !.members = kept]]
        /\ q.contacts = p.contacts /\ q.next = p.next
    BY <1>1 DEF Effect, PutDeal
  <1> HIDE DEF q, kept
  <1>3. /\ DOMAIN q.deals = DOMAIN p.deals
        /\ q.deals[r.at] = [r.val EXCEPT !.members = kept]
        /\ \A d \in DOMAIN p.deals \ {r.at} : q.deals[d] = p.deals[d]
    BY <1>0, <1>2
  <1>4. q.deals[r.at].members = kept /\ q.deals[r.at].title = r.val.title
    BY <1>0, <1>3 DEF DealFields
  <1>5. r \in reqs /\ fewer \subseteq reqs /\ reqs \subseteq fewer \cup {r}
    BY DEF Without
  <1>6. /\ DOMAIN r.val.title = TitleFields
        /\ Called(p, r.at, TitleKey(r.val.title))
    BY <1>5, CommitsAreKnown DEF Plan, Commits
  <1>7. kept \subseteq DOMAIN p.contacts
    BY <1>0 DEF kept, IsLinked
  <1>8. IsLinked(q)
    BY <1>2, <1>3, <1>4, <1>6, <1>7 DEF IsLinked
  <1>9. /\ \A d \in DOMAIN p.deals : DealKey(q, d) = DealKey(p, d)
        /\ \A n : NameKey(q, n) = NameKey(p, n)
    BY <1>0, <1>2, <1>3, <1>4, <1>6 DEF DealKey, NameKey, Called
  <1>10. Steady(p, q)
    BY <1>2, <1>3, <1>9, NumbersHold
  <1>11. (\A x \in fewer : Proper(q, x)) /\ Apart(fewer)
    BY <1>2, <1>10, ProperAtDeals
  <1>12. \A x \in reqs : x.op \notin {"add member", "remove member"}
    BY <1>5 DEF Plan, Apart
  <1>13. Backed(q, fewer)
    BY <1>5, <1>12 DEF Backed
  <1>14. ASSUME NEW t, NEW n, Held(p, reqs, t, n) PROVE Held(q, fewer, t, n)
    <2>1. PICK d, m : /\ d \in DOMAIN p.deals /\ m \in p.deals[d].members
                      /\ DealKey(p, d) = t /\ NameKey(p, m) = n /\ Stays(reqs, d, m)
      BY <1>12, <1>14 DEF Held, IsOn, GetsOn
    <2>2. Stays(fewer, d, m)
      BY <1>5, <2>1, FewerRequests
    <2>3. m \in q.deals[d].members
      <3>1. CASE d = r.at
        <4>1. r.val.members = {} \/ m \in r.val.members
          BY <1>5, <2>1, <3>1 DEF Stays
        <4>2. m \in DOMAIN p.contacts
          BY <2>1 DEF IsLinked
        <4> QED BY <1>4, <2>1, <3>1, <4>1, <4>2 DEF kept
      <3>2. CASE d # r.at
        BY <1>3, <2>1, <3>2
      <3> QED BY <3>1, <3>2
    <2> QED BY <1>3, <1>9, <2>1, <2>2, <2>3 DEF Held, IsOn
  <1>15. Plan(old, q, fewer)
    BY <1>11, <1>13, <1>14 DEF Plan, EverybodyHeld
  <1> QED BY <1>8, <1>15 DEF q

\* crm.go:351: a contact is merged into a namesake, on every deal.
LEMMA MergeStep ==
  ASSUME NEW old, NEW p, IsPortal(p), IsLinked(p), NEW reqs, Plan(old, p, reqs),
         \A x \in reqs : ~Commit(x),
         NEW r, r.op = "merge", r.at # r.val, Accepts(p, r),
         NEW fewer, Without(reqs, fewer, r)
  PROVE  IsLinked(Effect(p, r)) /\ Plan(old, Effect(p, r), fewer)
  <1> DEFINE q == Effect(p, r)
  <1>0. r.at \in DOMAIN p.contacts /\ r.val \in DOMAIN p.contacts
    BY DEF Accepts
  <1>1. /\ DOMAIN p = {"contacts", "deals", "tasks", "tags", "into", "next"}
        /\ \A d \in DOMAIN p.deals : DOMAIN p.deals[d] = DealFields
        /\ \A c \in DOMAIN p.contacts : DOMAIN p.contacts[c] = ContactFields
    BY PortalFields
  <1>2. /\ q.contacts = [c \in DOMAIN p.contacts \ {r.val} |-> MergedContact(p, r.val, r.at, c)]
        /\ q.deals = [d \in DOMAIN p.deals |-> MergedDeal(p, r.val, r.at, d)]
        /\ q.next = p.next
    BY <1>1 DEF Effect, MergeInto
  <1> HIDE DEF q
  <1>3. /\ DOMAIN q.contacts = DOMAIN p.contacts \ {r.val}
        /\ \A c \in DOMAIN q.contacts : q.contacts[c].name = p.contacts[c].name
    <2>1. ASSUME NEW c \in DOMAIN p.contacts
          PROVE  MergedContact(p, r.val, r.at, c).name = p.contacts[c].name
      BY <1>1 DEF MergedContact, ContactFields
    <2> QED BY <1>2, <2>1
  <1>4. /\ DOMAIN q.deals = DOMAIN p.deals
        /\ \A d \in DOMAIN p.deals :
              /\ q.deals[d].title = p.deals[d].title
              /\ q.deals[d].members = {Moved(r.val, r.at, m) : m \in p.deals[d].members}
    BY <1>1, <1>2 DEF MergedDeal, DealFields
  <1>5. IsLinked(q)
    BY <1>0, <1>3, <1>4 DEF IsLinked, Moved
  <1>6. \A d \in DOMAIN p.deals : DealKey(q, d) = DealKey(p, d)
    BY <1>4 DEF DealKey
  <1>7. Steady(p, q)
    BY <1>2, <1>3, <1>4, <1>6, NumbersHold
  <1>8. r \in reqs /\ fewer \subseteq reqs /\ reqs \subseteq fewer \cup {r}
        /\ \A x \in fewer : x.use \in Passes => x.val = {}
    BY DEF Without
  <1>9. ASSUME NEW x \in fewer PROVE Proper(q, x)
    <2>1. Proper(p, x) /\ ~Commit(x)
      BY <1>8 DEF Plan
    <2>2. x.use \in Passes => Tracked(q, x.use, x.val)
      BY <1>8 DEF Tracked
    <2> QED BY <1>7, <2>1, <2>2, ProperStays
  <1>10. \A x \in reqs : x.op \notin {"add member", "remove member"}
    BY DEF Commit, Commits
  <1>11. Apart(fewer) /\ Backed(q, fewer)
    BY <1>8, <1>10, FewerRequests DEF Plan, Backed
  <1>12. NameKey(p, r.val) = NameKey(p, r.at)
    <2>1. Proper(p, r)
      BY <1>8 DEF Plan
    <2>2. Mergeable(p, r.at, r.val)
      BY <2>1 DEF Proper, Calm, Tame, Harsh, Commits
    <2> QED BY <1>0, <2>2 DEF Mergeable
  <1>13. \A c \in DOMAIN q.contacts : NameKey(q, c) = NameKey(p, c)
    BY <1>3 DEF NameKey
  <1>14. ASSUME NEW t, NEW n, Held(p, reqs, t, n) PROVE Held(q, fewer, t, n)
    <2>1. PICK d, m : /\ d \in DOMAIN p.deals /\ m \in p.deals[d].members
                      /\ DealKey(p, d) = t /\ NameKey(p, m) = n /\ Stays(reqs, d, m)
      BY <1>10, <1>14 DEF Held, IsOn, GetsOn
    <2> DEFINE k == Moved(r.val, r.at, m)
    <2>2. k \in q.deals[d].members
      BY <1>4, <2>1
    <2>3. NameKey(p, k) = n
      BY <1>12, <2>1 DEF Moved
    <2> HIDE DEF k
    <2>4. k \in DOMAIN q.contacts
      BY <1>4, <1>5, <2>1, <2>2 DEF IsLinked
    <2>5. Stays(fewer, d, k)
      BY <1>8 DEF Stays, Commit, Commits
    <2> QED BY <1>4, <1>6, <1>13, <2>1, <2>2, <2>3, <2>4, <2>5 DEF Held, IsOn
  <1>15. Plan(old, q, fewer)
    BY <1>9, <1>11, <1>14 DEF Plan, EverybodyHeld
  <1> QED BY <1>5, <1>15 DEF q

-----------------------------------------------------------------------------
(* What a clean-up goes on with when it has read                           *)

\* A listing has been read: its requests are to come.
LEMMA PlanGoesOn ==
  ASSUME NEW old, NEW p, NEW reqs, Plan(old, p, reqs),
         \A x \in reqs : ~Commit(x) /\ x.use # "relink",
         NEW more, Apart(more), \A x \in more : Proper(p, x) /\ ~Commit(x)
  PROVE  Plan(old, p, reqs \cup more)
  <1>1. \A x \in reqs \cup more : x.op \notin Commits
    BY DEF Commit
  <1>2. Apart(reqs \cup more)
    <2>1. \A x \in reqs : \A d : ~DoomsDeal(x, d)
      BY <1>1 DEF DoomsDeal, Commits
    <2> QED BY <1>1, <2>1 DEF Apart, Commits
  <1>3. Backed(p, reqs \cup more)
    BY <1>1 DEF Backed, Commits
  <1>4. ASSUME NEW t, NEW n, Held(p, reqs, t, n) PROVE Held(p, reqs \cup more, t, n)
    <2>1. \A d, m : Stays(reqs \cup more, d, m)
      BY <1>1 DEF Stays, Commits
    <2> QED BY <1>1, <1>4, <2>1 DEF Held, IsOn, GetsOn, Commits
  <1> QED BY <1>2, <1>3, <1>4 DEF Plan, EverybodyHeld

\* crm_dedupe.go:150: the members of the deal that goes are all to be added to the one that stays.
LEMMA RelinkPlan ==
  ASSUME NEW old, NEW p, IsLinked(p), NEW reqs, Plan(old, p, reqs), \A x \in reqs : ~Commit(x),
         NEW r \in reqs, r.op = "deal", r.use = "relink", r.at \in DOMAIN p.deals,
         NEW fewer, Without(reqs, fewer, r),
         NEW more,
         \A x \in more : \/ /\ Asks(x, "add member", r.val, x.val, "") /\ x.onErr = "drop"
                            /\ x.ways = 1 /\ x.val \in p.deals[r.at].members
                         \/ Asks(x, "drop deal", r.at, 0, "") /\ x.onErr = "count" /\ x.ways = 1,
         \A m \in p.deals[r.at].members : \E x \in more : x.op = "add member" /\ x.val = m
  PROVE  Plan(old, p, fewer \cup more)
  <1>0. fewer \subseteq reqs
    BY DEF Without
  <1>1. SameDeal(p, r.at, r.val) /\ r.at # r.val
    <2>1. Proper(p, r) /\ Apart(reqs)
      BY DEF Plan
    <2>2. SameDeal(p, r.at, r.val)
      BY <2>1 DEF Proper, Calm, Tame, Commits, Passes, ContactPasses, DealPasses
    <2>3. r.at # r.val
      BY <2>1 DEF Apart, DoomsDeal
    <2> QED BY <2>2, <2>3
  <1>2. \A x \in fewer : x.op \notin Commits
    BY <1>0 DEF Commit
  <1>3. \A x \in more : \/ x.op = "add member" /\ x.at = r.val /\ x.use = ""
                        \/ x.op = "drop deal" /\ x.at = r.at /\ x.use = ""
    BY DEF Asks
  <1>4. ASSUME NEW x \in fewer \cup more PROVE Proper(p, x)
    <2>1. CASE x \in fewer
      BY <1>0, <2>1 DEF Plan
    <2>2. CASE x \in more
      BY <1>1, <2>2 DEF Proper, Asks, IsLinked, SameDeal, Commits
    <2> QED BY <2>1, <2>2
  <1>5. Apart(fewer \cup more)
    <2> SUFFICES ASSUME NEW x \in fewer \cup more, NEW y \in fewer \cup more
                 PROVE  /\ x.use = "relink" => ~DoomsDeal(y, x.val)
                        /\ x.op = "add member" => ~DoomsDeal(y, x.at)
                        /\ x.op = "put deal" => y.op \notin {"add member", "remove member"}
      BY DEF Apart
    <2>1. x.op # "put deal"
      BY <1>2, <1>3 DEF Commits
    <2>2. CASE x \in fewer
      <3>1. x.op # "add member" /\ x \in reqs
        BY <1>0, <1>2, <2>2 DEF Commits
      <3>2. CASE y \in fewer
        BY <1>0, <2>1, <3>1, <3>2 DEF Plan, Apart
      <3>3. CASE y \in more
        <4>1. x.use = "relink" => r.at # x.val
          BY <3>1 DEF Plan, Apart, DoomsDeal
        <4> QED BY <1>3, <2>1, <3>1, <3>3, <4>1 DEF DoomsDeal
      <3> QED BY <3>2, <3>3
    <2>3. CASE x \in more
      <3>1. x.use # "relink" /\ (x.op = "add member" => x.at = r.val)
        BY <1>3, <2>3
      <3>2. ~DoomsDeal(y, r.val)
        <4>1. CASE y \in fewer
          BY <1>0, <4>1 DEF Plan, Apart
        <4>2. CASE y \in more
          BY <1>1, <1>3, <4>2 DEF DoomsDeal
        <4> QED BY <4>1, <4>2
      <3> QED BY <2>1, <3>1, <3>2
    <2> QED BY <2>2, <2>3
  <1>6. Backed(p, fewer \cup more)
    BY <1>2, <1>3 DEF Backed, Commits
  <1>7. ASSUME NEW t, NEW n, Held(p, reqs, t, n) PROVE Held(p, fewer \cup more, t, n)
    <2>0. ~GetsOn(p, reqs, t, n)
      BY DEF GetsOn, Commit, Commits
    <2>1. PICK d \in DOMAIN p.deals : \E m \in p.deals[d].members :
                      DealKey(p, d) = t /\ NameKey(p, m) = n
      <3>1. IsOn(p, reqs, t, n)
        BY <1>7, <2>0 DEF Held
      <3> QED BY <3>1, Zenon DEF IsOn
    <2>4. PICK m \in p.deals[d].members : DealKey(p, d) = t /\ NameKey(p, m) = n
      BY <2>1
    <2>2. CASE d = r.at
      <3>1. PICK x \in more : x.op = "add member" /\ x.val = m
        BY <2>1, <2>4, <2>2
      <3>2. x.at = r.val
        BY <1>3, <3>1
      <3>3. Called(p, r.val, t)
        BY <1>1, <2>1, <2>2 DEF Called, SameDeal
      <3> QED BY <2>1, <2>4, <3>1, <3>2, <3>3 DEF Held, GetsOn
    <2>3. CASE d # r.at
      <3>1. Stays(fewer \cup more, d, m)
        BY <1>2, <1>3, <2>3 DEF Stays, Commits
      <3> QED BY <2>1, <2>4, <3>1 DEF Held, IsOn
    <2> QED BY <2>2, <2>3
  <1> QED BY <1>4, <1>5, <1>6, <1>7 DEF Plan, EverybodyHeld

LEMMA NotBefore ==
  ASSUME NEW j \in Nat, NEW k \in Nat, k <= j
  PROVE  ~(j < k)
  OBVIOUS

\* crm_dedupe_plan.go:129: of the members with the same name one stays.
LEMMA MembersPlan ==
  ASSUME NEW old, NEW p, IsPortal(p), IsLinked(p), NEW reqs, Plan(old, p, reqs),
         \A x \in reqs : ~Commit(x), NEW d \in DOMAIN p.deals,
         NEW more,
         \A x \in more :
            /\ Asks(x, "remove member", d, x.val, "") /\ x.onErr = "count" /\ x.ways = 1
            /\ x.val \in DedupeMembersByDisplayName(p.contacts, p.deals[d].members)
  PROVE  Plan(old, p, reqs \cup more)
  <1> DEFINE M == p.deals[d].members
             gone == DedupeMembersByDisplayName(p.contacts, M)
  <1>1. \A x \in reqs : x.op \notin Commits
    BY DEF Commit
  <1>2. /\ \A x \in more : /\ x.op = "remove member" /\ x.at = d /\ x.use = ""
                           /\ x.val \in gone
        /\ gone \subseteq M /\ M \subseteq DOMAIN p.contacts /\ M \subseteq Nat /\ d \in Given(p)
    <2>1. gone \subseteq M
      BY DEF DedupeMembersByDisplayName
    <2>2. M \subseteq DOMAIN p.contacts /\ DOMAIN p.contacts \subseteq Given(p) /\ d \in Given(p)
      BY DEF IsLinked, IsPortal, HasNumbers
    <2> QED BY <2>1, <2>2, FiniteGiven DEF Asks
  <1>3. ASSUME NEW x \in reqs \cup more PROVE Proper(p, x)
    <2>1. CASE x \in reqs
      BY <2>1 DEF Plan
    <2>2. CASE x \in more
      <3>1. x.op = "remove member" /\ x.at \in Given(p) /\ x.use = "" /\ x.val \in DOMAIN p.contacts
        BY <1>2, <2>2
      <3> QED BY <2>2, <3>1 DEF Proper, Commits
    <2> QED BY <2>1, <2>2
  <1>4. Apart(reqs \cup more)
    <2>1. \A x \in more : \A e : ~DoomsDeal(x, e)
      BY <1>2 DEF DoomsDeal
    <2> QED BY <1>1, <1>2, <2>1 DEF Plan, Apart, Commits
  <1>5. ASSUME NEW m \in M
        PROVE  \E k \in M \ gone : NameKey(p, k) = NameKey(p, m)
    <2> DEFINE same == {k \in M : NameKey(p, k) = NameKey(p, m)}
    <2>1. same \subseteq Nat /\ same # {}
      BY <1>2
    <2>2. PICK k \in same : \A j \in same : k <= j
      <3> HIDE DEF same
      <3> QED BY <2>1, LeastNat
    <2>3. k \notin gone
      <3> SUFFICES ASSUME k \in gone PROVE FALSE
        OBVIOUS
      <3>1. PICK j \in M : j < k /\ NameKey(p, j) = NameKey(p, k)
        BY DEF DedupeMembersByDisplayName, NameKey
      <3>2. j \in same
        BY <2>2, <3>1
      <3>3. k <= j /\ j \in Nat /\ k \in Nat /\ j < k
        BY <2>1, <2>2, <3>1, <3>2
      <3> QED BY <3>3, NotBefore
    <2> QED BY <2>2, <2>3
  <1> HIDE DEF M, gone
  <1>6. Backed(p, reqs \cup more)
    <2> SUFFICES ASSUME NEW x \in reqs \cup more, x.op = "remove member", x.at \in DOMAIN p.deals
                 PROVE  \E k \in p.deals[x.at].members :
                           /\ NameKey(p, k) = NameKey(p, x.val)
                           /\ \A y \in reqs \cup more :
                                 y.op = "remove member" /\ y.at = x.at => y.val # k
      BY DEF Backed
    <2>1. x \in more /\ x.at = d /\ x.val \in M
      BY <1>1, <1>2 DEF Commits
    <2>2. PICK k \in M \ gone : NameKey(p, k) = NameKey(p, x.val)
      BY <1>5, <2>1
    <2>3. \A y \in reqs \cup more : y.op = "remove member" => y.val \in gone
      BY <1>1, <1>2 DEF Commits
    <2> QED BY <2>1, <2>2, <2>3 DEF M
  <1>7. ASSUME NEW t, NEW n, Held(p, reqs, t, n) PROVE Held(p, reqs \cup more, t, n)
    <2>1. \A e, m : Stays(reqs \cup more, e, m)
      BY <1>1, <1>2 DEF Stays, Commits
    <2> QED BY <1>1, <1>7, <2>1 DEF Held, IsOn, GetsOn, Commits
  <1> QED BY <1>3, <1>4, <1>6, <1>7 DEF Plan, EverybodyHeld

\* crm.go:545: the deal goes back with the members it was read with.
LEMMA RenamePlan ==
  ASSUME NEW old, NEW p, IsPortal(p), IsLinked(p), NEW reqs, Plan(old, p, reqs),
         \A x \in reqs : ~Commit(x),
         NEW d \in DOMAIN p.deals, NEW title, DOMAIN title = TitleFields,
         Called(p, d, TitleKey(title)),
         NEW r, Asks(r, "put deal", d, OpportunityUpdateBody(p.deals[d], title), ""),
         r.onErr = "count", r.ways = 1
  PROVE  Plan(old, p, reqs \cup {r})
  <1>1. \A x \in reqs : x.op \notin Commits
    BY DEF Commit
  <1>2. /\ r.op = "put deal" /\ r.at = d /\ r.use = ""
        /\ r.val.members = p.deals[d].members /\ r.val.title = title
    <2>1. DOMAIN p.deals[d] = DealFields
      BY PortalFields
    <2> QED BY <2>1 DEF Asks, OpportunityUpdateBody, DealFields
  <1>3. ASSUME NEW x \in reqs \cup {r} PROVE Proper(p, x)
    <2>1. Proper(p, r)
      BY <1>2 DEF Proper, IsLinked, Called, Commits
    <2> QED BY <2>1 DEF Plan
  <1>4. Apart(reqs \cup {r})
    BY <1>1, <1>2 DEF Plan, Apart, DoomsDeal, Commits
  <1>5. Backed(p, reqs \cup {r})
    BY <1>1, <1>2 DEF Backed, Commits
  <1>6. ASSUME NEW t, NEW n, Held(p, reqs, t, n) PROVE Held(p, reqs \cup {r}, t, n)
    <2>1. \A e \in DOMAIN p.deals : \A m \in p.deals[e].members : Stays(reqs \cup {r}, e, m)
      BY <1>1, <1>2 DEF Stays, Commits
    <2> QED BY <1>1, <1>6, <2>1 DEF Held, IsOn, GetsOn, Commits
  <1> QED BY <1>3, <1>4, <1>5, <1>6 DEF Plan, EverybodyHeld

-----------------------------------------------------------------------------
(* The requests of a script, one after the other                           *)

LEMMA SetOfTail ==
  ASSUME NEW s, IsList(s), s # <<>>
  PROVE  /\ IsList(Tail(s))
         /\ ToSet(s) = {Head(s)} \cup ToSet(Tail(s))
  <1> DEFINE t == Tail(s)
             n == Len(s)
  <1>1. s \in Seq(ToSet(s)) /\ n \in Nat /\ DOMAIN s = 1 .. n /\ n # 0
    BY ListShape
  <1>2. Head(s) = s[1] /\ Len(t) = n - 1 /\ \A i \in 1 .. Len(t) : t[i] = s[i + 1]
    BY <1>1, HeadTailProperties
  <1>3. IsList(t)
    BY TailList
  <1>4. DOMAIN t = 1 .. Len(t)
    BY <1>3, ListShape
  <1> HIDE DEF t, n
  <1>5. \A i \in 1 .. n : i = 1 \/ (i - 1 \in 1 .. n - 1 /\ (i - 1) + 1 = i)
    BY <1>1
  <1>6. \A i \in 1 .. n - 1 : i + 1 \in 1 .. n
    BY <1>1
  <1>7. 1 \in 1 .. n
    BY <1>1
  <1>8. ToSet(s) \subseteq {Head(s)} \cup ToSet(t)
    <2> SUFFICES ASSUME NEW i \in 1 .. n PROVE s[i] \in {Head(s)} \cup ToSet(t)
      BY <1>1 DEF ToSet
    <2>1. CASE i = 1
      BY <1>2, <2>1
    <2>2. CASE i # 1
      <3>1. i - 1 \in DOMAIN t /\ t[i - 1] = s[i]
        BY <1>2, <1>4, <1>5, <2>2
      <3> QED BY <3>1 DEF ToSet
    <2> QED BY <2>1, <2>2
  <1>9. {Head(s)} \cup ToSet(t) \subseteq ToSet(s)
    BY <1>1, <1>2, <1>4, <1>6, <1>7 DEF ToSet
  <1> QED BY <1>3, <1>8, <1>9 DEF t

\* Where an element of a concatenation comes from.
Joined(u, s, t, n, m) ==
  /\ IsList(u)
  /\ n \in Nat /\ DOMAIN s = 1 .. n
  /\ m \in Nat /\ DOMAIN t = 1 .. m
  /\ DOMAIN u = 1 .. n + m
  /\ \A i \in DOMAIN s : i \in DOMAIN u /\ u[i] = s[i]
  /\ \A i \in DOMAIN t : i + n \in DOMAIN u /\ u[i + n] = t[i]
  /\ \A i \in DOMAIN u : i \in DOMAIN s \/ (i - n \in DOMAIN t /\ u[i] = t[i - n])

LEMMA ConcatPlaces ==
  ASSUME NEW s, IsList(s), NEW t, IsList(t)
  PROVE  Joined(s \o t, s, t, Len(s), Len(t))
  <1> DEFINE S == ToSet(s) \cup ToSet(t)
             u == s \o t
             n == Len(s)
             m == Len(t)
  <1>1. s \in Seq(S) /\ t \in Seq(S)
    <2>1. /\ s \in Seq(ToSet(s)) /\ ToSet(s) \subseteq S
          /\ t \in Seq(ToSet(t)) /\ ToSet(t) \subseteq S
      BY ListShape
    <2> HIDE DEF S
    <2> QED BY <2>1, SeqMonotonic
  <1>2. n \in Nat /\ m \in Nat /\ DOMAIN s = 1 .. n /\ DOMAIN t = 1 .. m
    BY ListShape
  <1> HIDE DEF S
  <1>3. /\ u \in Seq(S) /\ Len(u) = n + m
        /\ \A i \in 1 .. n + m : u[i] = IF i <= n THEN s[i] ELSE t[i - n]
    BY <1>1, ConcatProperties
  <1> HIDE DEF u, n, m
  <1>4. IsList(u)
    BY <1>3, SeqIsList
  <1>5. DOMAIN u = 1 .. n + m
    BY <1>3, <1>4, ListShape
  <1>6. /\ \A i \in 1 .. n : i \in 1 .. n + m /\ i <= n
        /\ \A i \in 1 .. m : i + n \in 1 .. n + m /\ ~(i + n <= n) /\ (i + n) - n = i
        /\ \A i \in 1 .. n + m : i \in 1 .. n \/ (i - n \in 1 .. m /\ ~(i <= n))
    BY <1>2
  <1>7. Joined(u, s, t, n, m)
    BY <1>2, <1>3, <1>4, <1>5, <1>6 DEF Joined
  <1> QED BY <1>7 DEF u, n, m

LEMMA SetOfConcat ==
  ASSUME NEW s, IsList(s), NEW t, IsList(t)
  PROVE  IsList(s \o t) /\ ToSet(s \o t) = ToSet(s) \cup ToSet(t)
  <1> DEFINE u == s \o t
             n == Len(s)
             m == Len(t)
  <1>0. Joined(u, s, t, n, m)
    BY ConcatPlaces
  <1> HIDE DEF u, n, m
  <1>1. /\ IsList(u)
        /\ \A i \in DOMAIN s : i \in DOMAIN u /\ u[i] = s[i]
        /\ \A i \in DOMAIN t : i + n \in DOMAIN u /\ u[i + n] = t[i]
        /\ \A i \in DOMAIN u : i \in DOMAIN s \/ (i - n \in DOMAIN t /\ u[i] = t[i - n])
    BY <1>0 DEF Joined
  <1>2. ToSet(u) \subseteq ToSet(s) \cup ToSet(t)
    BY <1>1 DEF ToSet
  <1>3. ToSet(s) \subseteq ToSet(u)
    BY <1>1 DEF ToSet
  <1>4. ToSet(t) \subseteq ToSet(u)
    <2> SUFFICES ASSUME NEW i \in DOMAIN t PROVE t[i] \in ToSet(u)
      BY DEF ToSet
    <2>1. i + n \in DOMAIN u /\ u[i + n] = t[i]
      BY <1>1
    <2> QED BY <2>1 DEF ToSet
  <1> QED BY <1>1, <1>2, <1>3, <1>4 DEF u

LEMMA TailInTurn ==
  ASSUME NEW s, IsList(s), s # <<>>, InTurn(s)
  PROVE  /\ InTurn(Tail(s))
         /\ \A x \in ToSet(Tail(s)) : /\ Commit(x) => Commit(Head(s))
                                      /\ x.use \in Passes => x.val = {}
                                      /\ Head(s).use \in Passes => x.use # "relink"
  <1> DEFINE t == Tail(s)
  <1>1. /\ 1 \in DOMAIN s /\ Head(s) = s[1] /\ IsList(t)
        /\ \A i \in DOMAIN t : i + 1 \in DOMAIN s /\ t[i] = s[i + 1]
    BY TailList
  <1>2. DOMAIN t = 1 .. Len(t) /\ Len(t) \in Nat
    BY <1>1, ListShape
  <1> HIDE DEF t
  <1>3. /\ \A i \in DOMAIN t : 1 < i + 1
        /\ \A i, j \in DOMAIN t : i < j => i + 1 < j + 1
    BY <1>2
  <1>4. InTurn(t)
    <2> SUFFICES ASSUME NEW i \in DOMAIN t, NEW j \in DOMAIN t, i < j
                 PROVE  /\ Commit(t[j]) => Commit(t[i])
                        /\ t[j].use \in Passes => t[j].val = {}
                        /\ t[i].use \in Passes => t[j].use # "relink"
      BY DEF InTurn
    <2>1. i + 1 \in DOMAIN s /\ j + 1 \in DOMAIN s /\ i + 1 < j + 1
      BY <1>1, <1>3
    <2> QED BY <1>1, <2>1 DEF InTurn
  <1>5. ASSUME NEW i \in DOMAIN t
        PROVE  /\ Commit(t[i]) => Commit(Head(s))
               /\ t[i].use \in Passes => t[i].val = {}
               /\ Head(s).use \in Passes => t[i].use # "relink"
    <2>1. i + 1 \in DOMAIN s /\ 1 < i + 1
      BY <1>1, <1>3
    <2> QED BY <1>1, <2>1 DEF InTurn
  <1> QED BY <1>4, <1>5 DEF ToSet, t

\* What a script goes on with is in turn: the rest has no commits and no rows.
LEMMA ConcatInTurn ==
  ASSUME NEW s, IsList(s), InTurn(s), NEW t, IsList(t), InTurn(t),
         \A x \in ToSet(t) : ~Commit(x) /\ (x.use \in Passes => x.val = {}),
         (\E x \in ToSet(s) : x.use \in Passes) => \A x \in ToSet(t) : x.use # "relink"
  PROVE  InTurn(s \o t)
  <1> DEFINE u == s \o t
             n == Len(s)
             m == Len(t)
  <1>0. Joined(u, s, t, n, m)
    BY ConcatPlaces
  <1> HIDE DEF u, n, m
  <1>1. /\ IsList(u)
        /\ DOMAIN s = 1 .. n /\ n \in Nat
        /\ DOMAIN t = 1 .. m /\ m \in Nat
        /\ DOMAIN u = 1 .. n + m
        /\ \A i \in DOMAIN s : i \in DOMAIN u /\ u[i] = s[i]
        /\ \A i \in DOMAIN u : i \in DOMAIN s \/ (i - n \in DOMAIN t /\ u[i] = t[i - n])
    BY <1>0 DEF Joined
  <1>2. /\ \A i, j \in DOMAIN u : i < j /\ j \in DOMAIN s => i \in DOMAIN s
        /\ \A i, j \in DOMAIN u : i < j => i - n < j - n
    BY <1>1
  <1> SUFFICES ASSUME NEW i \in DOMAIN u, NEW j \in DOMAIN u, i < j
               PROVE  /\ Commit(u[j]) => Commit(u[i])
                      /\ u[j].use \in Passes => u[j].val = {}
                      /\ u[i].use \in Passes => u[j].use # "relink"
    BY DEF InTurn, u
  <1>3. CASE j \in DOMAIN s
    <2>1. i \in DOMAIN s
      BY <1>2, <1>3
    <2> QED BY <1>1, <1>3, <2>1 DEF InTurn
  <1>4. CASE j \notin DOMAIN s
    <2>1. j - n \in DOMAIN t /\ u[j] = t[j - n] /\ u[j] \in ToSet(t)
      BY <1>1, <1>4 DEF ToSet
    <2>2. ~Commit(u[j]) /\ (u[j].use \in Passes => u[j].val = {})
      BY <2>1
    <2>3. CASE i \in DOMAIN s
      <3>1. u[i] \in ToSet(s)
        BY <1>1, <2>3 DEF ToSet
      <3> QED BY <2>1, <2>2, <3>1
    <2>4. CASE i \notin DOMAIN s
      <3>1. i - n \in DOMAIN t /\ u[i] = t[i - n] /\ i - n < j - n
        BY <1>1, <1>2, <2>4
      <3> QED BY <2>1, <2>2, <3>1 DEF InTurn
    <2> QED BY <2>3, <2>4
  <1> QED BY <1>3, <1>4

\* All commits, or none, and no listings: in turn.
LEMMA EvenScript ==
  ASSUME NEW s, \A x \in ToSet(s) : x.use \notin Passes,
         (\A x \in ToSet(s) : Commit(x)) \/ (\A x \in ToSet(s) : ~Commit(x))
  PROVE  InTurn(s)
  <1>1. \A i \in DOMAIN s : s[i] \in ToSet(s)
    BY DEF ToSet
  <1> QED BY <1>1 DEF InTurn

LEMMA OneInTurn ==
  ASSUME NEW r
  PROVE  IsList(<<r>>) /\ ToSet(<<r>>) = {r} /\ InTurn(<<r>>)
  <1> DEFINE s == <<r>>
  <1>1. IsList(s) /\ DOMAIN s = {1} /\ s[1] = r
    BY OneElement
  <1> HIDE DEF s
  <1>2. \A i, j \in {1} : ~(i < j)
    OBVIOUS
  <1>3. IsList(s) /\ ToSet(s) = {r} /\ InTurn(s)
    BY <1>1, <1>2 DEF ToSet, InTurn
  <1> QED BY <1>3 DEF s

-----------------------------------------------------------------------------
(* What the passes of a clean-up ask for                                   *)

LEMMA CanonicalIsOne ==
  ASSUME NEW S, S \subseteq Nat, S # {}
  PROVE  PickCanonicalID(S) \in S
  BY LeastNat DEF PickCanonicalID, Min

LEMMA InOrderRows ==
  ASSUME NEW rows, IsFiniteSet(rows), \A x \in rows : x.id \in Nat
  PROVE  \A i \in DOMAIN InOrder(rows) : InOrder(rows)[i] \in rows
  <1> DEFINE ids == {x.id : x \in rows}
             s == InOrder(rows)
  <1>1. IsFiniteSet(ids) /\ ids \subseteq Nat
    BY FiniteIds
  <1>2. \A id \in ids : (CHOOSE x \in rows : x.id = id) \in rows
    OBVIOUS
  <1>3. /\ DOMAIN s = DOMAIN SortedIds(ids)
        /\ \A i \in DOMAIN s : s[i] = CHOOSE x \in rows : x.id = SortedIds(ids)[i]
    <2>1. s = ForEach(SortedIds(ids), LAMBDA id : CHOOSE x \in rows : x.id = id)
      BY DEF InOrder
    <2> HIDE DEF s, ids
    <2> QED BY <2>1 DEF ForEach
  <1> HIDE DEF s, ids
  <1>4. \A i \in DOMAIN SortedIds(ids) : SortedIds(ids)[i] \in ids
    BY <1>1, SortedIsList, SortedProperties
  <1>5. ASSUME NEW i \in DOMAIN s PROVE s[i] \in rows
    <2> DEFINE id == SortedIds(ids)[i]
    <2>1. id \in ids /\ s[i] = CHOOSE x \in rows : x.id = id
      BY <1>3, <1>4
    <2> HIDE DEF id
    <2> QED BY <1>2, <2>1
  <1> QED BY <1>5 DEF s

\* A page has records of the portal, as they are.
LEMMA ChunkRows ==
  ASSUME NEW p, IsPortal(p), NEW records, DOMAIN records \subseteq Given(p), NEW r
  PROVE  \A x \in Chunk(records, r) : x.id \in DOMAIN records /\ x.of = records[x.id]
  <1> DEFINE ids == DOMAIN records
  <1>1. IsFiniteSet(ids) /\ ids \subseteq Nat
    BY FiniteGiven
  <1>2. \A i \in 1 .. Cardinality(ids) : SortedIds(ids)[i] \in ids
    BY <1>1, SortedProperties
  <1>3. Page(ids, r.at) \subseteq ids
    BY <1>2 DEF Page
  <1> QED BY <1>3 DEF Chunk

\* The groups whose deals have the same title.
GroupOf(rows, ignore, key) ==
  {w.id : w \in {x \in rows : DealTitleKey(x.of.title, ignore) = key}}

\* crm_dedupe_plan.go:34: whoever is merged has the same name as the one he becomes.
LEMMA GroupsAreAlike ==
  ASSUME NEW rows, NEW script,
         script \in DedupeCompanies(rows) \cup DedupePersons(rows) \cup DedupeCompanyPersons(rows)
  PROVE  \E groups : \E order \in SetToSeqs(groups) :
           /\ groups \subseteq SUBSET {x.id : x \in rows}
           /\ script = FlattenSeq(ForEach(order, MergePlan))
           /\ \A g \in groups : \A a, b \in g : \E y, z \in rows :
                 /\ y.id = a /\ z.id = b
                 /\ CompanyGroupingKey(y.of.name) = CompanyGroupingKey(z.of.name)
  <1>1. CASE script \in DedupeCompanies(rows)
    <2> DEFINE some == {x \in rows : x.of.company}
               groups == Groups(some, LAMBDA c : CompanyGroupingKey(c.name))
    <2>1. \E order \in SetToSeqs(groups) : script = FlattenSeq(ForEach(order, MergePlan))
      BY <1>1 DEF DedupeCompanies, InAnyOrder
    <2>2. groups \subseteq SUBSET {x.id : x \in rows}
      BY DEF Groups
    <2>3. ASSUME NEW g \in groups, NEW a \in g, NEW b \in g
          PROVE  \E y, z \in rows :
                    /\ y.id = a /\ z.id = b
                    /\ CompanyGroupingKey(y.of.name) = CompanyGroupingKey(z.of.name)
      <3>1. PICK k : g = {q.id : q \in {x \in some : CompanyGroupingKey(x.of.name) = k}}
        BY DEF Groups
      <3> HIDE DEF groups
      <3>2. PICK y \in rows : y.id = a /\ CompanyGroupingKey(y.of.name) = k
        BY <3>1
      <3>3. PICK z \in rows : z.id = b /\ CompanyGroupingKey(z.of.name) = k
        BY <3>1
      <3> QED BY <3>2, <3>3
    <2> HIDE DEF groups
    <2> QED BY <2>1, <2>2, <2>3
  <1>2. CASE script \in DedupePersons(rows)
    <2> DEFINE some == {x \in rows : ~x.of.company}
               groups == Groups(some, LAMBDA c : NormalizePersonKey(c.name))
    <2>1. \E order \in SetToSeqs(groups) : script = FlattenSeq(ForEach(order, MergePlan))
      BY <1>2 DEF DedupePersons, InAnyOrder
    <2>2. groups \subseteq SUBSET {x.id : x \in rows}
      BY DEF Groups
    <2>3. ASSUME NEW g \in groups, NEW a \in g, NEW b \in g
          PROVE  \E y, z \in rows :
                    /\ y.id = a /\ z.id = b
                    /\ CompanyGroupingKey(y.of.name) = CompanyGroupingKey(z.of.name)
      <3>1. PICK k : g = {q.id : q \in {x \in some : NormalizePersonKey(x.of.name) = k}}
        BY DEF Groups
      <3> HIDE DEF groups
      <3>2. PICK y \in rows : y.id = a /\ y.of.name = k
        BY <3>1 DEF NormalizePersonKey
      <3>3. PICK z \in rows : z.id = b /\ z.of.name = k
        BY <3>1 DEF NormalizePersonKey
      <3> QED BY <3>2, <3>3
    <2> HIDE DEF groups
    <2> QED BY <2>1, <2>2, <2>3
  <1>3. CASE script \in DedupeCompanyPersons(rows)
    <2> DEFINE some == {x \in rows : ~x.of.company /\ x.of.org # NoOne}
               groups == Groups(some, LAMBDA c : <<c.org, NormalizePersonKey(c.name)>>)
    <2>1. \E order \in SetToSeqs(groups) : script = FlattenSeq(ForEach(order, MergePlan))
      BY <1>3 DEF DedupeCompanyPersons, InAnyOrder
    <2>2. groups \subseteq SUBSET {x.id : x \in rows}
      BY DEF Groups
    <2>3. ASSUME NEW g \in groups, NEW a \in g, NEW b \in g
          PROVE  \E y, z \in rows :
                    /\ y.id = a /\ z.id = b
                    /\ CompanyGroupingKey(y.of.name) = CompanyGroupingKey(z.of.name)
      <3>1. PICK k : g = {q.id : q \in {x \in some :
                                           <<x.of.org, NormalizePersonKey(x.of.name)>> = k}}
        BY DEF Groups
      <3> HIDE DEF groups
      <3>2. PICK y \in rows : y.id = a /\ <<y.of.org, y.of.name>> = k
        BY <3>1 DEF NormalizePersonKey
      <3>3. PICK z \in rows : z.id = b /\ <<z.of.org, z.of.name>> = k
        BY <3>1 DEF NormalizePersonKey
      <3> QED BY <3>2, <3>3
    <2> HIDE DEF groups
    <2> QED BY <2>1, <2>2, <2>3
  <1> QED BY <1>1, <1>2, <1>3

LEMMA MergeRequests ==
  ASSUME NEW rows, IsFiniteSet(rows), \A x \in rows : x.id \in Nat,
         NEW script,
         script \in DedupeCompanies(rows) \cup DedupePersons(rows) \cup DedupeCompanyPersons(rows)
  PROVE  \A x \in ToSet(script) :
            /\ x.op = "merge" /\ x.use = ""
            /\ \E y, z \in rows :
                  /\ y.id = x.at /\ z.id = x.val
                  /\ CompanyGroupingKey(y.of.name) = CompanyGroupingKey(z.of.name)
  <1>1. PICK groups : \E order \in SetToSeqs(groups) :
           /\ groups \subseteq SUBSET {x.id : x \in rows}
           /\ script = FlattenSeq(ForEach(order, MergePlan))
           /\ \A g \in groups : \A a, b \in g : \E y, z \in rows :
                 /\ y.id = a /\ z.id = b
                 /\ CompanyGroupingKey(y.of.name) = CompanyGroupingKey(z.of.name)
    BY GroupsAreAlike
  <1>2. PICK order \in SetToSeqs(groups) :
           /\ groups \subseteq SUBSET {x.id : x \in rows}
           /\ script = FlattenSeq(ForEach(order, MergePlan))
           /\ \A g \in groups : \A a, b \in g : \E y, z \in rows :
                 /\ y.id = a /\ z.id = b
                 /\ CompanyGroupingKey(y.of.name) = CompanyGroupingKey(z.of.name)
    BY <1>1
  <1> DEFINE seqs == ForEach(order, MergePlan)
             S == UNION {ToSet(MergePlan(g)) : g \in groups}
  <1>3. IsFiniteSet(groups) /\ \A g \in groups : IsFiniteSet(g) /\ g \subseteq Nat
    BY <1>2, GroupsAreFinite
  <1>4. /\ seqs = [i \in DOMAIN order |-> seqs[i]]
        /\ \A i \in DOMAIN order : seqs[i] = MergePlan(order[i])
    BY DEF ForEach
  <1>5. IsList(order) /\ \A i \in DOMAIN order : order[i] \in groups
    BY <1>3, AnyOrder
  <1> HIDE DEF seqs
  <1>6. IsList(seqs) /\ DOMAIN seqs = DOMAIN order
    <2>1. Len(order) \in Nat /\ DOMAIN order = 1 .. Len(order)
      BY <1>5, ListShape
    <2> QED BY <1>4, <2>1, FunctionIsList
  <1>7. \A i \in DOMAIN seqs : IsList(seqs[i]) /\ ToSet(seqs[i]) \subseteq S
    <2>1. \A g \in groups : IsList(MergePlan(g))
      BY <1>3, MergePlanIsGood DEF GoodScript
    <2>2. \A g \in groups : ToSet(MergePlan(g)) \subseteq S
      OBVIOUS
    <2> QED BY <1>4, <1>5, <1>6, <2>1, <2>2
  <1>8. \A x \in S : \E g \in groups : x \in ToSet(MergePlan(g))
    OBVIOUS
  <1> HIDE DEF S
  <1>9. ToSet(script) \subseteq S
    BY <1>2, <1>6, <1>7, FlattenList DEF seqs
  <1>10. ASSUME NEW g \in groups, NEW x \in ToSet(MergePlan(g))
         PROVE  x.op = "merge" /\ x.use = "" /\ x.at \in g /\ x.val \in g
    <2> DEFINE first == PickCanonicalID(g)
               T == g \ {first}
               s == MergePlan(g)
    <2>1. /\ s = [i \in DOMAIN SortedIds(T) |-> s[i]]
          /\ \A i \in DOMAIN SortedIds(T) : s[i] = MergeContacts(first, SortedIds(T)[i])
      BY DEF MergePlan, ForEach
    <2>2. IsFiniteSet(T) /\ T \subseteq Nat /\ T \subseteq g
      BY <1>3, FS_Subset
    <2> HIDE DEF T, s, first
    <2>3. PICK i \in DOMAIN SortedIds(T) : x = s[i]
      BY <1>10, <2>1 DEF ToSet, s
    <2>4. SortedIds(T)[i] \in T
      BY <2>2, SortedIsList, SortedProperties
    <2>5. first \in g
      BY <1>3, <2>2, <2>4, CanonicalIsOne DEF first
    <2>6. Asks(x, "merge", first, SortedIds(T)[i], "")
      <3>1. Asks(MergeContacts(first, SortedIds(T)[i]), "merge", first, SortedIds(T)[i], "")
        BY RequestShapes DEF MergeContacts
      <3> QED BY <2>1, <2>3, <3>1
    <2> QED BY <2>2, <2>4, <2>5, <2>6 DEF Asks
  <1> SUFFICES ASSUME NEW x \in ToSet(script)
               PROVE  /\ x.op = "merge" /\ x.use = ""
                      /\ \E y, z \in rows :
                            /\ y.id = x.at /\ z.id = x.val
                            /\ CompanyGroupingKey(y.of.name) = CompanyGroupingKey(z.of.name)
    OBVIOUS
  <1>11. PICK g \in groups : x \in ToSet(MergePlan(g))
    BY <1>8, <1>9
  <1>12. x.op = "merge" /\ x.use = "" /\ x.at \in g /\ x.val \in g
    BY <1>10, <1>11
  <1>13. \A a, b \in g : \E y, z \in rows :
            /\ y.id = a /\ z.id = b
            /\ CompanyGroupingKey(y.of.name) = CompanyGroupingKey(z.of.name)
    BY <1>2
  <1>14. \E y, z \in rows :
            /\ y.id = x.at /\ z.id = x.val
            /\ CompanyGroupingKey(y.of.name) = CompanyGroupingKey(z.of.name)
    BY <1>12, <1>13, Zenon
  <1> QED BY <1>12, <1>14

\* crm_dedupe.go:150: of each group the deals but one are read, to give their members to that one.
LEMMA RelinkRequests ==
  ASSUME NEW rows, IsFiniteSet(rows), \A x \in rows : x.id \in Nat,
         NEW ignore, NEW script, script \in DedupeOpportunities(rows, ignore)
  PROVE  \A x \in ToSet(script) :
            /\ x.op = "deal" /\ x.use = "relink"
            /\ \E key : /\ x.at \in GroupOf(rows, ignore, key)
                        /\ x.val \in GroupOf(rows, ignore, key)
                        /\ x.val = PickCanonicalID(GroupOf(rows, ignore, key))
                        /\ x.at # x.val
  <1> DEFINE Relink(group) ==
                ForEach(SortedIds(group \ {PickCanonicalID(group)}), LAMBDA sec :
                    For("relink", Request("deal", sec, PickCanonicalID(group), "count")))
  <1>1. PICK groups, order :
           /\ groups \subseteq SUBSET {x.id : x \in rows} /\ order \in SetToSeqs(groups)
           /\ script = FlattenSeq([i \in DOMAIN order |-> Relink(order[i])])
           /\ \A g \in groups : \E key : g = GroupOf(rows, ignore, key)
    <2> DEFINE all == Groups(rows, LAMBDA d : DealTitleKey(d.title, ignore))
    <2>1. \E order \in SetToSeqs(all) : script = FlattenSeq([i \in DOMAIN order |-> Relink(order[i])])
      BY DEF DedupeOpportunities, InAnyOrder, ForEach
    <2>2. all \subseteq SUBSET {x.id : x \in rows}
      BY DEF Groups
    <2>3. \A g \in all : \E key : g = GroupOf(rows, ignore, key)
      BY DEF Groups, GroupOf
    <2> HIDE DEF all, Relink
    <2> QED BY <2>1, <2>2, <2>3
  <1>2. IsFiniteSet(groups) /\ \A g \in groups : IsFiniteSet(g) /\ g \subseteq Nat
    BY <1>1, GroupsAreFinite
  <1>3. ASSUME NEW g \in groups
        PROVE  /\ IsList(Relink(g))
               /\ \A x \in ToSet(Relink(g)) :
                     /\ x.op = "deal" /\ x.use = "relink" /\ x.at \in g /\ x.val \in g
                     /\ x.val = PickCanonicalID(g) /\ x.at # x.val
    <2> DEFINE first == PickCanonicalID(g)
               T == g \ {first}
               s == Relink(g)
    <2>1. /\ s = [i \in DOMAIN SortedIds(T) |-> s[i]]
          /\ \A i \in DOMAIN SortedIds(T) :
                s[i] = For("relink", Request("deal", SortedIds(T)[i], first, "count"))
      BY DEF ForEach
    <2>2. IsFiniteSet(T) /\ T \subseteq Nat /\ T \subseteq g /\ first \notin T
      BY <1>2, FS_Subset
    <2> HIDE DEF s, T, first
    <2>3. /\ Cardinality(T) \in Nat /\ DOMAIN SortedIds(T) = 1 .. Cardinality(T)
          /\ \A i \in DOMAIN SortedIds(T) : SortedIds(T)[i] \in T
      BY <2>2, FS_CardinalityType, SortedIsList, SortedProperties
    <2>4. IsList(s)
      BY <2>1, <2>3, FunctionIsList
    <2>5. ASSUME NEW x \in ToSet(s)
          PROVE  /\ x.op = "deal" /\ x.use = "relink" /\ x.at \in g /\ x.val \in g
                 /\ x.val = first /\ x.at # x.val
      <3>1. PICK i \in DOMAIN SortedIds(T) : x = s[i]
        BY <2>1, <2>5 DEF ToSet
      <3>2. SortedIds(T)[i] \in T
        BY <2>3
      <3>3. first \in g
        BY <1>2, <2>2, <3>2, CanonicalIsOne DEF first
      <3>4. Asks(x, "deal", SortedIds(T)[i], first, "relink")
        BY <2>1, <3>1, RequestShapes
      <3> QED BY <2>2, <3>2, <3>3, <3>4 DEF Asks
    <2> QED BY <2>4, <2>5 DEF s, first
  <1> DEFINE seqs == [i \in DOMAIN order |-> Relink(order[i])]
             S == UNION {ToSet(Relink(g)) : g \in groups}
  <1> HIDE DEF Relink
  <1>4. seqs = [i \in DOMAIN order |-> seqs[i]] /\ \A i \in DOMAIN order : seqs[i] = Relink(order[i])
    OBVIOUS
  <1>5. IsList(order) /\ \A i \in DOMAIN order : order[i] \in groups
    BY <1>1, <1>2, AnyOrder
  <1> HIDE DEF seqs
  <1>6. IsList(seqs) /\ DOMAIN seqs = DOMAIN order
    <2>1. Len(order) \in Nat /\ DOMAIN order = 1 .. Len(order)
      BY <1>5, ListShape
    <2> QED BY <1>4, <2>1, FunctionIsList
  <1>7. \A i \in DOMAIN seqs : IsList(seqs[i]) /\ ToSet(seqs[i]) \subseteq S
    BY <1>3, <1>4, <1>5, <1>6
  <1>8. \A x \in S : \E g \in groups : x \in ToSet(Relink(g))
    OBVIOUS
  <1> HIDE DEF S
  <1>9. ToSet(script) \subseteq S
    BY <1>1, <1>6, <1>7, FlattenList DEF seqs
  <1> QED BY <1>1, <1>3, <1>8, <1>9

-----------------------------------------------------------------------------
(* What a clean-up asks for next is proper                                 *)

LEMMA RowsAreTracked ==
  ASSUME NEW q, IsPortal(q), NEW staff, NEW r, Good(q, staff, r), r.use \in Passes, Proper(q, r),
         NEW records, records = IF r.use \in ContactPasses THEN q.contacts ELSE Deals(q)
  PROVE  /\ IsFiniteSet(Listed(records, r))
         /\ \A x \in Listed(records, r) : x.id \in Nat
         /\ Tracked(q, r.use, Listed(records, r))
  <1>1. DOMAIN records \subseteq Given(q)
    BY DEF IsPortal, HasNumbers, Deals, Restrict
  <1>2. /\ r.use \in ContactPasses => records = q.contacts
        /\ r.use \in DealPasses => /\ DOMAIN records \subseteq DOMAIN q.deals
                                   /\ \A d \in DOMAIN records : records[d] = q.deals[d]
    BY DEF Deals, Restrict, ContactPasses, DealPasses
  <1>3. r.use \in Listings
    BY DEF Passes, ContactPasses, DealPasses, Listings
  <1>4. Tracked(q, r.use, r.val)
    BY DEF Proper, Calm, Tame, Passes, ContactPasses, DealPasses
  <1>5. Tracked(q, r.use, Chunk(records, r))
    <2>1. \A x \in Chunk(records, r) : x.id \in DOMAIN records /\ x.of = records[x.id]
      BY <1>1, ChunkRows
    <2> QED BY <1>1, <1>2, <2>1 DEF Tracked
  <1>6. Tracked(q, r.use, Listed(records, r))
    BY <1>4, <1>5 DEF Tracked, Listed
  <1> QED BY <1>1, <1>3, <1>6, ListedRows

\* A pass asks for this, and nothing that changes a deal at once.
Asking(q, script) ==
  /\ \A x \in ToSet(script) : Proper(q, x) /\ ~Commit(x)
  /\ Apart(ToSet(script))
  /\ InTurn(script)

LEMMA AskingOne ==
  ASSUME NEW q, NEW r, Proper(q, r), ~Commit(r), r.use # "relink"
  PROVE  Asking(q, <<r>>)
  <1>1. ToSet(<<r>>) = {r} /\ InTurn(<<r>>)
    BY OneInTurn
  <1>2. Apart({r})
    BY DEF Apart, Commit, Commits
  <1> QED BY <1>1, <1>2 DEF Asking

\* Without a second reading of deals, requests do not get in each other's way.
LEMMA AskingFreely ==
  ASSUME NEW q, NEW script,
         \A x \in ToSet(script) : Proper(q, x) /\ ~Commit(x) /\ x.use \notin Passes \cup {"relink"}
  PROVE  Asking(q, script)
  <1>1. InTurn(script)
    BY EvenScript
  <1>2. Apart(ToSet(script))
    BY DEF Apart, Commit, Commits
  <1> QED BY <1>1, <1>2 DEF Asking

LEMMA AskingToMerge ==
  ASSUME NEW q, NEW use \in ContactPasses, NEW rows, Tracked(q, use, rows),
         IsFiniteSet(rows), \A x \in rows : x.id \in Nat,
         NEW script,
         script \in DedupeCompanies(rows) \cup DedupePersons(rows) \cup DedupeCompanyPersons(rows)
  PROVE  Asking(q, script)
  <1>1. ASSUME NEW x \in ToSet(script)
        PROVE  Proper(q, x) /\ ~Commit(x) /\ x.use \notin Passes \cup {"relink"}
    <2>1. /\ x.op = "merge" /\ x.use = ""
          /\ \E y, z \in rows :
                /\ y.id = x.at /\ z.id = x.val
                /\ CompanyGroupingKey(y.of.name) = CompanyGroupingKey(z.of.name)
      BY MergeRequests
    <2>2. PICK y \in rows, z \in rows :
             /\ y.id = x.at /\ z.id = x.val
             /\ CompanyGroupingKey(y.of.name) = CompanyGroupingKey(z.of.name)
      BY <2>1
    <2>3. Mergeable(q, x.at, x.val)
      BY <2>2 DEF Mergeable, Tracked, NameKey
    <2> QED BY <2>1, <2>3 DEF Proper, Commit, Commits, Passes, ContactPasses, DealPasses
  <1> QED BY <1>1, AskingFreely

\* crm_dedupe.go:131: the deal that is read and then deleted, and the one that gets its members,
\* have the same title, and nobody else's members go to a deal that is going to be deleted.
LEMMA AskingToRelink ==
  ASSUME NEW q, IsPortal(q), IsLinked(q), NEW use \in DealPasses, NEW rows, Tracked(q, use, rows),
         IsFiniteSet(rows), \A x \in rows : x.id \in Nat,
         NEW ignore \in BOOLEAN, NEW script \in DedupeOpportunities(rows, ignore)
  PROVE  Asking(q, script)
  <1> DEFINE Title(d) == DealTitleKey(q.deals[d].title, ignore)
             In(d, key) == d \in DOMAIN q.deals /\ Title(d) = key
  <1>1. \A key : \A d \in GroupOf(rows, ignore, key) : In(d, key)
    BY DEF GroupOf, Tracked
  <1>2. ASSUME NEW x \in ToSet(script)
        PROVE  /\ x.op = "deal" /\ x.use = "relink"
               /\ \E key : /\ In(x.at, key) /\ In(x.val, key)
                           /\ x.val = PickCanonicalID(GroupOf(rows, ignore, key))
                           /\ x.at # x.val
    <2> HIDE DEF In
    <2> QED BY <1>1, RelinkRequests
  <1>3. ASSUME NEW x \in ToSet(script) PROVE SameDeal(q, x.at, x.val)
    <2>1. PICK key : In(x.at, key) /\ In(x.val, key)
      BY <1>2
    <2>2. TitleKey(q.deals[x.at].title) = TitleKey(q.deals[x.val].title)
      BY <2>1, SameTitles DEF IsLinked
    <2>3. x.at \in Given(q) /\ x.val \in Given(q)
      BY <2>1 DEF IsPortal, HasNumbers
    <2> QED BY <2>2, <2>3 DEF SameDeal, DealKey
  <1>4. ASSUME NEW x \in ToSet(script) PROVE Proper(q, x) /\ ~Commit(x) /\ x.use \notin Passes
    BY <1>2, <1>3 DEF Proper, Commit, Commits, Passes, ContactPasses, DealPasses
  <1>5. ASSUME NEW x \in ToSet(script), NEW y \in ToSet(script) PROVE y.at # x.val
    <2>1. PICK k : In(x.val, k) /\ x.val = PickCanonicalID(GroupOf(rows, ignore, k))
      BY <1>2
    <2>2. PICK l : In(y.at, l) /\ y.val = PickCanonicalID(GroupOf(rows, ignore, l)) /\ y.at # y.val
      BY <1>2
    <2> QED BY <2>1, <2>2
  <1> HIDE DEF In, Title
  <1>6. Apart(ToSet(script))
    BY <1>2, <1>5 DEF Apart, DoomsDeal
  <1>7. InTurn(script)
    BY <1>4, EvenScript
  <1> QED BY <1>4, <1>6, <1>7 DEF Asking

LEMMA AskingForDeals ==
  ASSUME NEW q, IsPortal(q), IsLinked(q), NEW use \in DealPasses, NEW rows, Tracked(q, use, rows),
         IsFiniteSet(rows), \A x \in rows : x.id \in Nat,
         NEW script, script \in DedupeOpportunityMembers(rows) \cup FixOpportunityTitles(rows)
  PROVE  Asking(q, script)
  <1>1. CASE script \in DedupeOpportunityMembers(rows)
    <2>1. \A i \in DOMAIN script :
             script[i] = For("members", Request("deal", InOrder(rows)[i].id, 0, "count"))
      BY <1>1 DEF DedupeOpportunityMembers, ForEach
    <2>2. ASSUME NEW x \in ToSet(script)
          PROVE  Proper(q, x) /\ ~Commit(x) /\ x.use \notin Passes \cup {"relink"}
      <3>1. PICK i \in DOMAIN script : x = script[i]
        BY <2>2 DEF ToSet
      <3>2. Asks(x, "deal", InOrder(rows)[i].id, 0, "members")
        BY <2>1, <3>1, RequestShapes
      <3> QED BY <3>2 DEF Asks, Proper, Commit, Commits, Passes, ContactPasses, DealPasses
    <2> QED BY <2>2, AskingFreely
  <1>2. CASE script \in FixOpportunityTitles(rows)
    <2> DEFINE some == {x \in rows : FixDealTitle(x.of.title) # x.of.title}
               list == InOrder(some)
    <2>1. /\ DOMAIN script = DOMAIN list
          /\ \A i \in DOMAIN script :
                script[i] = For("rename", Request("deal", list[i].id,
                                            FixDealTitle(list[i].of.title), "count"))
      BY <1>2 DEF FixOpportunityTitles, ForEach
    <2>2. some \subseteq rows /\ IsFiniteSet(some)
      BY FS_Subset
    <2> HIDE DEF some
    <2>3. \A i \in DOMAIN list : list[i] \in some
      BY <2>2, InOrderRows
    <2> HIDE DEF list
    <2>4. ASSUME NEW x \in ToSet(script)
          PROVE  Proper(q, x) /\ ~Commit(x) /\ x.use \notin Passes \cup {"relink"}
      <3>1. PICK i \in DOMAIN script : x = script[i]
        BY <2>4 DEF ToSet
      <3> DEFINE row == list[i]
                 title == FixDealTitle(row.of.title)
      <3>2. row \in rows
        BY <2>1, <2>2, <2>3
      <3>3. row.id \in DOMAIN q.deals /\ q.deals[row.id].title = row.of.title
        BY <3>2 DEF Tracked
      <3>4. row.id \in Given(q) /\ DOMAIN row.of.title = TitleFields
        BY <3>3 DEF IsPortal, HasNumbers, IsLinked
      <3>5. DOMAIN title = TitleFields /\ TitleKey(title) = TitleKey(row.of.title)
        BY <3>4, MendedTitle
      <3>6. Called(q, row.id, TitleKey(title))
        BY <3>3, <3>4, <3>5 DEF Called, DealKey
      <3>7. Asks(x, "deal", row.id, title, "rename")
        BY <2>1, <3>1, RequestShapes
      <3> HIDE DEF row, title
      <3> QED BY <3>5, <3>6, <3>7 DEF Asks, Proper, Commit, Commits, Passes, ContactPasses, DealPasses
    <2> QED BY <2>4, AskingFreely
  <1> QED BY <1>1, <1>2

LEMMA PassGoesOn ==
  ASSUME NEW q, IsPortal(q), IsLinked(q), NEW staff, NEW r, Good(q, staff, r),
         r.use \in Passes, Proper(q, r), NEW script \in CRMThen(q, r)
  PROVE  Asking(q, script)
  <1> DEFINE records == IF r.use \in ContactPasses THEN q.contacts ELSE Deals(q)
             rows == Listed(records, r)
             next == [r EXCEPT !.at = NextStart(@), !.val = rows]
  <1>1. /\ IsFiniteSet(rows) /\ (\A x \in rows : x.id \in Nat)
        /\ Tracked(q, r.use, rows)
    <2> HIDE DEF records
    <2> QED BY RowsAreTracked DEF records
  <1>2. r.op \notin {"add contact", "add deal"} /\ r.op \in {"contacts", "deals", "tasks"}
    BY DEF Good, IsRequest, Passes, ContactPasses, DealPasses, Listings
  <1>3. CASE script = <<next>>
    <2> HIDE DEF rows
    <2>1. next.op = r.op /\ next.use = r.use /\ next.val = rows
      BY DEF Good, IsRequest, RequestFields
    <2> HIDE DEF next
    <2>2. Proper(q, next) /\ ~Commit(next) /\ next.use # "relink"
      BY <1>1, <1>2, <2>1 DEF Proper, Commit, Commits, Passes, ContactPasses, DealPasses
    <2> QED BY <1>3, <2>2, AskingOne
  <1>4. CASE script # <<next>>
    <2>1. CASE r.use = "companies"
      <3>1. script \in DedupeCompanies(rows) /\ r.use \in ContactPasses
        BY <1>2, <1>4, <2>1 DEF CRMThen, CleanupThen, Paged, Listed, Chunk, ContactPasses
      <3> HIDE DEF rows
      <3> QED BY <1>1, <3>1, AskingToMerge
    <2>2. CASE r.use = "persons"
      <3>1. script \in DedupePersons(rows) /\ r.use \in ContactPasses
        BY <1>2, <1>4, <2>2 DEF CRMThen, CleanupThen, Paged, Listed, Chunk, ContactPasses
      <3> HIDE DEF rows
      <3> QED BY <1>1, <3>1, AskingToMerge
    <2>3. CASE r.use = "company-persons"
      <3>1. script \in DedupeCompanyPersons(rows) /\ r.use \in ContactPasses
        BY <1>2, <1>4, <2>3 DEF CRMThen, CleanupThen, Paged, Listed, Chunk, ContactPasses
      <3> HIDE DEF rows
      <3> QED BY <1>1, <3>1, AskingToMerge
    <2>4. CASE r.use = "opportunity-members"
      <3>1. script \in DedupeOpportunityMembers(rows) /\ r.use \in DealPasses
        BY <1>2, <1>4, <2>4 DEF CRMThen, CleanupThen, Paged, Listed, Chunk, ContactPasses, DealPasses
      <3> HIDE DEF rows
      <3> QED BY <1>1, <3>1, AskingForDeals
    <2>5. CASE r.use = "opportunities"
      <3>1. script \in DedupeOpportunities(rows, FALSE) /\ r.use \in DealPasses
        BY <1>2, <1>4, <2>5 DEF CRMThen, CleanupThen, Paged, Listed, Chunk, ContactPasses, DealPasses
      <3> HIDE DEF rows
      <3> QED BY <1>1, <3>1, AskingToRelink
    <2>6. CASE r.use = "positions"
      <3>1. script \in DedupeOpportunities(rows, TRUE) /\ r.use \in DealPasses
        BY <1>2, <1>4, <2>6 DEF CRMThen, CleanupThen, Paged, Listed, Chunk, ContactPasses, DealPasses
      <3> HIDE DEF rows
      <3> QED BY <1>1, <3>1, AskingToRelink
    <2>7. CASE r.use = "fix-titles"
      <3>1. script \in FixOpportunityTitles(rows) /\ r.use \in DealPasses
        BY <1>2, <1>4, <2>7 DEF CRMThen, CleanupThen, Paged, Listed, Chunk, ContactPasses, DealPasses
      <3> HIDE DEF rows
      <3> QED BY <1>1, <3>1, AskingForDeals
    <2> QED BY <2>1, <2>2, <2>3, <2>4, <2>5, <2>6, <2>7 DEF Passes, ContactPasses, DealPasses
  <1> QED BY <1>3, <1>4

-----------------------------------------------------------------------------
(* Who does not clean up stays tame                                        *)

LEMMA CalmRequest ==
  ASSUME NEW x, NEW op, NEW at, NEW val, NEW use, Asks(x, op, at, val, use),
         op \notin Harsh \cup {"deal", "add member", "add deal"}, use \notin Passes \cup Renames
  PROVE  Calm(x)
  BY DEF Asks, Calm, Tame

LEMMA CalmDryRun ==
  ASSUME NEW p, NEW staff, NEW scripts, \A s \in scripts : GoodScript(p, staff, s),
         NEW script \in DryRun(scripts)
  PROVE  \A x \in ToSet(script) : Calm(x)
  <1>1. PICK s \in scripts : script = [i \in DOMAIN s |-> Counted(s[i])]
    BY DEF DryRun, ForEach
  <1> SUFFICES ASSUME NEW i \in DOMAIN s PROVE Calm(Counted(s[i]))
    BY <1>1 DEF ToSet
  <1>2. Good(p, staff, s[i])
    BY DEF GoodScript, ToSet
  <1>3. Counted(s[i]).op = "nothing" /\ Counted(s[i]).use = ""
    BY <1>2 DEF Counted, Good, IsRequest, RequestFields
  <1> QED BY <1>3 DEF Calm, Tame, Harsh, Passes, ContactPasses, DealPasses, Renames

LEMMA CalmPutTask ==
  ASSUME NEW at, NEW val, NEW r, r = [Must("put task", at, val) EXCEPT !.counts = TRUE]
  PROVE  Calm(r)
  <1>1. Asks(r, "put task", at, val, "")
    BY RequestShapes
  <1> QED BY <1>1, CalmRequest DEF Harsh, Passes, ContactPasses, DealPasses, Renames

\* One calm request for each element of a list.
LEMMA CalmForEach ==
  ASSUME NEW list, NEW s, DOMAIN s = DOMAIN list, \A i \in DOMAIN list : Calm(s[i])
  PROVE  \A x \in ToSet(s) : Calm(x)
  BY DEF ToSet

LEMMA TameListing ==
  ASSUME NEW q, IsPortal(q), NEW staff, NEW r, Good(q, staff, r), Tame(r), r.use \in Listings,
         NEW script \in CRMThen(q, r)
  PROVE  \A x \in ToSet(script) : Calm(x)
  <1> DEFINE records == IF r.use \in {"contact-info", "names to fix"} THEN q.contacts ELSE q.tasks
             rows == Listed(records, r)
             next == [r EXCEPT !.at = NextStart(@), !.val = rows]
  <1>1. DOMAIN records \subseteq Given(q)
    BY DEF IsPortal, HasNumbers
  <1>2. r.op \notin {"add contact", "add deal"} /\ r.op \in {"contacts", "deals", "tasks"}
    BY DEF Good, IsRequest
  <1>3. IsFiniteSet(rows)
    <2> HIDE DEF records
    <2> QED BY <1>1, ListedRows
  <1>4. r.use \notin Passes \cup Renames
    BY DEF Tame
  <1>5. CASE script = <<next>>
    <2>1. next.op = r.op /\ next.use = r.use
      BY DEF Good, IsRequest, RequestFields
    <2> HIDE DEF next
    <2>2. Calm(next)
      BY <1>2, <1>4, <2>1 DEF Calm, Tame, Harsh
    <2> QED BY <1>5, <2>2, OneInTurn
  <1>6. CASE script # <<next>>
    <2>1. CASE r.use = "contact-info"
      <3>1. script \in DedupeContactInfo(rows)
        BY <1>2, <1>6, <2>1 DEF CRMThen, CleanupThen, Paged, Listed, Chunk
      <3>2. /\ DOMAIN script = DOMAIN InOrder(rows)
            /\ \A i \in DOMAIN script :
                  script[i] = For("rows", Request("contact", InOrder(rows)[i].id, 0, "count"))
        BY <3>1 DEF DedupeContactInfo, ForEach
      <3> HIDE DEF rows
      <3>3. ASSUME NEW i \in DOMAIN script PROVE Calm(script[i])
        <4>1. Asks(script[i], "contact", InOrder(rows)[i].id, 0, "rows")
          BY <3>2, RequestShapes
        <4> QED BY <4>1, CalmRequest DEF Harsh, Passes, ContactPasses, DealPasses, Renames
      <3> QED BY <3>3, CalmForEach
    <2>2. CASE r.use = "names to fix"
      <3>1. script \in DryRun(FixNames(rows))
        BY <1>2, <1>6, <2>2 DEF CRMThen, Paged, Listed, Chunk
      <3> HIDE DEF rows
      <3>2. \A s \in FixNames(rows) : GoodScript(q, staff, s)
        BY <1>3, FixNamesIsGood
      <3> QED BY <3>1, <3>2, CalmDryRun
    <2>3. CASE r.use = "reassign"
      <3>1. script \in Reassign(rows)
        BY <1>2, <1>6, <2>3 DEF CRMThen, Paged, Listed, Chunk
      <3> DEFINE list == InOrder({x \in rows : NeedsOwner(x.of)})
                 mine(i) == [list[i].of EXCEPT !.owner = "self"]
      <3>2. /\ DOMAIN script = DOMAIN list
            /\ \A i \in DOMAIN script :
                  script[i] = [Must("put task", list[i].id, mine(i)) EXCEPT !.counts = TRUE]
        BY <3>1 DEF Reassign, ForEach
      <3> HIDE DEF list, mine
      <3>3. ASSUME NEW i \in DOMAIN script PROVE Calm(script[i])
        BY <3>2, <3>3, CalmPutTask
      <3> QED BY <3>3, CalmForEach
    <2>4. CASE r.use = "to reassign"
      <3>1. script \in DryRun(Reassign(rows))
        BY <1>2, <1>6, <2>4 DEF CRMThen, Paged, Listed, Chunk
      <3> HIDE DEF rows
      <3>2. \A s \in Reassign(rows) : GoodScript(q, staff, s)
        BY <1>3, RowPassesAreGood
      <3> QED BY <3>1, <3>2, CalmDryRun
    <2> QED BY <1>4, <2>1, <2>2, <2>3, <2>4
            DEF Listings, Passes, ContactPasses, DealPasses, Renames
  <1> QED BY <1>5, <1>6

LEMMA TameThen ==
  ASSUME NEW q, IsPortal(q), NEW staff, NEW r, Good(q, staff, r), Tame(r),
         NEW script \in CRMThen(q, r)
  PROVE  \A x \in ToSet(script) : Tame(x) /\ (r.op # "add deal" => Calm(x))
  <1>0. ASSUME r.op \in {"add contact", "add deal"}
        PROVE  r.use \notin {"person update", "employer", "fix names", "fix names of",
                             "names to fix", "update", "reassign", "to reassign"}
    BY <1>0 DEF Good, IsRequest, Listings, OfContact, OfDeal
  <1>1. CASE r.op = "add contact"
    <2> DEFINE about == IF r.val.company THEN <<Try("company", LastId(q), 0)>> ELSE <<>>
               r1 == Try("add row", LastId(q), NewRow(r.extra[1], TRUE))
               r2 == Try("add row", LastId(q), NewRow(r.extra[2], FALSE))
               two == <<r1, r2>>
               rc == Try("company", LastId(q), 0)
    <2>1. script = about \o two
      BY <1>0, <1>1 DEF CRMThen, AfterCreate
    <2>2. ASSUME NEW row PROVE Calm(Try("add row", LastId(q), row))
      <3>1. Asks(Try("add row", LastId(q), row), "add row", LastId(q), row, "")
        BY RequestShapes
      <3> QED BY <3>1, CalmRequest DEF Harsh, Passes, ContactPasses, DealPasses, Renames
    <2>3. Asks(rc, "company", LastId(q), 0, "")
      BY RequestShapes
    <2>4. Calm(r1) /\ Calm(r2)
      BY <2>2
    <2>5. Calm(rc)
      BY <2>3, CalmRequest DEF Harsh, Passes, ContactPasses, DealPasses, Renames
    <2>6. two \in Seq({r1, r2}) /\ about \in {<<rc>>, <<>>}
      OBVIOUS
    <2> HIDE DEF two, about, r1, r2, rc
    <2>7. IsList(two) /\ \A i \in DOMAIN two : two[i] \in {r1, r2}
      BY <2>6, SeqIsList
    <2>8. IsList(about) /\ \A x \in ToSet(about) : Calm(x)
      <3>1. IsList(<<rc>>) /\ ToSet(<<rc>>) = {rc} /\ IsList(<<>>) /\ ToSet(<<>>) = {}
        BY OneInTurn, OneElement DEF ToSet
      <3> QED BY <2>5, <2>6, <3>1
    <2>9. \A x \in ToSet(two) : Calm(x)
      BY <2>4, <2>7 DEF ToSet
    <2>10. ToSet(script) = ToSet(about) \cup ToSet(two)
      BY <2>1, <2>7, <2>8, SetOfConcat
    <2> QED BY <2>8, <2>9, <2>10 DEF Calm
  <1>2. CASE r.op = "add deal"
    <2>1. /\ DOMAIN script = DOMAIN r.extra
          /\ \A i \in DOMAIN script : script[i] = Try("add member", LastId(q), r.extra[i])
      BY <1>0, <1>2 DEF CRMThen, AfterDeal, ForEach
    <2>2. ASSUME NEW x \in ToSet(script) PROVE Tame(x)
      <3>1. PICK i \in DOMAIN script : x = script[i]
        BY <2>2 DEF ToSet
      <3>2. Asks(x, "add member", LastId(q), r.extra[i], "")
        BY <2>1, <3>1, RequestShapes
      <3> QED BY <3>2 DEF Asks, Tame, Harsh, Passes, ContactPasses, DealPasses, Renames
    <2> QED BY <1>2, <2>2
  <1>3. CASE r.use \in Listings
    BY <1>3, TameListing DEF Calm
  <1>4. CASE r.use = "rows"
    <2>1. r.op = "contact"
      BY <1>4 DEF Good, IsRequest, OfContact
    <2>2. script \in DropRows(q, r.at)
      BY <1>4, <2>1 DEF CRMThen, CleanupThen
    <2>3. PICK order : script = [i \in DOMAIN order |-> Tally("drop row", r.at, order[i])]
      BY <2>2 DEF DropRows, ForEach
    <2>4. ASSUME NEW i \in DOMAIN script PROVE Calm(script[i])
      <3>1. Asks(script[i], "drop row", r.at, order[i], "")
        BY <2>3, RequestShapes
      <3> QED BY <3>1, CalmRequest DEF Harsh, Passes, ContactPasses, DealPasses, Renames
    <2> QED BY <2>4, CalmForEach DEF Calm
  <1>5. CASE /\ r.op # "add contact" /\ r.op # "add deal" /\ r.use \notin Listings
             /\ r.use # "rows"
    <2>1. r.use \notin Renames /\ r.use \notin OfDeal
      BY DEF Tame, Good, IsRequest
    <2>2. script = Nothing
      BY <1>5, <2>1 DEF CRMThen, CleanupThen, Listings, Renames, OfDeal
    <2>3. ToSet(script) = {}
      BY <2>2, OneElement DEF Nothing, ToSet
    <2> QED BY <2>3
  <1> QED BY <1>1, <1>2, <1>3, <1>4, <1>5

\* What a clean-up asks for beside its passes: contact information.
LEMMA CalmGoesOn ==
  ASSUME NEW q, IsPortal(q), NEW staff, NEW r, Good(q, staff, r), Calm(r),
         NEW script \in CRMThen(q, r), GoodScript(q, staff, script)
  PROVE  \A x \in ToSet(script) : Proper(q, x) /\ ~Commit(x) /\ x.use \notin Passes \cup {"relink"}
  <1> SUFFICES ASSUME NEW x \in ToSet(script)
               PROVE  Proper(q, x) /\ ~Commit(x) /\ x.use \notin Passes \cup {"relink"}
    OBVIOUS
  <1>1. Calm(x)
    BY TameThen DEF Calm
  <1>2. IsRequest(x)
    BY DEF GoodScript, Good
  <1> QED BY <1>1, <1>2 DEF Proper, Calm, Tame, Harsh, Commit, Commits, IsRequest, OfDeal

-----------------------------------------------------------------------------
(* A clean-up goes on, whether its request is answered or not              *)

\* The rest of a script when its first request, r, is no commit.
Later(rest, r) ==
  /\ IsList(rest) /\ InTurn(rest)
  /\ \A x \in ToSet(rest) : /\ x.use \in Passes => x.val = {}
                            /\ Commit(x) => Commit(r)
                            /\ r.use \in Passes => x.use # "relink"

LEMMA TryShape ==
  ASSUME NEW x, NEW op, NEW at, NEW val, x = Try(op, at, val)
  PROVE  x.onErr = "drop" /\ x.ways = 1
  BY DEF Try, Request

\* A deal has been read: commits come first.
LEMMA DealGoesOn ==
  ASSUME NEW old, NEW q, IsPortal(q), IsLinked(q), NEW r, r.op = "deal", r.at \in DOMAIN q.deals,
         NEW rest, Later(rest, r), Plan(old, q, {r} \cup ToSet(rest)),
         NEW script \in CRMThen(q, r)
  PROVE  /\ Plan(old, q, ToSet(script) \cup ToSet(rest))
         /\ \A x \in ToSet(script) : Commit(x) /\ x.use = ""
  <1> DEFINE R == ToSet(rest)
             members == q.deals[r.at].members
  <1>1. \A x \in R : ~Commit(x) /\ (x.use \in Passes => x.val = {})
    BY DEF Later, Commit, Commits
  <1>2. \A x \in {r} \cup R : ~Commit(x)
    BY <1>1 DEF Commit, Commits
  <1>3. Proper(q, r)
    BY DEF Plan
  <1>4. Plan(old, q, R)
    BY PlanShrinks
  <1>5. members \subseteq Nat /\ IsFiniteSet(members)
    <2>1. members \subseteq DOMAIN q.contacts /\ DOMAIN q.contacts \subseteq Given(q)
      BY DEF IsLinked, IsPortal, HasNumbers
    <2> HIDE DEF members
    <2> QED BY <2>1, FiniteGiven
  <1> HIDE DEF R
  <1>6. CASE r.use = "members"
    <2> DEFINE S == DedupeMembersByDisplayName(q.contacts, members)
    <2>1. PICK order \in SetToSeqs(S) :
             script = [i \in DOMAIN order |-> Tally("remove member", r.at, order[i])]
      BY <1>6 DEF CRMThen, CleanupThen, RemoveMembers, ForEach
    <2>2. IsFiniteSet(S)
      <3>1. S \subseteq members
        BY DEF DedupeMembersByDisplayName
      <3> HIDE DEF S, members
      <3> QED BY <1>5, <3>1, FS_Subset
    <2> HIDE DEF S
    <2>3. \A i \in DOMAIN order : order[i] \in S
      BY <2>2, AnyOrder
    <2>4. ASSUME NEW x \in ToSet(script)
          PROVE  /\ Asks(x, "remove member", r.at, x.val, "") /\ x.onErr = "count" /\ x.ways = 1
                 /\ x.val \in S
      <3>1. PICK i \in DOMAIN order : x = Tally("remove member", r.at, order[i])
        BY <2>1, <2>4 DEF ToSet
      <3>2. Asks(x, "remove member", r.at, order[i], "")
        BY <3>1, RequestShapes
      <3>3. x.onErr = "count" /\ x.ways = 1
        BY <3>1 DEF Tally, Request
      <3> QED BY <2>3, <3>2, <3>3 DEF Asks
    <2>5. Plan(old, q, R \cup ToSet(script))
      BY <1>1, <1>4, <2>4, MembersPlan DEF S, members
    <2>6. R \cup ToSet(script) = ToSet(script) \cup R
      OBVIOUS
    <2>7. \A x \in ToSet(script) : Commit(x) /\ x.use = ""
      BY <2>4 DEF Asks, Commit, Commits
    <2> QED BY <2>5, <2>6, <2>7 DEF R
  <1>7. CASE r.use = "relink"
    <2> DEFINE list == SortedIds(members)
               adds == [i \in DOMAIN list |-> Try("add member", r.val, list[i])]
               drop == Tally("drop deal", r.at, 0)
    <2>1. script = adds \o <<drop>>
      BY <1>7 DEF CRMThen, CleanupThen, RelinkMembers, ForEach
    <2> HIDE DEF members
    <2>2. /\ Cardinality(members) \in Nat /\ DOMAIN list = 1 .. Cardinality(members)
          /\ \A i \in DOMAIN list : list[i] \in members
          /\ \A m \in members : \E i \in DOMAIN list : list[i] = m
      BY <1>5, FS_CardinalityType, SortedIsList, SortedProperties
    <2> HIDE DEF list
    <2>3. /\ adds = [i \in DOMAIN list |-> adds[i]]
          /\ \A i \in DOMAIN list : adds[i] = Try("add member", r.val, list[i])
      OBVIOUS
    <2> HIDE DEF adds
    <2>4. IsList(adds) /\ DOMAIN adds = DOMAIN list
      BY <2>2, <2>3, FunctionIsList
    <2>5. /\ Asks(drop, "drop deal", r.at, 0, "") /\ drop.onErr = "count" /\ drop.ways = 1
      BY RequestShapes DEF Tally, Request
    <2> HIDE DEF drop
    <2>6. ToSet(script) = ToSet(adds) \cup {drop}
      BY <2>1, <2>4, OneInTurn, SetOfConcat
    <2>7. ASSUME NEW i \in DOMAIN list
          PROVE  /\ Asks(adds[i], "add member", r.val, adds[i].val, "") /\ adds[i].onErr = "drop"
                 /\ adds[i].ways = 1 /\ adds[i].val = list[i]
      <3> DEFINE m == list[i]
      <3>1. adds[i] = Try("add member", r.val, m)
        BY <2>3
      <3>2. m = list[i]
        OBVIOUS
      <3> HIDE DEF m
      <3>3. Asks(adds[i], "add member", r.val, m, "")
        BY <3>1, RequestShapes
      <3>4. adds[i].onErr = "drop" /\ adds[i].ways = 1
        BY <3>1, TryShape
      <3> QED BY <3>2, <3>3, <3>4 DEF Asks
    <2>8. ASSUME NEW x \in ToSet(adds)
          PROVE  /\ Asks(x, "add member", r.val, x.val, "") /\ x.onErr = "drop"
                 /\ x.ways = 1 /\ x.val \in members
      <3>1. PICK i \in DOMAIN list : x = adds[i]
        BY <2>4, <2>8 DEF ToSet
      <3> QED BY <2>2, <2>7, <3>1
    <2>9. \A m \in members : \E x \in ToSet(adds) : x.op = "add member" /\ x.val = m
      <3> SUFFICES ASSUME NEW m \in members
                   PROVE  \E x \in ToSet(adds) : x.op = "add member" /\ x.val = m
        OBVIOUS
      <3>1. PICK i \in DOMAIN list : list[i] = m
        BY <2>2
      <3>2. adds[i] \in ToSet(adds)
        BY <2>4 DEF ToSet
      <3> QED BY <2>7, <3>1, <3>2 DEF Asks
    <2>10. Without({r} \cup R, R, r)
      BY <1>1 DEF Without
    <2>11. \A x \in ToSet(script) :
              \/ /\ Asks(x, "add member", r.val, x.val, "") /\ x.onErr = "drop"
                 /\ x.ways = 1 /\ x.val \in members
              \/ Asks(x, "drop deal", r.at, 0, "") /\ x.onErr = "count" /\ x.ways = 1
      BY <2>5, <2>6, <2>8
    <2>12. \A m \in members : \E x \in ToSet(script) : x.op = "add member" /\ x.val = m
      BY <2>6, <2>9
    <2>13. r \in {r} \cup R
      OBVIOUS
    <2>14. Plan(old, q, {r} \cup R)
      BY DEF R
    <2>15. Plan(old, q, R \cup ToSet(script))
      BY <1>2, <1>7, <2>10, <2>11, <2>12, <2>13, <2>14, RelinkPlan DEF members
    <2>16. R \cup ToSet(script) = ToSet(script) \cup R
      OBVIOUS
    <2>17. \A x \in ToSet(script) : Commit(x) /\ x.use = ""
      BY <2>11 DEF Asks, Commit, Commits
    <2> QED BY <2>15, <2>16, <2>17 DEF R
  <1>8. CASE r.use = "rename"
    <2> DEFINE one == Tally("put deal", r.at, OpportunityUpdateBody(q.deals[r.at], r.val))
    <2>1. script = <<one>>
      BY <1>8 DEF CRMThen, CleanupThen, UpdateOpportunityTitle
    <2>2. /\ Asks(one, "put deal", r.at, OpportunityUpdateBody(q.deals[r.at], r.val), "")
          /\ one.onErr = "count" /\ one.ways = 1
      BY RequestShapes DEF Tally, Request
    <2> HIDE DEF one
    <2>3. ToSet(script) = {one}
      BY <2>1, OneInTurn
    <2>4. DOMAIN r.val = TitleFields /\ Called(q, r.at, TitleKey(r.val))
      BY <1>3, <1>8 DEF Proper, Calm, Tame, Commits, Passes, ContactPasses, DealPasses
    <2>5. Plan(old, q, R \cup {one})
      BY <1>1, <1>4, <2>2, <2>4, RenamePlan
    <2>6. R \cup {one} = ToSet(script) \cup R
      BY <2>3
    <2>7. Commit(one) /\ one.use = ""
      BY <2>2 DEF Asks, Commit, Commits
    <2> QED BY <2>3, <2>5, <2>6, <2>7 DEF R
  <1> QED BY <1>3, <1>6, <1>7, <1>8 DEF Proper, Calm, Tame, Commits

LEMMA CleanupGoesOn ==
  ASSUME NEW old, NEW q, IsPortal(q), IsLinked(q), NEW staff, NEW r, Good(q, staff, r),
         ~Commit(r), r.op # "merge", r.op = "deal" => r.at \in DOMAIN q.deals,
         NEW rest, Later(rest, r), Plan(old, q, {r} \cup ToSet(rest)),
         NEW script \in CRMThen(q, r), GoodScript(q, staff, script)
  PROVE  /\ InTurn(script \o rest)
         /\ Plan(old, q, ToSet(script \o rest))
  <1> DEFINE R == ToSet(rest)
             more == ToSet(script)
  <1>1. /\ IsList(rest) /\ InTurn(rest)
        /\ \A x \in R : /\ x.use \in Passes => x.val = {}
                        /\ ~Commit(x)
                        /\ r.use \in Passes => x.use # "relink"
    BY DEF Later
  <1>2. IsList(script)
    BY DEF GoodScript
  <1>3. ToSet(script \o rest) = more \cup R
    BY <1>1, <1>2, SetOfConcat
  <1>4. Proper(q, r) /\ Plan(old, q, R)
    <2>1. r.op # "add member"
      BY DEF Commit, Commits
    <2>2. Plan(old, q, R)
      BY <2>1, PlanShrinks
    <2> QED BY <2>2 DEF Plan
  <1>5. R \cup more = more \cup R
    OBVIOUS
  <1>6. CASE Calm(r)
    <2>1. \A x \in more : Proper(q, x) /\ ~Commit(x) /\ x.use \notin Passes \cup {"relink"}
      BY <1>6, CalmGoesOn
    <2>2. InTurn(script)
      BY <2>1, EvenScript
    <2>3. Plan(old, q, R \cup more)
      <3> HIDE DEF R, more
      <3> QED BY <1>4, <2>1, PlanWidens
    <2>4. InTurn(script \o rest)
      BY <1>1, <1>2, <2>1, <2>2, ConcatInTurn
    <2> QED BY <1>3, <1>5, <2>3, <2>4
  <1>7. CASE r.use \in Passes
    <2>1. Asking(q, script)
      BY <1>4, <1>7, PassGoesOn
    <2>2. (\A x \in more : Proper(q, x) /\ ~Commit(x)) /\ Apart(more) /\ InTurn(script)
      BY <2>1 DEF Asking
    <2>3. \A x \in R : ~Commit(x) /\ x.use # "relink"
      BY <1>1, <1>7
    <2>4. InTurn(script \o rest)
      BY <1>1, <1>2, <2>2, <2>3, ConcatInTurn
    <2>5. Plan(old, q, R \cup more)
      <3> HIDE DEF R, more
      <3> QED BY <1>4, <2>2, <2>3, PlanGoesOn
    <2> QED BY <1>3, <1>5, <2>4, <2>5
  <1>8. CASE r.op = "deal"
    <2>1. /\ Plan(old, q, more \cup R)
          /\ \A x \in more : Commit(x) /\ x.use = ""
      BY <1>8, DealGoesOn
    <2>2. InTurn(script)
      BY <2>1, EvenScript DEF Passes, ContactPasses, DealPasses
    <2>3. ~ \E x \in more : x.use \in Passes
      BY <2>1 DEF Passes, ContactPasses, DealPasses
    <2>4. InTurn(script \o rest)
      BY <1>1, <1>2, <2>2, <2>3, ConcatInTurn
    <2> QED BY <1>3, <2>1, <2>4
  <1> QED BY <1>4, <1>6, <1>7, <1>8 DEF Proper, Commit

-----------------------------------------------------------------------------
(* A request has been dealt with, whether it was applied or not            *)

\* What is known of a clean-up before its first request, r.
LEMMA HeadOfCleanup ==
  ASSUME NEW s, IsList(s), s # <<>>, InTurn(s), NEW r, r = Head(s), NEW rest, rest = Tail(s)
  PROVE  /\ Later(rest, r)
         /\ Without(ToSet(s), ToSet(rest), r)
         /\ ToSet(s) = {r} \cup ToSet(rest)
         /\ \A x \in ToSet(s) : Commit(x) => Commit(r)
  BY SetOfTail, TailInTurn DEF Later, Without

\* What is left when r is no longer to be sent, or may be sent once more.
After(old, q, r, rest) ==
  /\ IsLinked(q)
  /\ r.op # "add member" => Plan(old, q, rest)
  /\ ~Commit(r) => Plan(old, q, {r} \cup rest)

LEMMA NotSent ==
  ASSUME NEW old, NEW p, IsLinked(p), NEW r, NEW rest, Plan(old, p, {r} \cup rest)
  PROVE  After(old, p, r, rest)
  BY PlanShrinks DEF After

LEMMA SentAndApplied ==
  ASSUME NEW old, NEW p, IsPortal(p), IsLinked(p), NEW staff, NEW r, Good(p, staff, r),
         Accepts(p, r), NEW reqs, Plan(old, p, reqs), NEW rest, Without(reqs, rest, r),
         \A x \in reqs : Commit(x) => Commit(r)
  PROVE  After(old, Effect(p, r), r, rest) /\ Plan(old, Effect(p, r), rest)
  <1> DEFINE q == Effect(p, r)
  <1>1. /\ Proper(p, r) /\ IsRequest(r) /\ (r.op = "merge" => r.at # r.val)
        /\ r \in reqs /\ rest \subseteq reqs /\ reqs = {r} \cup rest
    BY DEF Plan, Good, Without
  <1>2. CASE r.op \notin Harsh /\ r.op # "add member"
    <2>1. Grows(p, q) /\ IsLinked(q)
      BY <1>1, <1>2, EffectGrows
    <2> HIDE DEF q
    <2>2. Plan(old, q, {r} \cup rest)
      BY <1>1, <2>1, PlanGrows
    <2>3. After(old, q, r, rest) /\ Plan(old, q, rest)
      BY <1>2, <2>1, <2>2, NotSent DEF After
    <2> QED BY <2>3 DEF q
  <1>3. CASE r.op \in Commits
    <2>1. IsLinked(q) /\ Plan(old, q, rest)
      BY <1>1, <1>3, AddMemberStep, DropDealStep, RemoveMemberStep, PutDealStep DEF Commits
    <2> QED BY <1>3, <2>1 DEF After, Commit
  <1>4. CASE r.op = "merge"
    <2>1. \A x \in reqs : ~Commit(x)
      BY <1>4 DEF Commit, Commits
    <2>2. IsLinked(q) /\ Plan(old, q, rest)
      BY <1>1, <1>4, <2>1, MergeStep
    <2>3. q.next = p.next /\ r.val \notin DOMAIN q.contacts
      <3>1. q = MergeInto(p, r.val, r.at)
        BY <1>4 DEF Effect
      <3>2. DOMAIN p = {"contacts", "deals", "tasks", "tags", "into", "next"}
        BY PortalFields
      <3> QED BY <3>1, <3>2 DEF MergeInto
    <2> HIDE DEF q
    <2>4. Proper(q, r)
      <3>1. r.use = "" /\ Mergeable(p, r.at, r.val)
        BY <1>1, <1>4 DEF Proper, Calm, Tame, Harsh, Commits
      <3> QED BY <1>4, <2>3, <3>1 DEF Proper, Mergeable, Given
    <2>5. r.use # "relink"
      BY <1>1, <1>4 DEF IsRequest, OfDeal
    <2>6. Plan(old, q, rest \cup {r})
      BY <1>1, <2>1, <2>2, <2>4, <2>5, PlanWidens
    <2>7. rest \cup {r} = {r} \cup rest
      OBVIOUS
    <2>8. After(old, q, r, rest) /\ Plan(old, q, rest)
      BY <2>2, <2>6, <2>7 DEF After
    <2> QED BY <2>8 DEF q
  <1>5. r.op \notin {"drop contact", "put person"}
    BY <1>1 DEF Proper, Calm, Tame, Harsh, Commits
  <1> QED BY <1>2, <1>3, <1>4, <1>5 DEF Harsh, Commits

\* Another endpoint gets the same request.
LEMMA SameRequests ==
  ASSUME NEW old, NEW p, NEW r, NEW x, x.op = r.op, x.at = r.at, x.val = r.val, x.use = r.use,
         ~Commit(r), NEW rest, Plan(old, p, {r} \cup rest)
  PROVE  Plan(old, p, {x} \cup rest)
  <1>1. r.op \notin Commits /\ x.op \notin Commits
    BY DEF Commit
  <1>2. Proper(p, x)
    <2>1. Proper(p, r)
      BY DEF Plan
    <2> QED BY <1>1, <2>1 DEF Proper, Calm, Tame
  <1>3. Apart({x} \cup rest)
    <2>1. \A d : DoomsDeal(x, d) = DoomsDeal(r, d)
      BY DEF DoomsDeal
    <2>2. Apart({r} \cup rest)
      BY DEF Plan
    <2> HIDE DEF DoomsDeal
    <2> QED BY <1>1, <2>1, <2>2 DEF Apart, Commits
  <1>4. Plan(old, p, rest)
    BY <1>1, PlanShrinks DEF Commits
  <1>5. Backed(p, {x} \cup rest)
    BY <1>1, <1>4 DEF Plan, Backed, Commits
  <1>6. ASSUME NEW t, NEW n, Held(p, rest, t, n) PROVE Held(p, {x} \cup rest, t, n)
    <2>1. \A d, m : Stays(rest, d, m) => Stays({x} \cup rest, d, m)
      BY <1>1 DEF Stays, Commits
    <2> QED BY <1>6, <2>1 DEF Held, IsOn, GetsOn
  <1> QED BY <1>2, <1>3, <1>4, <1>5, <1>6 DEF Plan, EverybodyHeld

LEMMA OneWay ==
  ASSUME NEW n, n = 1
  PROVE  ~(n > 1)
  OBVIOUS

\* A request that is refused is sent to another endpoint: what else is tried would rename.
LEMMA OtherWay ==
  ASSUME NEW r, DOMAIN r = RequestFields, r.use \notin Renames, NEW script \in Alternatives(r)
  PROVE  \E x : /\ script = <<x>>
                /\ x.op = r.op /\ x.at = r.at /\ x.val = r.val /\ x.use = r.use
                /\ r.ways > 1
  <1>1. r.ways > 1
    BY DEF Alternatives, CRMOtherwise, Renames
  <1> DEFINE x == [r EXCEPT !.ways = @ - 1]
  <1>2. script = <<x>>
    BY <1>1 DEF Alternatives
  <1>3. x.op = r.op /\ x.at = r.at /\ x.val = r.val /\ x.use = r.use
    BY DEF RequestFields
  <1> HIDE DEF x
  <1> QED BY <1>1, <1>2, <1>3

\* How a clean-up goes on after an error.
LEMMA CleanupRefused ==
  ASSUME NEW old, NEW p, NEW q, NEW r, Proper(p, r), DOMAIN r = RequestFields,
         r.use \notin Renames, NEW rest, Later(rest, r),
         After(old, q, r, ToSet(rest))
  PROVE  /\ \A script \in Alternatives(r) : /\ InTurn(script \o rest)
                                            /\ Plan(old, q, ToSet(script \o rest))
         /\ r.onErr = "stop" => InTurn(<<>>) /\ Plan(old, q, ToSet(<<>>))
         /\ r.onErr # "drop" \/ r.op # "add member" => InTurn(rest) /\ Plan(old, q, ToSet(rest))
  <1> DEFINE R == ToSet(rest)
  <1>1. r.op \in Commits => r.ways = 1 /\ r.onErr # "stop" /\ (r.op = "add member" => r.onErr = "drop")
    BY CommitsAreKnown
  <1>2. IsList(rest) /\ InTurn(rest)
    BY DEF Later
  <1>3. ASSUME NEW script \in Alternatives(r)
        PROVE  InTurn(script \o rest) /\ Plan(old, q, ToSet(script \o rest))
    <2>1. PICK x : /\ script = <<x>>
                   /\ x.op = r.op /\ x.at = r.at /\ x.val = r.val /\ x.use = r.use
                   /\ r.ways > 1
      BY OtherWay DEF Renames
    <2>2. ~Commit(r)
      BY <1>1, <2>1, OneWay DEF Commit
    <2>3. IsList(script) /\ ToSet(script) = {x} /\ InTurn(script)
      BY <2>1, OneInTurn
    <2>4. Plan(old, q, {x} \cup R)
      BY <2>1, <2>2, SameRequests DEF After
    <2>5. \A y \in R : ~Commit(y) /\ (y.use \in Passes => y.val = {})
      BY <2>2 DEF Later
    <2>6. (\E y \in ToSet(script) : y.use \in Passes) => \A y \in R : y.use # "relink"
      BY <2>1, <2>3 DEF Later
    <2>7. InTurn(script \o rest)
      BY <1>2, <2>3, <2>5, <2>6, ConcatInTurn
    <2>8. ToSet(script \o rest) = {x} \cup R
      BY <1>2, <2>3, SetOfConcat
    <2> QED BY <2>4, <2>7, <2>8
  <1>4. ASSUME r.onErr = "stop" PROVE InTurn(<<>>) /\ Plan(old, q, ToSet(<<>>))
    <2>1. ToSet(<<>>) = {}
      BY OneElement DEF ToSet
    <2>2. ~Commit(r)
      BY <1>1, <1>4 DEF Commit
    <2>3. Plan(old, q, {r} \cup R) /\ \A x \in {r} \cup R : x.op # "add member"
      BY <2>2 DEF After, Later, Commit, Commits
    <2>4. Plan(old, q, {})
      BY <2>3, PlanShrinks
    <2> QED BY <2>1, <2>4, EvenScript
  <1>5. r.op # "add member" => Plan(old, q, R)
    BY DEF After
  <1>6. r.op = "add member" => r.onErr = "drop"
    BY <1>1 DEF Commits
  <1> QED BY <1>2, <1>3, <1>4, <1>5, <1>6

-----------------------------------------------------------------------------
(* What a step is                                                          *)

Applied(p, q, r) == Accepts(p, r) /\ q = Effect(p, r)

AppliedTwice(p, q, r) ==
  Creates(r) /\ IsPortal(Effect(p, r)) /\ Accepts(p, r) /\ Applied(Effect(p, r), q, r)

LEMMA WhatAStepDoes ==
  ASSUME Orderly, NEW a \in Actors, Step(a), NEW r, r = Head(session[a].todo)
  PROVE  /\ session[a].todo # <<>> /\ Good(portal, {}, r)
         /\ IsPortal(portal') /\ StaffKept(portal', {}) /\ Good(portal', {}, r)
         /\ jobs' = jobs /\ start' = start
         /\ \/ Answered(a, r) /\ (Applied(portal, portal', r) \/ AppliedTwice(portal, portal', r))
            \/ Refused(a, r) /\ (portal' = portal \/ Applied(portal, portal', r))
  <1>1. ~Ended(a) /\ jobs' = jobs /\ start' = start
    BY DEF Step, Succeed, Reject, Fail, ApplyTwice, Fault
  <1>2. session[a].todo # <<>> /\ Good(portal, Staff, r)
    BY <1>1, FirstRequest
  <1>3. StaffKept(portal, {}) /\ Good(portal, {}, r)
    BY <1>2, FewerStaff DEF Orderly
  <1>4. \/ Answered(a, r) /\ Applied(portal, portal', r)
        \/ Answered(a, r) /\ Creates(r) /\ Accepts(portal, r) /\ portal' = Effect(Effect(portal, r), r)
        \/ Refused(a, r) /\ (portal' = portal \/ Applied(portal, portal', r))
    <2>1. CASE Succeed(a)
      BY <2>1 DEF Succeed, Applied
    <2>2. CASE Reject(a)
      BY <2>2 DEF Reject
    <2>3. CASE Fail(a)
      BY <2>3 DEF Fail, Applied
    <2>4. CASE ApplyTwice(a)
      BY <2>4 DEF ApplyTwice
    <2> QED BY <2>1, <2>2, <2>3, <2>4 DEF Step
  <1>5. ASSUME NEW p, Outcome(start, portal, p, {}), NEW q, Applied(p, q, r)
        PROVE  Outcome(start, portal, q, {})
    <2>1. Good(p, {}, r)
      BY <1>3, <1>5, GoodStays DEF Outcome
    <2>2. Outcome(start, p, q, {})
      BY <1>5, <2>1, EffectOutcome DEF Outcome, Applied
    <2> QED BY <1>5, <2>2, OutcomesCompose DEF Orderly
  <1>6. Outcome(start, portal, portal, {})
    BY <1>3, SafeToStay DEF Orderly, Outcome
  <1>7. CASE \/ Answered(a, r) /\ Applied(portal, portal', r)
             \/ Refused(a, r) /\ (portal' = portal \/ Applied(portal, portal', r))
    <2>1. Outcome(start, portal, portal', {})
      BY <1>5, <1>6, <1>7
    <2>2. Good(portal', {}, r)
      BY <1>3, <2>1, GoodStays DEF Outcome
    <2> QED BY <1>1, <1>2, <1>3, <1>7, <2>1, <2>2 DEF Outcome
  <1>8. CASE /\ Answered(a, r) /\ Creates(r) /\ Accepts(portal, r)
             /\ portal' = Effect(Effect(portal, r), r)
    <2> DEFINE p == Effect(portal, r)
    <2>1. Applied(portal, p, r)
      BY <1>8 DEF Applied
    <2>2. Applied(p, portal', r)
      BY <1>8, AcceptsAgain DEF Applied, Orderly
    <2> HIDE DEF p
    <2>3. Outcome(start, portal, p, {})
      BY <1>5, <1>6, <2>1
    <2>4. Outcome(start, portal, portal', {})
      BY <1>5, <2>2, <2>3
    <2>5. Good(portal', {}, r)
      BY <1>3, <2>4, GoodStays DEF Outcome
    <2>6. AppliedTwice(portal, portal', r)
      BY <1>8, <2>2, <2>3 DEF AppliedTwice, Outcome, p
    <2> QED BY <1>1, <1>2, <1>3, <1>8, <2>4, <2>5, <2>6 DEF Outcome
  <1> QED BY <1>4, <1>7, <1>8

\* The session of a goes on with todo, the others are where they were.
Goes(a, todo, dropped) ==
  /\ session'[a].todo = todo /\ session'[a].dropped = dropped
  /\ \A b \in Actors \ {a} : session'[b] = session[b]

LEMMA WhatBecomesOfASession ==
  ASSUME DOMAIN session = Actors, NEW a \in Actors, DOMAIN session[a] = SessionFields,
         NEW r, NEW rest, rest = Tail(session[a].todo), NEW n, n = session[a].dropped
  PROVE  /\ Answered(a, r) => \E script \in CRMThen(portal', r) : Goes(a, script \o rest, n)
         /\ Refused(a, r) =>
              \/ \E script \in Alternatives(r) : Goes(a, script \o rest, n)
              \/ r.onErr = "stop" /\ Goes(a, <<>>, n)
              \/ r.onErr = "drop" /\ Goes(a, rest, n + 1)
              \/ r.onErr # "drop" /\ Goes(a, rest, n)
  <1>1. ASSUME Answered(a, r)
        PROVE  \E script \in CRMThen(portal', r) : Goes(a, script \o rest, n)
    <2>1. PICK more \in CRMThen(portal', r) :
             session' = [session EXCEPT ![a].todo = more \o Tail(@),
                                        ![a].done = IF r.counts THEN @ \cup {r.at} ELSE @]
      BY <1>1 DEF Answered
    <2>2. Goes(a, more \o rest, n)
      BY <2>1 DEF Goes, SessionFields
    <2> QED BY <2>2
  <1>2. ASSUME NEW script \in Alternatives(r), Instead(a, script)
        PROVE  Goes(a, script \o rest, n)
    BY <1>2 DEF Instead, Goes, SessionFields
  <1>3. ASSUME DealsWith(a, r)
        PROVE  \/ r.onErr = "stop" /\ Goes(a, <<>>, n)
               \/ r.onErr = "drop" /\ Goes(a, rest, n + 1)
               \/ r.onErr # "drop" /\ Goes(a, rest, n)
    <2>1. Broken(session[a]).todo = <<>> /\ Broken(session[a]).dropped = n
      BY DEF Broken, SessionFields
    <2>2. /\ Skipped(session[a], r).todo = rest
          /\ Skipped(session[a], r).dropped = IF r.onErr = "drop" THEN n + 1 ELSE n
      BY DEF Skipped, SessionFields
    <2>3. session' = [session EXCEPT ![a] = IF r.onErr = "stop" THEN Broken(session[a])
                                            ELSE Skipped(session[a], r)]
      BY <1>3 DEF DealsWith
    <2> QED BY <2>1, <2>2, <2>3 DEF Goes
  <1>4. ASSUME Refused(a, r)
        PROVE  (\E script \in Alternatives(r) : Instead(a, script)) \/ DealsWith(a, r)
    BY <1>4 DEF Refused
  <1> QED BY <1>1, <1>2, <1>3, <1>4

-----------------------------------------------------------------------------
(* One clean-up, beside commands that leave names and members alone        *)

\* What the clean-up has before it.
Planned == UNION {ToSet(session[a].todo) : a \in {b \in Actors : Tidies(b)}}

Tidied ==
  /\ IsLinked(portal)
  /\ \A a \in Actors :
        IF Tidies(a) THEN InTurn(session[a].todo) ELSE \A x \in ToSet(session[a].todo) : Tame(x)
  /\ Plan(start, portal, Planned)

Undisturbed == OnlyCleanupsDelete /\ ~TwoCleanups /\ NobodyRenames

DroppedIsCounted == \A a \in Actors : session[a].dropped \in Nat

PlanInv == Undisturbed => DroppedIsCounted /\ (~Dropped => Tidied)

LEMMA OnePlan ==
  ASSUME ~TwoCleanups, NEW a \in Actors, Tidies(a)
  PROVE  Planned = ToSet(session[a].todo)
  <1>1. {b \in Actors : Tidies(b)} = {a}
    BY DEF TwoCleanups
  <1> QED BY <1>1 DEF Planned

LEMMA SamePlan ==
  ASSUME NEW a \in Actors, ~Tidies(a), jobs' = jobs,
         \A b \in Actors \ {a} : session'[b] = session[b]
  PROVE  Planned' = Planned
  <1> DEFINE who == {b \in Actors : Tidies(b)}
  <1>1. {b \in Actors : Tidies(b)}' = who
    BY DEF Tidies
  <1>2. \A b \in who : session'[b] = session[b]
    OBVIOUS
  <1>3. Planned' = UNION {ToSet(session'[b].todo) : b \in who}
    BY <1>1 DEF Planned
  <1> HIDE DEF who
  <1>4. {ToSet(session'[b].todo) : b \in who} = {ToSet(session[b].todo) : b \in who}
    BY <1>2
  <1>5. Planned = UNION {ToSet(session[b].todo) : b \in who}
    BY DEF Planned, who
  <1> QED BY <1>3, <1>4, <1>5

LEMMA JobsStand ==
  ASSUME jobs' = jobs
  PROVE  /\ \A a \in Actors : Tidies(a)' = Tidies(a)
         /\ Undisturbed' = Undisturbed
  <1>1. \A a \in Actors : Tidies(a)' = Tidies(a)
    BY DEF Tidies
  <1>2. OnlyCleanupsDelete' = OnlyCleanupsDelete
    BY DEF OnlyCleanupsDelete, CleanupsOf
  <1>3. TwoCleanups' = TwoCleanups /\ NobodyRenames' = NobodyRenames
    BY DEF TwoCleanups, NobodyRenames, Tidies
  <1> QED BY <1>1, <1>2, <1>3 DEF Undisturbed

\* What follows an answer may be sent.
LEMMA WhatMayFollow ==
  ASSUME NEW p, NEW q, NEW r, Applied(p, q, r) \/ AppliedTwice(p, q, r),
         IsPortal(q), StaffKept(q, {}), Good(q, {}, r)
  PROVE  /\ r.op = "deal" => r.at \in DOMAIN q.deals
         /\ \A script \in CRMThen(q, r) : GoodScript(q, {}, script)
  <1>1. ASSUME r.op \in {"contact", "deal"}
        PROVE  /\ r.op = "contact" => r.at \in DOMAIN q.contacts
               /\ r.op = "deal" => r.at \in DOMAIN q.deals
    <2>1. Applied(p, q, r)
      BY <1>1 DEF AppliedTwice, Creates
    <2> QED BY <1>1, <2>1, ReadsChangeNothing DEF Applied
  <1> QED BY <1>1, ThenIsGood

\* Whatever takes nothing away and renames nothing, applied once, twice or not at all.
LEMMA NothingIsLost ==
  ASSUME NEW p, IsPortal(p), IsLinked(p), NEW r, IsRequest(r), r.op \notin Harsh, NEW q,
         q = p \/ Applied(p, q, r) \/ AppliedTwice(p, q, r)
  PROVE  Grows(p, q) /\ IsLinked(q)
  <1>1. CASE q = p
    BY <1>1, NoGrowth
  <1>2. CASE Applied(p, q, r)
    BY <1>2, EffectGrows DEF Applied
  <1>3. CASE AppliedTwice(p, q, r)
    <2> DEFINE x == Effect(p, r)
    <2>1. Grows(p, x) /\ IsLinked(x)
      BY <1>3, EffectGrows DEF AppliedTwice
    <2>2. IsPortal(x) /\ Applied(x, q, r)
      BY <1>3 DEF AppliedTwice
    <2> HIDE DEF x
    <2>3. Grows(x, q) /\ IsLinked(q)
      BY <2>1, <2>2, EffectGrows DEF Applied
    <2> QED BY <2>1, <2>3, GrowthAddsUp
  <1> QED BY <1>1, <1>2, <1>3

\* Somebody who does not clean up goes on.
LEMMA TameGoesOn ==
  ASSUME Orderly, NEW a \in Actors, ~Tidies(a), Step(a), Tidied
  PROVE  Tidied'
  <1> DEFINE r == Head(session[a].todo)
             rest == Tail(session[a].todo)
             n == session[a].dropped
  <1>1. /\ session[a].todo # <<>> /\ Good(portal, {}, r)
        /\ IsPortal(portal') /\ StaffKept(portal', {}) /\ Good(portal', {}, r)
        /\ jobs' = jobs /\ start' = start
        /\ \/ Answered(a, r) /\ (Applied(portal, portal', r) \/ AppliedTwice(portal, portal', r))
           \/ Refused(a, r) /\ (portal' = portal \/ Applied(portal, portal', r))
    BY WhatAStepDoes
  <1>2. /\ DOMAIN session = Actors /\ DOMAIN session[a] = SessionFields
        /\ IsList(session[a].todo) /\ IsPortal(portal)
    BY DEF Orderly, GoodSessions, GoodScript
  <1>3. ToSet(session[a].todo) = {r} \cup ToSet(rest) /\ IsList(rest)
    BY <1>1, <1>2, SetOfTail
  <1>4. /\ IsLinked(portal) /\ Tame(r) /\ (\A x \in ToSet(rest) : Tame(x))
        /\ Plan(start, portal, Planned)
    BY <1>3 DEF Tidied
  <1>5. /\ Answered(a, r) => \E script \in CRMThen(portal', r) : Goes(a, script \o rest, n)
        /\ Refused(a, r) =>
             \/ \E script \in Alternatives(r) : Goes(a, script \o rest, n)
             \/ r.onErr = "stop" /\ Goes(a, <<>>, n)
             \/ r.onErr = "drop" /\ Goes(a, rest, n + 1)
             \/ r.onErr # "drop" /\ Goes(a, rest, n)
    BY <1>2, WhatBecomesOfASession
  <1> HIDE DEF r, rest, n
  <1>6. \E todo, k : Goes(a, todo, k) /\ \A x \in ToSet(todo) : Tame(x)
    <2>1. CASE Answered(a, r) /\ (Applied(portal, portal', r) \/ AppliedTwice(portal, portal', r))
      <3>1. PICK script \in CRMThen(portal', r) : Goes(a, script \o rest, n)
        BY <1>5, <2>1
      <3>2. \A x \in ToSet(script) : Tame(x)
        BY <1>1, <1>4, TameThen
      <3>3. IsList(script)
        BY <1>1, <2>1, WhatMayFollow DEF GoodScript
      <3>4. \A x \in ToSet(script \o rest) : Tame(x)
        BY <1>3, <1>4, <3>2, <3>3, SetOfConcat
      <3> QED BY <3>1, <3>4
    <2>2. CASE Refused(a, r)
      <3>1. CASE \E script \in Alternatives(r) : Goes(a, script \o rest, n)
        <4>1. PICK script \in Alternatives(r) : Goes(a, script \o rest, n)
          BY <3>1
        <4>2. DOMAIN r = RequestFields /\ r.use \notin Renames
          BY <1>1, <1>4 DEF Good, IsRequest, Tame
        <4>3. PICK x : /\ script = <<x>>
                       /\ x.op = r.op /\ x.at = r.at /\ x.val = r.val /\ x.use = r.use
          BY <4>2, OtherWay
        <4>4. Tame(x)
          BY <1>4, <4>3 DEF Tame
        <4>5. ToSet(script \o rest) = {x} \cup ToSet(rest)
          BY <1>3, <4>3, OneInTurn, SetOfConcat
        <4> QED BY <1>4, <4>1, <4>4, <4>5
      <3>2. ToSet(<<>>) = {}
        BY OneElement DEF ToSet
      <3>3. CASE \E k : Goes(a, <<>>, k) \/ Goes(a, rest, k)
        BY <1>4, <3>2, <3>3
      <3> QED BY <1>5, <2>2, <3>1, <3>3
    <2> QED BY <1>1, <2>1, <2>2
  <1>7. /\ \A x \in ToSet(session'[a].todo) : Tame(x)
        /\ \A b \in Actors \ {a} : session'[b] = session[b]
    BY <1>6 DEF Goes
  <1>8. Planned' = Planned
    BY <1>1, <1>7, SamePlan
  <1>9. Grows(portal, portal') /\ IsLinked(portal')
    <2>1. IsRequest(r) /\ r.op \notin Harsh
      BY <1>1, <1>4 DEF Good, Tame
    <2> QED BY <1>1, <1>2, <1>4, <2>1, NothingIsLost
  <1>10. Plan(start', portal', Planned')
    BY <1>1, <1>2, <1>4, <1>8, <1>9, PlanGrows
  <1>11. ASSUME NEW b \in Actors
         PROVE  IF Tidies(b)' THEN InTurn(session'[b].todo)
                ELSE \A x \in ToSet(session'[b].todo) : Tame(x)
    <2>1. Tidies(b)' = Tidies(b)
      BY <1>1, JobsStand
    <2>2. CASE b = a
      BY <1>7, <2>1, <2>2
    <2>3. CASE b # a
      BY <1>7, <2>1, <2>3 DEF Tidied
    <2> QED BY <2>2, <2>3
  <1> QED BY <1>9, <1>10, <1>11 DEF Tidied

\* A commit or a merge has been answered: nothing follows from it.
LEMMA NothingFollows ==
  ASSUME NEW p, NEW q, NEW r, Proper(p, r), IsRequest(r), r.op \in Commits \cup {"merge"},
         NEW script \in CRMThen(q, r), NEW rest, IsList(rest)
  PROVE  script \o rest = rest
  <1>1. r.use = ""
    BY DEF Proper, Calm, Tame, Harsh, Commits, IsRequest, Listings, Passes, ContactPasses, DealPasses
  <1>2. script = <<>>
    BY <1>1 DEF CRMThen, CleanupThen, Nothing, Commits
  <1>3. rest \in Seq(ToSet(rest))
    BY ListShape
  <1> QED BY <1>2, <1>3, ConcatEmptySeq

\* How a clean-up goes on after an answer.
LEMMA CleanupAnswered ==
  ASSUME NEW old, NEW p, IsPortal(p), IsLinked(p), NEW r, Good(p, {}, r), NEW reqs, Plan(old, p, reqs),
         NEW rest, Later(rest, r), Without(reqs, ToSet(rest), r),
         \A x \in reqs : Commit(x) => Commit(r),
         NEW q, Applied(p, q, r) \/ AppliedTwice(p, q, r),
         IsPortal(q), StaffKept(q, {}), Good(q, {}, r),
         NEW script \in CRMThen(q, r)
  PROVE  IsLinked(q) /\ InTurn(script \o rest) /\ Plan(old, q, ToSet(script \o rest))
  <1>1. /\ IsRequest(r) /\ Proper(p, r) /\ IsList(rest) /\ InTurn(rest)
        /\ reqs = {r} \cup ToSet(rest)
    BY DEF Good, Plan, Without, Later
  <1>2. CASE r.op \in Commits \cup {"merge"}
    <2>1. Applied(p, q, r)
      BY <1>2 DEF AppliedTwice, Creates, Commits
    <2>2. IsLinked(q) /\ Plan(old, q, ToSet(rest))
      BY <2>1, SentAndApplied DEF Applied, After
    <2>3. script \o rest = rest
      BY <1>1, <1>2, NothingFollows
    <2> QED BY <1>1, <2>2, <2>3
  <1>3. CASE r.op \notin Commits \cup {"merge"}
    <2>1. r.op \notin Harsh
      BY <1>1, <1>3 DEF Proper, Calm, Tame, Harsh, Commits
    <2>2. Grows(p, q) /\ IsLinked(q)
      BY <1>1, <2>1, NothingIsLost
    <2>3. Plan(old, q, {r} \cup ToSet(rest))
      BY <1>1, <2>2, PlanGrows
    <2>4. /\ r.op = "deal" => r.at \in DOMAIN q.deals
          /\ GoodScript(q, {}, script)
      BY WhatMayFollow
    <2>5. ~Commit(r) /\ r.op # "merge"
      BY <1>3 DEF Commit
    <2> QED BY <2>2, <2>3, <2>4, <2>5, CleanupGoesOn
  <1> QED BY <1>2, <1>3

\* The clean-up goes on.
LEMMA TidyGoesOn ==
  ASSUME Orderly, NEW a \in Actors, Tidies(a), ~TwoCleanups, Step(a), Tidied,
         session[a].dropped \in Nat, ~(session'[a].dropped > 0)
  PROVE  Tidied'
  <1> DEFINE s == session[a].todo
             r == Head(session[a].todo)
             rest == Tail(session[a].todo)
             n == session[a].dropped
             reqs == ToSet(s)
  <1>1. /\ session[a].todo # <<>> /\ Good(portal, {}, r)
        /\ IsPortal(portal') /\ StaffKept(portal', {}) /\ Good(portal', {}, r)
        /\ jobs' = jobs /\ start' = start
        /\ \/ Answered(a, r) /\ (Applied(portal, portal', r) \/ AppliedTwice(portal, portal', r))
           \/ Refused(a, r) /\ (portal' = portal \/ Applied(portal, portal', r))
    BY WhatAStepDoes
  <1>2. /\ DOMAIN session = Actors /\ DOMAIN session[a] = SessionFields
        /\ IsList(session[a].todo) /\ IsPortal(portal)
    BY DEF Orderly, GoodSessions, GoodScript
  <1>3. IsLinked(portal) /\ InTurn(session[a].todo) /\ Plan(start, portal, reqs)
    BY OnePlan DEF Tidied
  <1>5. /\ Answered(a, r) => \E script \in CRMThen(portal', r) : Goes(a, script \o rest, n)
        /\ Refused(a, r) =>
             \/ \E script \in Alternatives(r) : Goes(a, script \o rest, n)
             \/ r.onErr = "stop" /\ Goes(a, <<>>, n)
             \/ r.onErr = "drop" /\ Goes(a, rest, n + 1)
             \/ r.onErr # "drop" /\ Goes(a, rest, n)
    BY <1>2, WhatBecomesOfASession
  <1>6. /\ n \in Nat /\ ~(session'[a].dropped > 0)
        /\ IsList(s) /\ s # <<>> /\ InTurn(s) /\ r = Head(s) /\ rest = Tail(s)
    BY <1>1, <1>2, <1>3
  <1> HIDE DEF s, r, rest, n
  <1>4. /\ Later(rest, r) /\ Without(reqs, ToSet(rest), r) /\ reqs = {r} \cup ToSet(rest)
        /\ \A x \in reqs : Commit(x) => Commit(r)
    BY <1>6, HeadOfCleanup
  <1> HIDE DEF reqs
  <1>7. /\ IsLinked(portal')
        /\ \E todo, k : Goes(a, todo, k) /\ InTurn(todo) /\ Plan(start, portal', ToSet(todo))
    <2>1. CASE Answered(a, r) /\ (Applied(portal, portal', r) \/ AppliedTwice(portal, portal', r))
      <3>1. PICK script \in CRMThen(portal', r) : Goes(a, script \o rest, n)
        BY <1>5, <2>1
      <3>2. /\ IsLinked(portal') /\ InTurn(script \o rest)
            /\ Plan(start, portal', ToSet(script \o rest))
        BY <1>1, <1>2, <1>3, <1>4, <2>1, CleanupAnswered
      <3> QED BY <3>1, <3>2
    <2>2. CASE Refused(a, r) /\ (portal' = portal \/ Applied(portal, portal', r))
      <3>1. After(start, portal', r, ToSet(rest))
        <4>1. CASE portal' = portal
          BY <1>3, <1>4, <4>1, NotSent
        <4>2. CASE Applied(portal, portal', r)
          BY <1>1, <1>2, <1>3, <1>4, <4>2, SentAndApplied DEF Applied
        <4> QED BY <2>2, <4>1, <4>2
      <3>2. Proper(portal, r) /\ DOMAIN r = RequestFields
        BY <1>1, <1>3, <1>4 DEF Plan, Good, IsRequest
      <3>3. r.use \notin Renames
        BY <3>2 DEF Proper, Calm, Tame, Renames, Passes, ContactPasses, DealPasses
      <3>4. /\ \A script \in Alternatives(r) : /\ InTurn(script \o rest)
                                               /\ Plan(start, portal', ToSet(script \o rest))
            /\ r.onErr = "stop" => InTurn(<<>>) /\ Plan(start, portal', ToSet(<<>>))
            /\ r.onErr # "drop" \/ r.op # "add member" =>
                  InTurn(rest) /\ Plan(start, portal', ToSet(rest))
        BY <1>4, <3>1, <3>2, <3>3, CleanupRefused
      <3>5. ~ Goes(a, rest, n + 1)
        <4>1. n + 1 > 0
          BY <1>6
        <4> QED BY <1>6, <4>1 DEF Goes
      <3>6. IsLinked(portal')
        BY <3>1 DEF After
      <3> QED BY <1>5, <2>2, <3>4, <3>5, <3>6
    <2> QED BY <1>1, <2>1, <2>2
  <1>8. /\ InTurn(session'[a].todo) /\ Plan(start, portal', ToSet(session'[a].todo))
        /\ \A b \in Actors \ {a} : session'[b] = session[b]
    BY <1>7 DEF Goes
  <1>9. \A b \in Actors : Tidies(b)' = Tidies(b)
    BY <1>1, JobsStand
  <1>10. Planned' = ToSet(session'[a].todo)
    <2>1. {b \in Actors : Tidies(b)}' = {a}
      BY <1>9 DEF TwoCleanups
    <2> QED BY <2>1 DEF Planned
  <1>11. ASSUME NEW b \in Actors
         PROVE  IF Tidies(b)' THEN InTurn(session'[b].todo)
                ELSE \A x \in ToSet(session'[b].todo) : Tame(x)
    <2>1. CASE b = a
      BY <1>8, <1>9, <2>1
    <2>2. CASE b # a
      BY <1>8, <1>9, <2>2 DEF Tidied
    <2> QED BY <2>1, <2>2
  <1> QED BY <1>1, <1>7, <1>8, <1>10, <1>11 DEF Tidied

\* Errors that are dropped are only ever counted up.
LEMMA DroppedGrows ==
  ASSUME Orderly, DroppedIsCounted, NEW a \in Actors, Step(a)
  PROVE  DroppedIsCounted' /\ (~Dropped' => ~Dropped /\ ~(session'[a].dropped > 0))
  <1> DEFINE r == Head(session[a].todo)
             n == session[a].dropped
  <1>1. DOMAIN session = Actors /\ DOMAIN session[a] = SessionFields
    BY DEF Orderly, GoodSessions
  <1>2. Answered(a, r) \/ Refused(a, r)
    BY WhatAStepDoes
  <1>3. \E todo : Goes(a, todo, n) \/ Goes(a, todo, n + 1)
    BY <1>1, <1>2, WhatBecomesOfASession
  <1>4. n \in Nat
    BY DEF DroppedIsCounted
  <1> HIDE DEF r, n
  <1>5. session'[a].dropped \in {n, n + 1} /\ \A b \in Actors \ {a} : session'[b] = session[b]
    BY <1>3 DEF Goes
  <1>6. session'[a].dropped \in Nat /\ (n > 0 => session'[a].dropped > 0)
    BY <1>4, <1>5
  <1>7. \A b \in Actors : session[b].dropped > 0 => session'[b].dropped > 0
    BY <1>5, <1>6 DEF n
  <1>8. DroppedIsCounted'
    BY <1>5, <1>6 DEF DroppedIsCounted
  <1> QED BY <1>7, <1>8 DEF Dropped

\* Of the requests a command begins with none takes anybody off a deal.
LEMMA BeginsTame ==
  ASSUME Init, Undisturbed, NEW a \in Actors, NEW x \in ToSet(jobs[a])
  PROVE  /\ ~Tidies(a) => Tame(x)
         /\ Tidies(a) => /\ x.op \in {"contacts", "deals"} /\ x.use # "relink"
                         /\ x.use \in Passes => x.val = {}
                         /\ x.use \notin Passes => Calm(x)
  <1>1. PICK i \in DOMAIN jobs[a] : x = jobs[a][i]
    BY DEF ToSet
  <1>2. /\ IsRequest(x) /\ x.op # "put deal"
        /\ x.use \in Listings => x.val = {}
        /\ \A k \in DOMAIN jobs[a] : jobs[a][k].use \in Passes \cup {"contact-info"} =>
              \A j \in DOMAIN jobs[a] : jobs[a][j].op \in {"contacts", "deals"}
    BY <1>1, JobsAssumption DEF Init
  <1>3. x.op # "put person" /\ x.use \notin Renames
    BY <1>1 DEF Undisturbed, NobodyRenames
  <1>4. CASE \E k \in DOMAIN jobs[a] : jobs[a][k].use \in Passes \cup {"contact-info"}
    <2>1. x.op \in {"contacts", "deals"}
      BY <1>1, <1>2, <1>4
    <2>2. x.use \in Passes => x.use \in Listings /\ Tidies(a)
      BY <1>1 DEF Passes, ContactPasses, DealPasses, Listings, Tidies
    <2>3. x.use # "relink"
      BY <1>2, <2>1 DEF IsRequest, OfDeal
    <2>4. x.use \notin Passes => Calm(x)
      BY <1>3, <2>1 DEF Calm, Tame, Harsh
    <2> QED BY <1>2, <2>1, <2>2, <2>3, <2>4 DEF Calm
  <1>5. CASE ~ \E k \in DOMAIN jobs[a] : jobs[a][k].use \in Passes \cup {"contact-info"}
    <2>1. CleanupsOf(a) = 0
      <3>1. {k \in DOMAIN jobs[a] : jobs[a][k].use = "contact-info"} = {}
        BY <1>5
      <3> QED BY <3>1, FS_EmptySet DEF CleanupsOf
    <2>2. x.op \notin Deletes
      BY <1>1, <2>1 DEF Undisturbed, OnlyCleanupsDelete
    <2>3. x.use \notin Passes /\ ~Tidies(a)
      BY <1>1, <1>5 DEF Tidies
    <2> QED BY <1>2, <1>3, <2>2, <2>3 DEF Tame, Harsh, Deletes
  <1> QED BY <1>4, <1>5

LEMMA BeginsTidied == Init => PlanInv
  <1> SUFFICES ASSUME Init PROVE PlanInv
    OBVIOUS
  <1>1. /\ portal \in Portals /\ jobs \in Jobs /\ start = portal
        /\ session = [a \in Actors |-> Fresh(jobs[a])]
    BY DEF Init
  <1>2. IsPortal(portal) /\ IsLinked(portal)
    BY <1>1, PortalsAssumption
  <1>3. \A a \in Actors : session[a].todo = jobs[a] /\ session[a].dropped = 0
    BY <1>1 DEF Fresh
  <1>4. DroppedIsCounted
    BY <1>3 DEF DroppedIsCounted
  <1> SUFFICES ASSUME Undisturbed PROVE Tidied
    BY <1>4 DEF PlanInv
  <1>5. ASSUME NEW x \in Planned
        PROVE  /\ x.op \in {"contacts", "deals"} /\ x.use # "relink"
               /\ x.use \in Passes => x.val = {}
               /\ x.use \notin Passes => Calm(x)
    <2>1. PICK a \in Actors : Tidies(a) /\ x \in ToSet(session[a].todo)
      BY <1>5 DEF Planned
    <2> QED BY <1>3, <2>1, BeginsTame
  <1>6. ASSUME NEW a \in Actors
        PROVE  IF Tidies(a) THEN InTurn(session[a].todo)
               ELSE \A x \in ToSet(session[a].todo) : Tame(x)
    <2>1. CASE Tidies(a)
      <3>1. \A i \in DOMAIN jobs[a] : /\ jobs[a][i] \in Planned
                                      /\ ~Commit(jobs[a][i])
        <4>1. \A i \in DOMAIN jobs[a] : jobs[a][i] \in Planned
          BY <1>3, <2>1 DEF Planned, ToSet
        <4> QED BY <1>5, <4>1 DEF Commit, Commits
      <3>2. InTurn(jobs[a])
        BY <1>5, <3>1 DEF InTurn
      <3> QED BY <1>3, <2>1, <3>2
    <2>2. CASE ~Tidies(a)
      BY <1>3, <2>2, BeginsTame
    <2> QED BY <2>1, <2>2
  <1>7. Plan(start, portal, Planned)
    <2>1. \A x \in Planned : Proper(portal, x)
      BY <1>5 DEF Proper, Tracked
    <2>2. \A x \in Planned : x.op \notin Commits /\ x.use # "relink"
      BY <1>5 DEF Commits
    <2> HIDE DEF Planned
    <2>3. Apart(Planned) /\ Backed(portal, Planned)
      BY <2>2 DEF Apart, Backed, DoomsDeal, Commits
    <2>4. \A d, m : Stays(Planned, d, m)
      BY <2>2 DEF Stays, Commits
    <2>5. EverybodyHeld(start, portal, Planned)
      BY <1>1, <2>4 DEF EverybodyHeld, Held, IsOn
    <2> QED BY <2>1, <2>3, <2>5 DEF Plan
  <1> QED BY <1>2, <1>6, <1>7 DEF Tidied

LEMMA StaysTidied == CRMInv /\ PlanInv /\ [Next]_vars => PlanInv'
  <1> SUFFICES ASSUME CRMInv, PlanInv, [Next]_vars PROVE PlanInv'
    OBVIOUS
  <1>1. CASE UNCHANGED vars
    <2>1. Planned' = Planned /\ \A a \in Actors : Tidies(a)' = Tidies(a)
      BY <1>1 DEF vars, Planned, Tidies
    <2>2. Undisturbed' = Undisturbed /\ DroppedIsCounted' = DroppedIsCounted /\ Dropped' = Dropped
      BY <1>1, JobsStand DEF vars, DroppedIsCounted, Dropped
    <2>3. Tidied => Tidied'
      BY <1>1, <2>1 DEF vars, Tidied
    <2> QED BY <2>2, <2>3 DEF PlanInv
  <1>2. ASSUME NEW a \in Actors, Step(a), Undisturbed' PROVE DroppedIsCounted' /\ (~Dropped' => Tidied')
    <2>1. jobs' = jobs
      BY <1>2 DEF Step, Succeed, Reject, Fail, Fault, ApplyTwice
    <2>2. Undisturbed /\ Orderly
      BY <1>2, <2>1, JobsStand DEF Undisturbed, CRMInv
    <2>3. DroppedIsCounted /\ (~Dropped => Tidied)
      BY <2>2 DEF PlanInv
    <2>4. DroppedIsCounted' /\ (~Dropped' => ~Dropped /\ ~(session'[a].dropped > 0))
      BY <1>2, <2>2, <2>3, DroppedGrows
    <2>5. ASSUME ~Dropped' PROVE Tidied'
      <3>1. Tidied /\ session[a].dropped \in Nat /\ ~(session'[a].dropped > 0) /\ ~TwoCleanups
        BY <2>2, <2>3, <2>4, <2>5 DEF DroppedIsCounted, Undisturbed
      <3>2. CASE Tidies(a)
        BY <1>2, <2>2, <3>1, <3>2, TidyGoesOn
      <3>3. CASE ~Tidies(a)
        BY <1>2, <2>2, <3>1, <3>3, TameGoesOn
      <3> QED BY <3>2, <3>3
    <2> QED BY <2>4, <2>5
  <1>3. UNCHANGED vars \/ \E a \in Actors : Step(a)
    BY DEF Next, Finished
  <1>4. CASE \E a \in Actors : Step(a)
    <2>1. PICK a \in Actors : Step(a)
      BY <1>4
    <2> QED BY <1>2, <2>1 DEF PlanInv
  <1> QED BY <1>1, <1>3, <1>4

\* crm_dedupe.go:131: the clean-up merges contacts, moves the members of a deal one by one to
\* another one and deletes it, removes members by name and puts deals back whole, all from what
\* it has read before.  Whatever requests of it fail or are applied twice, and whatever else is
\* created, tagged or reassigned meanwhile, whoever was on a deal is in the end on a deal of the
\* same title, himself or by a namesake, as long as nobody renames contacts.
THEOREM NobodyIsLost == Spec => [](NobodyRenames => NobodyIsCutOff)
  <1>1. PlanInv => (NobodyRenames => NobodyIsCutOff)
    <2> SUFFICES ASSUME PlanInv, NobodyRenames, AllEnded, OnlyCleanupsDelete, ~Dropped, ~TwoCleanups,
                        NEW d \in DOMAIN start.deals, NEW m \in start.deals[d].members
                 PROVE  \E e \in DOMAIN portal.deals :
                          /\ \E ignore \in BOOLEAN :
                                DealTitleKey(FixDealTitle(portal.deals[e].title), ignore)
                                  = DealTitleKey(FixDealTitle(start.deals[d].title), ignore)
                          /\ \E n \in portal.deals[e].members :
                                \/ n = Heir(m)
                                \/ CompanyGroupingKey(portal.contacts[n].name)
                                     = CompanyGroupingKey(start.contacts[m].name)
      BY DEF NobodyIsCutOff, EverybodyIsOnADeal
    <2>1. Tidied
      BY DEF PlanInv, Undisturbed
    <2>2. Planned = {}
      <3>1. ToSet(<<>>) = {}
        BY OneElement DEF ToSet
      <3> QED BY <3>1 DEF Planned, AllEnded, Ended
    <2>3. Held(portal, {}, DealKey(start, d), NameKey(start, m))
      BY <2>1, <2>2 DEF Tidied, Plan, EverybodyHeld
    <2>4. PICK e \in DOMAIN portal.deals : \E n \in portal.deals[e].members :
             DealKey(portal, e) = DealKey(start, d) /\ NameKey(portal, n) = NameKey(start, m)
      BY <2>3 DEF Held, IsOn, GetsOn
    <2>5. DealTitleKey(FixDealTitle(portal.deals[e].title), TRUE)
            = DealTitleKey(FixDealTitle(start.deals[d].title), TRUE)
      BY <2>4 DEF DealKey, TitleKey
    <2>6. \E n \in portal.deals[e].members : CompanyGroupingKey(portal.contacts[n].name)
                                               = CompanyGroupingKey(start.contacts[m].name)
      BY <2>4 DEF NameKey
    <2> QED BY <2>5, <2>6
  <1> QED BY <1>1, AlwaysOrderly, BeginsTidied, StaysTidied, PTL DEF Spec

=============================================================================
