----------------------------- MODULE CatalogProofs -----------------------------
(***************************************************************************)
(* What holds of the catalog for every disk, CRM and bound: no command     *)
(* forgets the contact of an entry, nothing is made twice, and persons     *)
(* find their employers.                                                   *)
(*                                                                         *)
(* The first part is about data: least and greatest numbers, sequences,    *)
(* the elements of a sequence at some places, and what merging keeps (by   *)
(* induction on the number of entries, through the least counterexample).  *)
(* The second is the invariant of the commands: what the copy of a command *)
(* knows, what the run has made, and what it has looked for and not found. *)
(* The third adds the order of one run: companies first, persons last.     *)
(***************************************************************************)
EXTENDS Catalog, FiniteSetTheorems, FunctionTheorems, SequenceTheorems,
        WellFoundedInduction, TLAPS

-----------------------------------------------------------------------------
(* The least and the greatest number of a set                              *)

LessThan == {pair \in Nat \X Nat : pair[1] < pair[2]}

\* Induction by the least counterexample rests on this.
LEMMA LeastNat ==
  ASSUME NEW S, S \subseteq Nat, S # {}
  PROVE  \E n \in S : \A m \in S : n <= m
  <1>1. OpToRel(<, Nat) = LessThan
    BY DEF OpToRel, LessThan
  <1>2. IsWellFoundedOn(LessThan, Nat)
    BY <1>1, NatLessThanWellFounded
  <1>3. PICK n \in S : \A m \in S : <<m, n>> \notin LessThan
    BY <1>2, WFMin
  <1>0. S \subseteq Int /\ n \in S
    BY <1>3
  <1>4. ASSUME NEW m \in S PROVE n <= m
    <2> DEFINE pair == <<m, n>>
    <2>1. pair \in Nat \X Nat /\ pair[1] = m /\ pair[2] = n
      OBVIOUS
    <2>2. pair \notin LessThan
      BY <1>3
    <2> HIDE DEF pair
    <2>3. ~(m < n)
      BY <2>1, <2>2 DEF LessThan
    <2> QED BY <2>3
  <1> QED BY <1>4, Zenon

LEMMA GreatestNat ==
  ASSUME NEW n \in Nat, NEW S, S \subseteq 0 .. n, S # {}
  PROVE  \E x \in S : \A y \in S : x >= y
  <1> DEFINE gaps == {n - x : x \in S}
  <1>1. gaps \subseteq Nat /\ gaps # {}
    <2>1. \A x \in S : x \in Int /\ n - x \in Nat
      OBVIOUS
    <2> QED BY <2>1
  <1>2. PICK g \in gaps : \A h \in gaps : g <= h
    <2> HIDE DEF gaps
    <2> QED BY <1>1, LeastNat
  <1>3. PICK x \in S : g = n - x
    OBVIOUS
  <1>4. \A y \in S : n - x <= n - y
    BY <1>2, <1>3
  <1>5. \A y \in S : x >= y
    BY <1>4
  <1> QED BY <1>5

LEMMA LeastProperties ==
  ASSUME NEW S, S \subseteq Nat \ {0}
  PROVE  /\ Least(S) = None <=> S = {}
         /\ S # {} => Least(S) \in S
  <1>1. CASE S = {}
    BY <1>1 DEF Least, None
  <1>2. CASE S # {}
    <2>1. \E x \in S : \A y \in S : x <= y
      BY <1>2, LeastNat
    <2>2. Least(S) \in S
      BY <1>2, <2>1 DEF Least
    <2> QED BY <1>2, <2>2 DEF None
  <1> QED BY <1>1, <1>2

LEMMA GreatestProperties ==
  ASSUME NEW n \in Nat, NEW S, S \subseteq 1 .. n
  PROVE  /\ Greatest(S) = None <=> S = {}
         /\ S # {} => Greatest(S) \in S
  <1>1. CASE S = {}
    BY <1>1 DEF Greatest, None
  <1>2. CASE S # {}
    <2>0. S \subseteq 0 .. n
      OBVIOUS
    <2>1. \E x \in S : \A y \in S : x >= y
      BY <1>2, <2>0, GreatestNat
    <2>2. Greatest(S) \in S
      BY <1>2, <2>1 DEF Greatest
    <2>3. Greatest(S) # 0
      BY <2>2
    <2> QED BY <1>2, <2>2, <2>3 DEF None
  <1> QED BY <1>1, <1>2

-----------------------------------------------------------------------------
(* Sequences of anything                                                   *)

IsSeq(s) == s \in Seq(ToSet(s))

LEMMA AnySeq ==
  ASSUME NEW S, NEW s \in Seq(S)
  PROVE  IsSeq(s) /\ ToSet(s) \subseteq S
  <1>1. Len(s) \in Nat /\ s \in [1 .. Len(s) -> S] /\ DOMAIN s = 1 .. Len(s)
    BY LenProperties
  <1>2. s \in [1 .. Len(s) -> ToSet(s)] /\ ToSet(s) \subseteq S
    BY <1>1 DEF ToSet
  <1> QED BY <1>1, <1>2 DEF IsSeq

LEMMA SeqShape ==
  ASSUME NEW s, IsSeq(s)
  PROVE  /\ Len(s) \in Nat /\ DOMAIN s = 1 .. Len(s)
         /\ s \in [1 .. Len(s) -> ToSet(s)]
         /\ s = <<>> <=> Len(s) = 0
  BY LenProperties, EmptySeq DEF IsSeq

LEMMA ShapeIsSeq ==
  ASSUME NEW n \in Nat, NEW s, NEW S, s \in [1 .. n -> S]
  PROVE  IsSeq(s) /\ Len(s) = n /\ ToSet(s) \subseteq S
  <1>1. s \in Seq(S) /\ Len(s) = n
    OBVIOUS
  <1> QED BY <1>1, AnySeq

LEMMA AppendSeq ==
  ASSUME NEW s, IsSeq(s), NEW e
  PROVE  LET t == Append(s, e)
         IN  /\ IsSeq(t) /\ Len(t) = Len(s) + 1
             /\ \A i \in DOMAIN s : i \in DOMAIN t /\ t[i] = s[i]
             /\ Len(s) + 1 \in DOMAIN t /\ t[Len(s) + 1] = e
             /\ \A i \in DOMAIN t : i \in DOMAIN s \/ i = Len(s) + 1
  <1> DEFINE S == ToSet(s) \cup {e}
             t == Append(s, e)
  <1>1. s \in Seq(S) /\ e \in S
    <2>1. s \in Seq(ToSet(s)) /\ ToSet(s) \subseteq S
      BY DEF IsSeq
    <2> HIDE DEF S
    <2>2. s \in Seq(S)
      BY <2>1, SeqMonotonic
    <2> QED BY <2>2 DEF S
  <1> HIDE DEF S
  <1>2. /\ t \in Seq(S) /\ Len(t) = Len(s) + 1
        /\ \A i \in 1 .. Len(s) : t[i] = s[i]
        /\ t[Len(s) + 1] = e
    BY <1>1, AppendProperties
  <1>3. Len(s) \in Nat /\ DOMAIN s = 1 .. Len(s)
    BY SeqShape
  <1> HIDE DEF t
  <1>4. IsSeq(t) /\ DOMAIN t = 1 .. Len(t)
    BY <1>2, AnySeq, SeqShape
  <1> QED BY <1>2, <1>3, <1>4 DEF t

LEMMA ConcatSeq ==
  ASSUME NEW s, IsSeq(s), NEW t, IsSeq(t)
  PROVE  LET u == s \o t
         IN  /\ IsSeq(u)
             /\ ToSet(u) = ToSet(s) \cup ToSet(t)
             /\ Len(u) = Len(s) + Len(t)
             /\ \A i \in 1 .. Len(s) : u[i] = s[i]
             /\ \A i \in 1 .. Len(t) : u[Len(s) + i] = t[i]
  <1> DEFINE S == ToSet(s) \cup ToSet(t)
             u == s \o t
  <1>1. s \in Seq(S) /\ t \in Seq(S)
    <2>1. /\ s \in Seq(ToSet(s)) /\ ToSet(s) \subseteq S
          /\ t \in Seq(ToSet(t)) /\ ToSet(t) \subseteq S
      BY DEF IsSeq
    <2> HIDE DEF S
    <2> QED BY <2>1, SeqMonotonic
  <1> HIDE DEF S
  <1>2. /\ u \in Seq(S) /\ Len(u) = Len(s) + Len(t)
        /\ \A i \in 1 .. Len(s) + Len(t) :
              u[i] = IF i <= Len(s) THEN s[i] ELSE t[i - Len(s)]
    BY <1>1, ConcatProperties
  <1>3. /\ Len(s) \in Nat /\ DOMAIN s = 1 .. Len(s)
        /\ Len(t) \in Nat /\ DOMAIN t = 1 .. Len(t)
    BY SeqShape
  <1> HIDE DEF u
  <1>4. IsSeq(u) /\ DOMAIN u = 1 .. Len(u) /\ ToSet(u) \subseteq S
    BY <1>2, AnySeq, SeqShape
  <1>5. \A i \in 1 .. Len(s) : i \in DOMAIN u /\ u[i] = s[i]
    BY <1>2, <1>3, <1>4
  <1>6. \A i \in 1 .. Len(t) : Len(s) + i \in DOMAIN u /\ u[Len(s) + i] = t[i]
    <2> SUFFICES ASSUME NEW i \in 1 .. Len(t)
                 PROVE  Len(s) + i \in DOMAIN u /\ u[Len(s) + i] = t[i]
      OBVIOUS
    <2>1. Len(s) + i \in 1 .. Len(s) + Len(t) /\ ~(Len(s) + i <= Len(s))
          /\ Len(s) + i - Len(s) = i
      BY <1>3
    <2> QED BY <1>2, <1>4, <2>1
  <1>7. S \subseteq ToSet(u)
    BY <1>3, <1>5, <1>6 DEF S, ToSet
  <1> QED BY <1>2, <1>4, <1>5, <1>6, <1>7 DEF S, u

\* One element is given another value.
LEMMA ExceptAny ==
  ASSUME NEW s, IsSeq(s), NEW i \in DOMAIN s, NEW e
  PROVE  LET t == [s EXCEPT ![i] = e]
         IN  /\ IsSeq(t) /\ Len(t) = Len(s) /\ DOMAIN t = DOMAIN s
             /\ t[i] = e
             /\ \A j \in DOMAIN s : j # i => t[j] = s[j]
  <1> DEFINE t == [s EXCEPT ![i] = e]
             S == ToSet(s) \cup {e}
  <1>1. Len(s) \in Nat /\ DOMAIN s = 1 .. Len(s) /\ s \in [1 .. Len(s) -> ToSet(s)]
    BY SeqShape
  <1>2. /\ t \in [1 .. Len(s) -> S] /\ t[i] = e
        /\ \A j \in DOMAIN s : j # i => t[j] = s[j]
    BY <1>1
  <1> HIDE DEF t, S
  <1>3. IsSeq(t) /\ Len(t) = Len(s)
    BY <1>1, <1>2, ShapeIsSeq
  <1> QED BY <1>1, <1>2, <1>3 DEF t

-----------------------------------------------------------------------------
(* The elements of a sequence at some places, in order                     *)

LEMMA InOrderProperties ==
  ASSUME NEW n \in Nat, NEW S, S \subseteq 1 .. n
  PROVE  /\ Cardinality(S) \in Nat
         /\ InOrder(S) \in [1 .. Cardinality(S) -> S]
         /\ \A i \in S : \E k \in 1 .. Cardinality(S) : InOrder(S)[k] = i
  <1> DEFINE rank == [i \in S |-> Cardinality({j \in S : j <= i})]
             N == Cardinality(S)
  <1>1. IsFiniteSet(S) /\ N \in Nat
    <2>1. IsFiniteSet(1 .. n)
      BY FS_Interval
    <2>2. IsFiniteSet(S)
      BY <2>1, FS_Subset
    <2> QED BY <2>2, FS_CardinalityType
  <1>2. ASSUME NEW i \in S
        PROVE  /\ IsFiniteSet({j \in S : j <= i})
               /\ rank[i] \in 1 .. N
    <2> DEFINE T == {j \in S : j <= i}
    <2>1. T \in SUBSET S /\ i \in T
      OBVIOUS
    <2> HIDE DEF T
    <2>2. IsFiniteSet(T) /\ Cardinality(T) <= N
      BY <1>1, <2>1, FS_Subset
    <2>3. Cardinality(T) \in Nat /\ Cardinality(T) # 0
      BY <2>1, <2>2, FS_CardinalityType, FS_EmptySet
    <2> QED BY <1>1, <2>2, <2>3 DEF T
  <1>3. ASSUME NEW i \in S, NEW k \in S, i < k PROVE rank[i] < rank[k]
    <2> DEFINE T == {j \in S : j <= i}
               U == {j \in S : j <= k}
    <2>1. T \in SUBSET U /\ k \in U /\ k \notin T
      <3>1. i \in Int /\ k \in Int /\ S \subseteq Int
        OBVIOUS
      <3>2. \A j \in S : j <= i => j <= k
        BY <1>3, <3>1
      <3>3. k <= k /\ ~(k <= i)
        BY <1>3, <3>1
      <3> QED BY <3>2, <3>3
    <2>2. IsFiniteSet(T) /\ IsFiniteSet(U)
      BY <1>2
    <2>3. rank[i] = Cardinality(T) /\ rank[k] = Cardinality(U)
      OBVIOUS
    <2> HIDE DEF T, U, rank
    <2>4. Cardinality(T) <= Cardinality(U) /\ (Cardinality(U) = Cardinality(T) => U = T)
      BY <2>1, <2>2, FS_Subset
    <2>5. Cardinality(T) \in Nat /\ Cardinality(U) \in Nat
      BY <2>2, FS_CardinalityType
    <2> QED BY <2>1, <2>3, <2>4, <2>5
  <1>4. rank \in [S -> 1 .. N]
    BY <1>2
  <1>5. \A i, k \in S : rank[i] = rank[k] => i = k
    <2> SUFFICES ASSUME NEW i \in S, NEW k \in S, i # k PROVE rank[i] # rank[k]
      OBVIOUS
    <2>1. i < k \/ k < i
      OBVIOUS
    <2>2. rank[i] \in Int /\ rank[k] \in Int
      BY <1>4
    <2> HIDE DEF rank
    <2> QED BY <1>3, <2>1, <2>2
  <1>6. \A m \in 1 .. N : \E i \in S : rank[i] = m
    <2> HIDE DEF rank, N
    <2>1. rank \in Injection(S, 1 .. N)
      BY <1>4, <1>5, Fun_IsInj
    <2>2. IsFiniteSet(1 .. N) /\ Cardinality(1 .. N) = N
      BY <1>1, FS_Interval
    <2>3. rank \in Surjection(S, 1 .. N)
      BY <2>1, <2>2, FS_Injection DEF N
    <2> QED BY <2>3 DEF Surjection
  <1> DEFINE at(m) == CHOOSE i \in S : Cardinality({j \in S : j <= i}) = m
  <1>7. \A m \in 1 .. N : at(m) \in S /\ rank[at(m)] = m
    BY <1>6
  <1>8. InOrder(S) = [m \in 1 .. N |-> at(m)]
    BY DEF InOrder
  <1>9. \A i \in S : rank[i] \in 1 .. N /\ at(rank[i]) = i
    BY <1>4, <1>5, <1>7
  <1> HIDE DEF at, rank, N
  <1> QED BY <1>1, <1>7, <1>8, <1>9 DEF N

LEMMA AtProperties ==
  ASSUME NEW s, IsSeq(s), NEW places, places \subseteq DOMAIN s
  PROVE  /\ IsSeq(At(s, places))
         /\ ToSet(At(s, places)) = {s[i] : i \in places}
         /\ places = {} => At(s, places) = <<>>
  <1> DEFINE N == Cardinality(places)
             order == InOrder(places)
             t == At(s, places)
  <1>1. /\ N \in Nat /\ order \in [1 .. N -> places]
        /\ \A i \in places : \E k \in 1 .. N : order[k] = i
    BY SeqShape, InOrderProperties
  <1>2. t = [k \in 1 .. N |-> s[order[k]]]
    BY <1>1 DEF At
  <1> HIDE DEF N, order, t
  <1>3. t \in [1 .. N -> {s[i] : i \in places}]
    BY <1>1, <1>2
  <1>4. IsSeq(t) /\ Len(t) = N /\ ToSet(t) \subseteq {s[i] : i \in places}
    BY <1>1, <1>3, ShapeIsSeq
  <1>5. {s[i] : i \in places} \subseteq ToSet(t)
    BY <1>1, <1>2 DEF ToSet
  <1>6. places = {} => t = <<>>
    <2>1. places = {} => N = 0
      BY FS_EmptySet DEF N
    <2> QED BY <1>4, <2>1, SeqShape
  <1> QED BY <1>4, <1>5, <1>6 DEF t

-----------------------------------------------------------------------------
(* Entries and documents.  cs are the contacts of the CRM.                 *)

(* Companies have their addresses on their own pages, if at all: with one  *)
(* of them, match would take a person of that address for the company.     *)
CompaniesHaveNoAddress ==
  \A all \in InitialContacts : \A c \in ToSet(all) : c.company => c.emails = {}

(* A company has its name for an id and no address; the contact an entry   *)
(* stands for is one of its kind, a company one of its name.               *)
CompanyKey(name) == Keys!CompanyGroupingKey(name)
IsOf(c, e) == /\ c.company <=> e.kind = "company"
              /\ c.company => CompanyKey(c.name) = CompanyKey(e.name)

EntryFields == {"id", "kind", "name", "org", "emails", "oo", "approve", "status"}
IsEntry(e, cs) ==
  /\ DOMAIN e = EntryFields
  /\ IsSeq(e.emails)
  /\ e.id.kind = e.kind
  /\ e.kind = "company" => e.emails = <<>> /\ e.id.name = e.name
  /\ e.oo # None => /\ e.oo \in DOMAIN cs
                    /\ CompaniesHaveNoAddress => IsOf(cs[e.oo], e)

Entries(doc, cs) == IsSeq(doc) /\ \A i \in DOMAIN doc : IsEntry(doc[i], cs)
IDsDiffer(doc) == \A i, j \in DOMAIN doc : doc[i].id = doc[j].id => i = j
IsDoc(doc, cs) == Entries(doc, cs) /\ IDsDiffer(doc)

LEMMA UniqueEmails ==
  ASSUME NEW s, IsSeq(s)
  PROVE  IsSeq(uniqueEmails(s)) /\ (s = <<>> => uniqueEmails(s) = <<>>)
  <1> DEFINE first == {i \in DOMAIN s : \A j \in DOMAIN s : j < i => s[j] # s[i]}
  <1>1. first \subseteq DOMAIN s
    OBVIOUS
  <1>2. uniqueEmails(s) = At(s, first)
    BY DEF uniqueEmails
  <1>3. s = <<>> => DOMAIN s = {}
    BY SeqShape
  <1> HIDE DEF first
  <1>4. s = <<>> => first = {}
    BY <1>1, <1>3
  <1> QED BY <1>1, <1>2, <1>4, AtProperties

LEMMA MergeEntryProperties ==
  ASSUME NEW cs, NEW dst, IsEntry(dst, cs), NEW src, IsEntry(src, cs), dst.id = src.id
  PROVE  LET e == mergeEntry(dst, src)
         IN  /\ IsEntry(e, cs) /\ e.id = dst.id
             /\ e.oo = IF dst.oo = None THEN src.oo ELSE dst.oo
  <1> DEFINE e == mergeEntry(dst, src)
             emails == uniqueEmails(dst.emails \o src.emails)
  <1>1. /\ DOMAIN e = EntryFields
        /\ e.id = dst.id /\ e.kind = dst.kind /\ e.emails = emails
        /\ e.name = IF dst.name = NoName THEN src.name ELSE dst.name
        /\ e.oo = IF dst.oo = None THEN src.oo ELSE dst.oo
    BY DEF mergeEntry, IsEntry, EntryFields
  <1>2. IsSeq(emails) /\ (dst.emails = <<>> /\ src.emails = <<>> => emails = <<>>)
    <2>1. IsSeq(dst.emails) /\ IsSeq(src.emails)
      BY DEF IsEntry
    <2> DEFINE both == dst.emails \o src.emails
    <2>2. IsSeq(both) /\ Len(both) = Len(dst.emails) + Len(src.emails)
      BY <2>1, ConcatSeq
    <2>3. dst.emails = <<>> /\ src.emails = <<>> => both = <<>>
      BY <2>1, <2>2, SeqShape
    <2> HIDE DEF both
    <2>4. IsSeq(uniqueEmails(both)) /\ (both = <<>> => uniqueEmails(both) = <<>>)
      BY <2>2, UniqueEmails
    <2> QED BY <2>3, <2>4 DEF both
  <1>3. dst.kind = src.kind
    BY DEF IsEntry
  <1> HIDE DEF e, emails
  <1>4. e.kind = "company" => e.emails = <<>> /\ e.id.name = e.name
    BY <1>1, <1>2, <1>3 DEF IsEntry
  <1>5. e.oo # None => /\ e.oo \in DOMAIN cs
                       /\ CompaniesHaveNoAddress => IsOf(cs[e.oo], e)
    <2>1. e.kind = "company" => e.name = dst.name /\ e.name = src.name
      BY <1>1, <1>3, <1>4 DEF IsEntry
    <2> QED BY <1>1, <1>3, <2>1 DEF IsEntry, IsOf
  <1>6. e.id.kind = e.kind
    BY <1>1 DEF IsEntry
  <1>7. IsEntry(e, cs)
    BY <1>1, <1>2, <1>4, <1>5, <1>6 DEF IsEntry
  <1> QED BY <1>1, <1>7 DEF e

LEMMA KnownIDs ==
  ASSUME NEW doc, NEW i \in DOMAIN doc
  PROVE  doc[i].oo # None => doc[i].id \in Known(doc)
  BY DEF Known, ToSet

LEMMA MergeOneProperties ==
  ASSUME NEW cs, NEW out, IsDoc(out, cs), NEW e, IsEntry(e, cs)
  PROVE  LET more == MergeOne(out, e)
         IN  /\ IsDoc(more, cs)
             /\ Known(out) \subseteq Known(more)
             /\ e.oo # None => e.id \in Known(more)
  <1> DEFINE same == {i \in DOMAIN out : out[i].id = e.id}
             more == MergeOne(out, e)
  <1>0. /\ IsSeq(out) /\ IDsDiffer(out)
        /\ \A i \in DOMAIN out : IsEntry(out[i], cs)
    BY DEF IsDoc, Entries
  <1>1. CASE same = {}
    <2>1. more = Append(out, e)
      BY <1>1 DEF MergeOne
    <2> HIDE DEF more
    <2>2. /\ IsSeq(more)
          /\ \A i \in DOMAIN out : i \in DOMAIN more /\ more[i] = out[i]
          /\ Len(out) + 1 \in DOMAIN more /\ more[Len(out) + 1] = e
          /\ \A i \in DOMAIN more : i \in DOMAIN out \/ i = Len(out) + 1
      BY <1>0, <2>1, AppendSeq
    <2>3. \A i \in DOMAIN more : IsEntry(more[i], cs)
      BY <1>0, <2>2
    <2>4. IDsDiffer(more)
      BY <1>0, <1>1, <2>2 DEF IDsDiffer
    <2>5. Known(out) \subseteq Known(more)
      BY <2>2 DEF Known, ToSet
    <2>6. e.oo # None => e.id \in Known(more)
      BY <2>2, KnownIDs
    <2> QED BY <2>2, <2>3, <2>4, <2>5, <2>6 DEF IsDoc, Entries, more
  <1>2. CASE same # {}
    <2>1. more = [i \in DOMAIN out |-> IF i \in same THEN mergeEntry(out[i], e) ELSE out[i]]
      BY <1>2 DEF MergeOne
    <2> HIDE DEF more
    <2>2. /\ DOMAIN more = DOMAIN out
          /\ \A i \in DOMAIN out : more[i] = IF i \in same THEN mergeEntry(out[i], e) ELSE out[i]
      BY <2>1
    <2>3. ASSUME NEW i \in DOMAIN out
          PROVE  /\ IsEntry(more[i], cs) /\ more[i].id = out[i].id
                 /\ i \in same => more[i].oo = IF out[i].oo = None THEN e.oo ELSE out[i].oo
                 /\ i \notin same => more[i].oo = out[i].oo
      <3>1. CASE i \in same
        <4>1. IsEntry(out[i], cs) /\ out[i].id = e.id
          BY <1>0, <3>1
        <4>2. more[i] = mergeEntry(out[i], e)
          BY <2>2, <3>1
        <4> QED BY <3>1, <4>1, <4>2, MergeEntryProperties
      <3>2. CASE i \notin same
        BY <1>0, <2>2, <3>2
      <3> QED BY <3>1, <3>2
    <2>4. IsSeq(more)
      <3>1. Len(out) \in Nat /\ DOMAIN out = 1 .. Len(out)
        BY <1>0, SeqShape
      <3>2. more \in [1 .. Len(out) -> {more[i] : i \in DOMAIN out}]
        BY <2>1, <3>1
      <3> QED BY <3>1, <3>2, ShapeIsSeq
    <2>5. IDsDiffer(more)
      BY <1>0, <2>2, <2>3 DEF IDsDiffer
    <2>6. Known(out) \subseteq Known(more)
      <3> SUFFICES ASSUME NEW i \in DOMAIN out, out[i].oo # None
                   PROVE  out[i].id \in Known(more)
        BY DEF Known, ToSet
      <3> QED BY <2>2, <2>3, KnownIDs
    <2>7. e.oo # None => e.id \in Known(more)
      <3>1. PICK i \in DOMAIN out : i \in same /\ out[i].id = e.id
        BY <1>2
      <3>2. e.oo # None => more[i].oo # None
        BY <2>3, <3>1
      <3> QED BY <2>2, <2>3, <3>1, <3>2, KnownIDs
    <2> QED BY <2>2, <2>3, <2>4, <2>5, <2>6, <2>7 DEF IsDoc, Entries, more
  <1> QED BY <1>1, <1>2

-----------------------------------------------------------------------------
(* Merging: the document after each entry, by induction on their number    *)

\* g is the document after each of the first n entries.
MergesTo(g, entries, n) ==
  g = [i \in 0 .. n |-> IF i = 0 THEN <<>> ELSE MergeOne(g[i - 1], entries[i])]

LEMMA MergesExist ==
  ASSUME NEW entries, NEW n \in Nat
  PROVE  \E g : MergesTo(g, entries, n)
  <1> DEFINE bad == {k \in Nat : ~ \E g : MergesTo(g, entries, k)}
  <1>1. 0 \notin bad
    <2> DEFINE g == [i \in 0 .. 0 |-> <<>>]
    <2>1. g = [i \in 0 .. 0 |-> IF i = 0 THEN <<>> ELSE MergeOne(g[i - 1], entries[i])]
      OBVIOUS
    <2> HIDE DEF g
    <2> QED BY <2>1 DEF MergesTo
  <1>2. ASSUME NEW k \in Nat, k # 0, k - 1 \notin bad PROVE k \notin bad
    <2>1. k - 1 \in Nat /\ 0 .. k - 1 \subseteq 0 .. k /\ \A i \in 0 .. k : i \in 0 .. k - 1 \/ i = k
      BY <1>2
    <2>2. PICK g : MergesTo(g, entries, k - 1)
      BY <1>2, <2>1
    <2> DEFINE h == [i \in 0 .. k |-> IF i = k THEN MergeOne(g[k - 1], entries[k]) ELSE g[i]]
    <2>3. ASSUME NEW i \in 0 .. k
          PROVE  h[i] = IF i = 0 THEN <<>> ELSE MergeOne(h[i - 1], entries[i])
      <3>1. CASE i = k
        <4>1. k - 1 \in 0 .. k /\ k - 1 # k
          BY <2>1
        <4>2. h[k - 1] = g[k - 1] /\ h[k] = MergeOne(g[k - 1], entries[k])
          BY <4>1
        <4> HIDE DEF h
        <4> QED BY <1>2, <3>1, <4>2
      <3>2. CASE i # k
        <4>1. i \in 0 .. k - 1
          BY <2>1, <3>2
        <4>2. g[i] = IF i = 0 THEN <<>> ELSE MergeOne(g[i - 1], entries[i])
          BY <2>2, <4>1 DEF MergesTo
        <4>3. h[i] = g[i]
          BY <3>2
        <4>4. i # 0 => i - 1 \in 0 .. k /\ i - 1 # k
          BY <2>1, <4>1
        <4>5. i # 0 => h[i - 1] = g[i - 1]
          BY <4>4
        <4> HIDE DEF h
        <4> QED BY <4>2, <4>3, <4>5
      <3> QED BY <3>1, <3>2
    <2>4. DOMAIN h = 0 .. k /\ h = [i \in 0 .. k |-> h[i]]
      OBVIOUS
    <2> HIDE DEF h
    <2>5. MergesTo(h, entries, k)
      BY <2>3, <2>4 DEF MergesTo
    <2> QED BY <2>5
  <1>3. bad \subseteq Nat
    OBVIOUS
  <1>4. bad = {}
    <2> HIDE DEF bad
    <2> SUFFICES ASSUME bad # {} PROVE FALSE
      OBVIOUS
    <2>1. PICK k \in bad : \A m \in bad : k <= m
      BY <1>3, LeastNat
    <2>2. k \in Nat /\ k # 0
      BY <1>1, <1>3
    <2>3. k - 1 \in Nat /\ ~(k <= k - 1)
      BY <2>2
    <2> QED BY <1>2, <2>1, <2>2, <2>3
  <1> QED BY <1>4

\* What is merged is a document, and knows every contact its entries knew.
LEMMA MergeDocsProperties ==
  ASSUME NEW cs, NEW entries, Entries(entries, cs)
  PROVE  IsDoc(MergeDocs(entries), cs) /\ Known(entries) \subseteq Known(MergeDocs(entries))
  <1> DEFINE N == Len(entries)
             merged == CHOOSE g : g = [i \in 0 .. Len(entries) |->
                                         IF i = 0 THEN <<>> ELSE MergeOne(g[i - 1], entries[i])]
             Right(k) == /\ IsDoc(merged[k], cs)
                         /\ \A i \in 1 .. k : entries[i].oo # None => entries[i].id \in Known(merged[k])
             bad == {k \in 0 .. N : ~Right(k)}
  <1>1. MergeDocs(entries) = merged[N]
    BY DEF MergeDocs
  <1>2. N \in Nat /\ DOMAIN entries = 1 .. N /\ \A i \in 1 .. N : IsEntry(entries[i], cs)
    BY SeqShape DEF Entries
  <1>3. MergesTo(merged, entries, N)
    <2>1. \E g : MergesTo(g, entries, N)
      BY <1>2, MergesExist
    <2> QED BY <2>1 DEF MergesTo
  <1>4. \A i \in 0 .. N : merged[i] = IF i = 0 THEN <<>> ELSE MergeOne(merged[i - 1], entries[i])
    <2> HIDE DEF merged
    <2> QED BY <1>3 DEF MergesTo
  <1> HIDE DEF merged, N
  <1>5. Right(0)
    <2>1. merged[0] = <<>>
      BY <1>2, <1>4
    <2>2. IsSeq(<<>>) /\ DOMAIN <<>> = {}
      <3>1. <<>> \in Seq({})
        BY EmptySeq
      <3>2. IsSeq(<<>>)
        BY <3>1, AnySeq
      <3> QED BY <3>2, SeqShape
    <2> QED BY <2>1, <2>2 DEF IsDoc, Entries, IDsDiffer
  <1>6. ASSUME NEW k \in 1 .. N, Right(k - 1) PROVE Right(k)
    <2>1. k \in 0 .. N /\ k # 0 /\ k - 1 \in Nat
      BY <1>2
    <2>2. merged[k] = MergeOne(merged[k - 1], entries[k])
      BY <1>4, <2>1
    <2>3. /\ IsDoc(merged[k], cs)
          /\ Known(merged[k - 1]) \subseteq Known(merged[k])
          /\ entries[k].oo # None => entries[k].id \in Known(merged[k])
      BY <1>2, <1>6, <2>2, MergeOneProperties
    <2>4. \A i \in 1 .. k : i \in 1 .. k - 1 \/ i = k
      BY <2>1
    <2> QED BY <1>6, <2>3, <2>4
  <1>7. bad \subseteq Nat /\ \A k \in bad : k \in 0 .. N /\ ~Right(k)
    BY <1>2
  <1>8. bad = {}
    <2>1. \A k \in 1 .. N : k - 1 \in 0 .. N /\ ~(k <= k - 1)
      BY <1>2
    <2>2. \A k \in 0 .. N : Right(k) \/ k \in bad
      OBVIOUS
    <2>3. \A k \in 0 .. N : k = 0 \/ k \in 1 .. N
      BY <1>2
    <2> HIDE DEF bad, Right
    <2> SUFFICES ASSUME bad # {} PROVE FALSE
      OBVIOUS
    <2>4. PICK k \in bad : \A m \in bad : k <= m
      BY <1>7, LeastNat
    <2>5. k \in 1 .. N
      BY <1>5, <1>7, <2>3, <2>4
    <2>6. k - 1 \notin bad
      BY <2>1, <2>4, <2>5
    <2>7. Right(k - 1)
      BY <2>1, <2>2, <2>5, <2>6
    <2> QED BY <1>6, <1>7, <2>4, <2>5, <2>7
  <1>9. Right(N)
    <2>1. N \in 0 .. N
      BY <1>2
    <2> QED BY <1>8, <2>1
  <1>10. Known(entries) \subseteq Known(merged[N])
    BY <1>2, <1>9 DEF Known, ToSet
  <1> QED BY <1>1, <1>9, <1>10

-----------------------------------------------------------------------------
(* The invariant                                                           *)

\* Contacts: a company has no address; what the catalog made is of the kind
\* of its entry, and a company has the name of its entry.
ContactFields == {"company", "name", "emails", "employer", "of", "gone"}
IsContact(c) ==
  /\ DOMAIN c = ContactFields
  /\ c.of # NoEntry => (c.company <=> c.of.kind = "company")
  /\ CompaniesHaveNoAddress /\ c.company => /\ c.emails = {}
                                            /\ c.of # NoEntry => c.name = c.of.name
AreContacts(cs) == IsSeq(cs) /\ \A c \in DOMAIN cs : IsContact(cs[c])

\* The catalog and the copy of the command that runs.
RunFields == {"cmd", "phase", "doc", "left", "made", "ok", "hit", "org", "todo", "failed"}
PastFields == {"runs", "faults", "removals", "stopped", "lost", "repeated"}
Shapes ==
  /\ DOMAIN run = RunFields /\ DOMAIN past = PastFields
  /\ AreContacts(contacts)
  /\ IsDoc(file, contacts)
  /\ IsDoc(run.doc, contacts)

\* A phase belongs to a command; the entries left are entries of its copy.
Busy == {"find", "org", "write", "ensure", "add"}
Control ==
  /\ run.phase = "" <=> run.cmd = "none"
  /\ run.phase \in {"next"} \cup Busy => run.cmd = "apply"
  /\ run.phase = "list" => run.cmd # "apply"
  /\ IsSeq(run.left) /\ ToSet(run.left) \subseteq DOMAIN run.doc
  /\ run.phase \in Busy => run.left # <<>>
  /\ run.phase = "org" => ~IsCompany
  /\ run.phase \in {"ensure", "add"} => Entry.oo # None
  /\ run.phase = "add" => run.todo \subseteq ToSet(Entry.emails)

\* The copy knows every contact the catalog knows, and those the run has made.
Remembered ==
  /\ run.cmd # "none" => Known(file) \subseteq Known(run.doc)
  /\ run.made \subseteq Known(run.doc)
  /\ run.cmd # "apply" => run.made = {}

\* What the catalog made it remembers, unless the run was stopped or the answer lost.
Accounted ==
  \A c \in DOMAIN contacts :
    contacts[c].of # NoEntry => contacts[c].of \in past.stopped \cup past.lost \cup Known(file) \cup run.made

\* The contact found is the entry's own, or one of its kind; a company is
\* made when there is none with its key.
LookedUp ==
  /\ run.phase \in {"org", "write"} =>
       /\ Entry.oo # None => run.hit = Entry.oo
       /\ run.hit # None => /\ run.hit \in DOMAIN contacts
                            /\ CompaniesHaveNoAddress => IsOf(contacts[run.hit], Entry)
  /\ run.phase = "write" /\ IsCompany /\ run.hit = None =>
       \A c \in Live : contacts[c].company =>
         Keys!CompanyGroupingKey(contacts[c].name) # Keys!CompanyGroupingKey(Entry.name)

CatalogInv == /\ Shapes /\ Control /\ Remembered /\ Accounted /\ LookedUp
              /\ CompaniesHaveNoAddress => MadeOnce /\ CompaniesAreOnce

\* A step loses no id.
SameLosses == /\ past'.stopped = past.stopped
              /\ past'.lost = past.lost /\ past'.repeated = past.repeated

\* Contacts may come, but keep their kind, and companies their names.
LEMMA EntriesStay ==
  ASSUME NEW cs, NEW ds, NEW doc, IsDoc(doc, cs),
         \A c \in DOMAIN cs : /\ c \in DOMAIN ds /\ ds[c].company = cs[c].company
                              /\ CompaniesHaveNoAddress /\ cs[c].company => ds[c].name = cs[c].name
  PROVE  IsDoc(doc, ds)
  BY DEF IsDoc, Entries, IsEntry, IsOf

LEMMA ConcatEntries ==
  ASSUME NEW cs, NEW s, Entries(s, cs), NEW t, Entries(t, cs)
  PROVE  /\ Entries(s \o t, cs)
         /\ Known(s) \subseteq Known(s \o t)
         /\ Known(t) \subseteq Known(s \o t)
  <1> DEFINE u == s \o t
  <1>1. IsSeq(s) /\ IsSeq(t)
    BY DEF Entries
  <1>2. IsSeq(u) /\ ToSet(u) = ToSet(s) \cup ToSet(t)
    BY <1>1, ConcatSeq
  <1> HIDE DEF u
  <1>3. \A x \in ToSet(u) : IsEntry(x, cs)
    BY <1>2 DEF Entries, ToSet
  <1>4. Entries(u, cs)
    BY <1>2, <1>3 DEF Entries, ToSet
  <1> QED BY <1>2, <1>4 DEF Known, u

LEMMA EntriesAt ==
  ASSUME NEW cs, NEW s, Entries(s, cs), NEW places, places \subseteq DOMAIN s
  PROVE  Entries(At(s, places), cs)
  <1>1. /\ IsSeq(At(s, places))
        /\ ToSet(At(s, places)) = {s[i] : i \in places}
    BY AtProperties DEF Entries
  <1>2. \A x \in ToSet(At(s, places)) : IsEntry(x, cs)
    BY <1>1 DEF Entries
  <1> QED BY <1>1, <1>2 DEF Entries, ToSet

LEMMA EntriesFound ==
  ASSUME NEW cs, NEW kind, NEW from, kind = "company" => from \in {"git", "dir"}
  PROVE  Entries(EntriesOf(kind, from), cs)
  <1> DEFINE places == {i \in DOMAIN Disk : Disk[i].from = from}
             cards == At(Disk, places)
             found == EntriesOf(kind, from)
             entry(i) == NewEntry(kind, cards[i].name, cards[i].org, cards[i].emails)
  <1>1. IsSeq(Disk) /\ \A i \in DOMAIN Disk : /\ IsSeq(Disk[i].emails)
                                              /\ Disk[i].from \in {"git", "dir"} => Disk[i].emails = <<>>
    <2>1. /\ IsSeq(Disk)
          /\ \A card \in ToSet(Disk) : /\ IsSeq(card.emails)
                                       /\ card.from \in {"git", "dir"} => card.emails = <<>>
      BY DiskAssumption DEF IsSeq
    <2>2. \A i \in DOMAIN Disk : Disk[i] \in ToSet(Disk)
      BY DEF ToSet
    <2> QED BY <2>1, <2>2
  <1>2. /\ IsSeq(cards) /\ ToSet(cards) = {Disk[i] : i \in places}
    BY <1>1, AtProperties
  <1>3. found = [i \in DOMAIN cards |-> entry(i)]
    BY DEF EntriesOf
  <1>4. ASSUME NEW i \in DOMAIN cards
        PROVE  IsSeq(cards[i].emails) /\ (kind = "company" => cards[i].emails = <<>>)
    <2>1. PICK j \in places : cards[i] = Disk[j]
      BY <1>2 DEF ToSet
    <2> QED BY <1>1, <2>1
  <1>5. ASSUME NEW i \in DOMAIN cards
        PROVE  IsEntry(entry(i), cs)
    <2> HIDE DEF cards
    <2>1. IsSeq(cards[i].emails) /\ (kind = "company" => cards[i].emails = <<>>)
      BY <1>4
    <2> QED BY <2>1 DEF IsEntry, EntryFields, NewEntry, EntryID, None
  <1>6. IsSeq(found)
    <2>1. Len(cards) \in Nat /\ DOMAIN cards = 1 .. Len(cards)
      BY <1>2, SeqShape
    <2>2. found \in [1 .. Len(cards) -> {entry(i) : i \in DOMAIN cards}]
      BY <1>3, <2>1
    <2> QED BY <2>1, <2>2, ShapeIsSeq
  <1> HIDE DEF cards, found, entry
  <1>7. \A i \in DOMAIN found : IsEntry(found[i], cs)
    BY <1>3, <1>5
  <1> QED BY <1>6, <1>7 DEF Entries, found

LEMMA ScansFindEntries ==
  ASSUME NEW cs, NEW mbox
  PROVE  Entries(ScanContactsRoot \o ScanProjectsRoot \o ScanThunderbirdRoot(mbox), cs)
  <1>1. \A from : Entries(EntriesOf("person", from), cs)
    BY EntriesFound
  <1>2. Entries(EntriesOf("company", "git"), cs) /\ Entries(EntriesOf("company", "dir"), cs)
    BY EntriesFound
  <1>3. Entries(ScanContactsRoot, cs)
    <2>1. Entries(EntriesOf("person", "vcf") \o EntriesOf("person", "hint"), cs)
      BY <1>1, ConcatEntries
    <2> QED BY <1>1, <2>1, ConcatEntries DEF ScanContactsRoot
  <1>4. Entries(ScanProjectsRoot, cs)
    BY <1>2, ConcatEntries DEF ScanProjectsRoot
  <1>5. Entries(ScanThunderbirdRoot(mbox), cs)
    <2> DEFINE asked == IF mbox THEN EntriesOf("person", "mbox") ELSE <<>>
               found == EntriesOf("person", "mab") \o asked
               quiet == {i \in DOMAIN found : found[i].emails[1] \notin Noisy}
    <2>1. Entries(<<>>, cs)
      <3>1. <<>> \in Seq({})
        BY EmptySeq
      <3>2. IsSeq(<<>>)
        BY <3>1, AnySeq
      <3> QED BY <3>2, SeqShape DEF Entries
    <2>2. Entries(asked, cs)
      BY <1>1, <2>1
    <2> HIDE DEF asked
    <2>3. Entries(found, cs)
      BY <1>1, <2>2, ConcatEntries
    <2>4. quiet \subseteq DOMAIN found
      OBVIOUS
    <2>5. ScanThunderbirdRoot(mbox) = At(found, quiet)
      BY DEF ScanThunderbirdRoot, asked
    <2> HIDE DEF found, quiet
    <2> QED BY <2>3, <2>4, <2>5, EntriesAt
  <1>6. Entries(ScanContactsRoot \o ScanProjectsRoot, cs)
    BY <1>3, <1>4, ConcatEntries
  <1> QED BY <1>5, <1>6, ConcatEntries

-----------------------------------------------------------------------------
(* match                                                                   *)

LEMMA GreatestLive ==
  ASSUME AreContacts(contacts), NEW S, S \subseteq Live
  PROVE  /\ Greatest(S) = None <=> S = {}
         /\ Greatest(S) # None => Greatest(S) \in S
  <1>1. Len(contacts) \in Nat /\ DOMAIN contacts = 1 .. Len(contacts)
    BY SeqShape DEF AreContacts
  <1>2. S \subseteq 1 .. Len(contacts)
    BY <1>1 DEF Live
  <1> QED BY <1>1, <1>2, GreatestProperties

LEMMA LeastLive ==
  ASSUME AreContacts(contacts), NEW S, S \subseteq Live
  PROVE  /\ Least(S) = None <=> S = {}
         /\ Least(S) # None => Least(S) \in S
  <1>1. Len(contacts) \in Nat /\ DOMAIN contacts = 1 .. Len(contacts)
    BY SeqShape DEF AreContacts
  <1>2. S \subseteq Nat \ {0}
    BY <1>1 DEF Live
  <1> QED BY <1>2, LeastProperties

\* Where companies have no address, an address leads to a person.
LEMMA AddressesLeadToPersons ==
  ASSUME AreContacts(contacts), NEW email, ByEmail(email) # None
  PROVE  /\ ByEmail(email) \in DOMAIN contacts
         /\ CompaniesHaveNoAddress => ~contacts[ByEmail(email)].company
  <1> DEFINE S == {c \in Live : email \in Emails(c)}
  <1>1. S \subseteq Live
    OBVIOUS
  <1>2. ByEmail(email) = Greatest(S)
    BY DEF ByEmail
  <1>3. ByEmail(email) \in S
    <2> HIDE DEF S
    <2> QED BY <1>1, <1>2, GreatestLive
  <1>4. PICK c \in DOMAIN contacts : c = ByEmail(email) /\ contacts[c].emails # {}
    BY <1>3 DEF Live, Emails
  <1> QED BY <1>4 DEF AreContacts, IsContact

LEMMA NamesLeadToTheirKind ==
  ASSUME AreContacts(contacts), NEW e, ByName(e) # None
  PROVE  /\ ByName(e) \in DOMAIN contacts
         /\ IsOf(contacts[ByName(e)], e)
  <1> DEFINE S == {c \in Live : /\ contacts[c].company = (e.kind = "company")
                                /\ e.name # NoName
                                /\ Key(contacts[c].company, contacts[c].name) = Key(e.kind = "company", e.name)}
  <1>1. S \subseteq Live
    OBVIOUS
  <1>2. ByName(e) = Greatest(S)
    BY DEF ByName
  <1>3. ByName(e) \in S
    <2> HIDE DEF S
    <2> QED BY <1>1, <1>2, GreatestLive
  <1>4. PICK c \in DOMAIN contacts :
          /\ c = ByName(e) /\ contacts[c].company = (e.kind = "company")
          /\ Key(contacts[c].company, contacts[c].name) = Key(e.kind = "company", e.name)
    BY <1>3 DEF Live
  <1> QED BY <1>4 DEF IsOf, Key, CompanyKey

\* match leaves an entry its id, and never takes its contact away.
LEMMA MatchedProperties ==
  ASSUME AreContacts(contacts), NEW e, IsEntry(e, contacts)
  PROVE  /\ IsEntry(Matched(e), contacts)
         /\ Matched(e).id = e.id
         /\ e.oo # None => Matched(e).oo # None
  <1> DEFINE m == Matched(e)
  <1>1. DOMAIN e = EntryFields
    BY DEF IsEntry
  <1>2. CASE Hits(e) # {}
    <2>1. LastHit(e) # None /\ \E email \in ToSet(e.emails) : LastHit(e) = ByEmail(email)
      <3>1. Len(e.emails) \in Nat /\ DOMAIN e.emails = 1 .. Len(e.emails)
        BY SeqShape DEF IsEntry
      <3>2. Hits(e) \subseteq 1 .. Len(e.emails)
        BY <3>1 DEF Hits
      <3>3. Greatest(Hits(e)) \in Hits(e)
        BY <1>2, <3>1, <3>2, GreatestProperties
      <3> QED BY <3>3 DEF Hits, LastHit, ToSet
    <2>2. e.kind # "company"
      BY <1>2 DEF IsEntry, Hits
    <2>3. LastHit(e) \in DOMAIN contacts /\ (CompaniesHaveNoAddress => ~contacts[LastHit(e)].company)
      BY <2>1, AddressesLeadToPersons
    <2>4. \E status : m = [e EXCEPT !.status = status, !.oo = LastHit(e)]
      BY <1>2 DEF Matched
    <2>5. /\ DOMAIN m = EntryFields
          /\ m.id = e.id /\ m.kind = e.kind /\ m.name = e.name /\ m.emails = e.emails
          /\ m.oo = LastHit(e)
      BY <1>1, <2>4 DEF EntryFields
    <2> HIDE DEF m
    <2>6. IsEntry(m, contacts)
      BY <2>2, <2>3, <2>5 DEF IsEntry, IsOf
    <2> QED BY <2>1, <2>5, <2>6 DEF m
  <1>3. CASE Hits(e) = {} /\ ByName(e) # None
    <2>1. \A i \in Hits(e) : FALSE
      BY <1>3
    <2>2. m = [e EXCEPT !.status = "exists", !.oo = ByName(e)]
      BY <1>3, <2>1 DEF Matched
    <2>3. /\ DOMAIN m = EntryFields
          /\ m.id = e.id /\ m.kind = e.kind /\ m.name = e.name /\ m.emails = e.emails
          /\ m.oo = ByName(e)
      BY <1>1, <2>2 DEF EntryFields
    <2>4. ByName(e) \in DOMAIN contacts /\ IsOf(contacts[ByName(e)], e)
      BY <1>3, NamesLeadToTheirKind
    <2> HIDE DEF m
    <2>5. IsEntry(m, contacts)
      BY <2>3, <2>4 DEF IsEntry, IsOf
    <2> QED BY <1>3, <2>3, <2>5 DEF m
  <1>4. CASE Hits(e) = {} /\ ByName(e) = None
    <2>1. \A i \in Hits(e) : FALSE
      BY <1>4
    <2>2. \E status : m = [e EXCEPT !.status = status]
      BY <1>4, <2>1 DEF Matched
    <2>3. /\ DOMAIN m = EntryFields
          /\ m.id = e.id /\ m.kind = e.kind /\ m.name = e.name /\ m.emails = e.emails
          /\ m.oo = e.oo
      BY <1>1, <2>2 DEF EntryFields
    <2> HIDE DEF m
    <2>4. IsEntry(m, contacts)
      BY <2>3 DEF IsEntry, IsOf
    <2> QED BY <2>3, <2>4 DEF m
  <1> QED BY <1>2, <1>3, <1>4

-----------------------------------------------------------------------------
(* Steps in general                                                        *)

LEMMA TailSeq ==
  ASSUME NEW s, IsSeq(s), s # <<>>
  PROVE  /\ IsSeq(Tail(s)) /\ ToSet(Tail(s)) \subseteq ToSet(s)
         /\ Head(s) \in ToSet(s)
  <1> DEFINE t == Tail(s)
  <1>1. Len(s) \in Nat /\ Len(s) # 0 /\ DOMAIN s = 1 .. Len(s) /\ s \in Seq(ToSet(s))
    BY SeqShape DEF IsSeq
  <1>2. /\ t \in Seq(ToSet(s))
        /\ Head(s) = s[1]
    BY <1>1, HeadTailProperties
  <1> HIDE DEF t
  <1>3. IsSeq(t) /\ ToSet(t) \subseteq ToSet(s)
    BY <1>2, AnySeq
  <1>4. 1 \in DOMAIN s
    BY <1>1
  <1> QED BY <1>2, <1>3, <1>4 DEF t, ToSet

LEMMA TheEntry ==
  ASSUME CatalogInv, run.left # <<>>
  PROVE  It \in DOMAIN run.doc /\ IsEntry(Entry, contacts)
  <1>1. It \in ToSet(run.left)
    BY TailSeq DEF CatalogInv, Control, It
  <1> QED BY <1>1 DEF CatalogInv, Control, Shapes, IsDoc, Entries, Entry

\* An entry is replaced by one of the same id.
LEMMA EntryReplaced ==
  ASSUME NEW cs, NEW doc, IsDoc(doc, cs), NEW i \in DOMAIN doc,
         NEW e, IsEntry(e, cs), e.id = doc[i].id, doc[i].oo # None => e.oo # None
  PROVE  LET more == [doc EXCEPT ![i] = e]
         IN  /\ IsDoc(more, cs) /\ DOMAIN more = DOMAIN doc /\ more[i] = e
             /\ Known(doc) \subseteq Known(more)
             /\ e.oo # None => e.id \in Known(more)
  <1> DEFINE more == [doc EXCEPT ![i] = e]
  <1>1. /\ IsSeq(more) /\ DOMAIN more = DOMAIN doc
        /\ more[i] = e
        /\ \A j \in DOMAIN doc : j # i => more[j] = doc[j]
    BY ExceptAny DEF IsDoc, Entries
  <1> HIDE DEF more
  <1>2. \A j \in DOMAIN doc : IsEntry(more[j], cs) /\ more[j].id = doc[j].id
                              /\ (doc[j].oo # None => more[j].oo # None)
    BY <1>1 DEF IsDoc, Entries
  <1>3. IsDoc(more, cs)
    BY <1>1, <1>2 DEF IsDoc, Entries, IDsDiffer
  <1>4. Known(doc) \subseteq Known(more)
    <2> SUFFICES ASSUME NEW j \in DOMAIN doc, doc[j].oo # None PROVE doc[j].id \in Known(more)
      BY DEF Known, ToSet
    <2> QED BY <1>1, <1>2, KnownIDs
  <1>5. e.oo # None => e.id \in Known(more)
    BY <1>1, KnownIDs
  <1> QED BY <1>1, <1>3, <1>4, <1>5 DEF more

\* A step that leaves the CRM and the catalog alone keeps the invariant when
\* its own control does and the copy forgets no contact.
LEMMA QuietStep ==
  ASSUME CatalogInv, UNCHANGED <<contacts, file>>,
         DOMAIN run' = RunFields, DOMAIN past' = PastFields, SameLosses,
         run'.cmd = run.cmd, run'.made = run.made,
         IsDoc(run'.doc, contacts), Known(run.doc) \subseteq Known(run'.doc),
         Control', LookedUp'
  PROVE  CatalogInv'
  <1>1. Shapes'
    BY DEF CatalogInv, Shapes
  <1>2. Remembered'
    BY DEF CatalogInv, Remembered
  <1>3. Accounted'
    BY DEF CatalogInv, Accounted, SameLosses
  <1>4. CompaniesHaveNoAddress => (MadeOnce /\ CompaniesAreOnce)'
    BY DEF CatalogInv, MadeOnce, CompaniesAreOnce, Live, SameLosses
  <1> QED BY <1>1, <1>2, <1>3, <1>4 DEF CatalogInv

\* What a request that fails leaves of past.
LEMMA FaultIsCounted ==
  ASSUME CatalogInv, Fault
  PROVE  DOMAIN past' = PastFields /\ SameLosses
  BY DEF CatalogInv, Shapes, Fault, PastFields, SameLosses

\* An entry is left, for an error or because its contact is gone.
LEMMA NextEntry ==
  ASSUME CatalogInv, run.phase \in Busy, UNCHANGED <<contacts, file>>,
         UNCHANGED past \/ Fault,
         \E failed : run' = [run EXCEPT !.phase = "next", !.left = Tail(@), !.hit = None, !.failed = failed]
  PROVE  CatalogInv'
  <1>1. DOMAIN past' = PastFields /\ SameLosses
    BY FaultIsCounted DEF CatalogInv, Shapes, SameLosses
  <1>2. /\ DOMAIN run' = RunFields /\ run'.cmd = run.cmd /\ run'.made = run.made
        /\ run'.doc = run.doc /\ run'.phase = "next" /\ run'.left = Tail(run.left)
    BY DEF CatalogInv, Shapes, RunFields
  <1>3. run.left # <<>> /\ run.cmd = "apply"
    BY DEF CatalogInv, Control, Busy
  <1>4. Control'
    <2>1. IsSeq(run.left) /\ ToSet(run.left) \subseteq DOMAIN run.doc
      BY DEF CatalogInv, Control
    <2>2. IsSeq(run'.left) /\ ToSet(run'.left) \subseteq DOMAIN run'.doc
      BY <1>2, <1>3, <2>1, TailSeq
    <2>3. run'.phase = "next" /\ run'.cmd = "apply"
      BY <1>2, <1>3
    <2> QED BY <2>2, <2>3 DEF Control, Busy
  <1>5. LookedUp'
    BY <1>2 DEF LookedUp
  <1>6. IsDoc(run'.doc, contacts)
    BY <1>2 DEF CatalogInv, Shapes
  <1> QED BY <1>1, <1>2, <1>4, <1>5, <1>6, QuietStep

LEMMA NoKnown == Known(<<>>) = {}
  <1>1. <<>> \in Seq({}) /\ DOMAIN <<>> = {}
    BY EmptySeq
  <1> QED BY <1>1 DEF Known, ToSet

LEMMA EmptyDoc ==
  ASSUME NEW cs PROVE IsDoc(<<>>, cs) /\ IsSeq(<<>>) /\ ToSet(<<>>) = {}
  <1>1. <<>> \in Seq({})
    BY EmptySeq
  <1>2. IsSeq(<<>>)
    BY <1>1, AnySeq
  <1>3. DOMAIN <<>> = {}
    BY <1>2, SeqShape
  <1> QED BY <1>2, <1>3 DEF IsDoc, Entries, IDsDiffer, ToSet

\* The run ends or another begins.
LEMMA RestProperties ==
  /\ DOMAIN AtRest = RunFields
  /\ AtRest.cmd = "none" /\ AtRest.phase = "" /\ AtRest.doc = <<>> /\ AtRest.left = <<>>
  /\ AtRest.made = {}
  BY DEF AtRest, RunFields

-----------------------------------------------------------------------------
(* Commands begin and end                                                  *)

\* A command that does not apply the catalog begins.
LEMMA CommandBegins ==
  ASSUME CatalogInv, NEW cmd, NEW phase, NEW doc, Begin(cmd, phase, doc),
         cmd \notin {"none", "apply"}, phase \notin {"", "next"} \cup Busy,
         IsDoc(doc, contacts), Known(file) \subseteq Known(doc),
         UNCHANGED <<contacts, file>>
  PROVE  CatalogInv'
  <1>1. /\ DOMAIN run' = RunFields /\ run'.cmd = cmd /\ run'.phase = phase /\ run'.doc = doc
        /\ run'.left = <<>> /\ run'.made = {}
    BY RestProperties DEF Begin, RunFields
  <1>2. DOMAIN past' = PastFields /\ SameLosses
    BY DEF CatalogInv, Shapes, Begin, PastFields, SameLosses
  <1>3. run.made = {}
    BY DEF CatalogInv, Remembered, Begin
  <1>4. Shapes'
    BY <1>1, <1>2 DEF CatalogInv, Shapes
  <1>5. Control'
    BY <1>1, EmptyDoc DEF Control, Busy
  <1>6. Remembered'
    BY <1>1 DEF Remembered
  <1>7. Accounted'
    BY <1>1, <1>2, <1>3 DEF CatalogInv, Accounted, SameLosses
  <1>8. LookedUp'
    BY <1>1 DEF LookedUp, Busy
  <1>9. CompaniesHaveNoAddress => (MadeOnce /\ CompaniesAreOnce)'
    BY <1>2 DEF CatalogInv, MadeOnce, CompaniesAreOnce, Live, SameLosses
  <1> QED BY <1>4, <1>5, <1>6, <1>7, <1>8, <1>9 DEF CatalogInv

\* The run is at rest again; what it has made is in the catalog or counted as stopped.
LEMMA CommandEnds ==
  ASSUME CatalogInv, run' = AtRest, UNCHANGED contacts, IsDoc(file', contacts),
         DOMAIN past' = PastFields, past.stopped \subseteq past'.stopped,
         past'.lost = past.lost, past'.repeated = past.repeated,
         Known(file) \subseteq Known(file'), run.made \subseteq past'.stopped \cup Known(file')
  PROVE  CatalogInv'
  <1>1. Shapes'
    BY RestProperties, EmptyDoc DEF CatalogInv, Shapes
  <1>2. Control'
    BY RestProperties, EmptyDoc DEF Control, Busy
  <1>3. Remembered'
    BY RestProperties DEF Remembered
  <1>4. Accounted'
    BY RestProperties DEF CatalogInv, Accounted
  <1>5. LookedUp'
    BY RestProperties DEF LookedUp
  <1>6. CompaniesHaveNoAddress => (MadeOnce /\ CompaniesAreOnce)'
    BY DEF CatalogInv, MadeOnce, CompaniesAreOnce, Live
  <1> QED BY <1>1, <1>2, <1>3, <1>4, <1>5, <1>6 DEF CatalogInv

LEMMA MergeStep ==
  ASSUME CatalogInv, Merge PROVE CatalogInv'
  <1>1. PICK mbox \in BOOLEAN :
          LET found == ScanContactsRoot \o ScanProjectsRoot \o ScanThunderbirdRoot(mbox)
          IN  \/ Begin("merge", "save", MergeDocs(file \o found))
              \/ Begin("merge", "save", MergeDocs(found \o file))
    BY DEF Merge
  <1> DEFINE found == ScanContactsRoot \o ScanProjectsRoot \o ScanThunderbirdRoot(mbox)
  <1>2. Entries(found, contacts)
    BY ScansFindEntries
  <1>3. Begin("merge", "save", MergeDocs(file \o found)) \/ Begin("merge", "save", MergeDocs(found \o file))
    BY <1>1
  <1> HIDE DEF found
  <1>4. Entries(file, contacts)
    BY DEF CatalogInv, Shapes, IsDoc
  <1>5. UNCHANGED <<contacts, file>>
    BY DEF Merge
  <1>6. /\ IsDoc(MergeDocs(file \o found), contacts)
        /\ Known(file) \subseteq Known(MergeDocs(file \o found))
    BY <1>2, <1>4, ConcatEntries, MergeDocsProperties
  <1>7. /\ IsDoc(MergeDocs(found \o file), contacts)
        /\ Known(file) \subseteq Known(MergeDocs(found \o file))
    BY <1>2, <1>4, ConcatEntries, MergeDocsProperties
  <1>8. "merge" \notin {"none", "apply"} /\ "save" \notin {"", "next"} \cup Busy
    BY DEF Busy
  <1> QED BY <1>3, <1>5, <1>6, <1>7, <1>8, CommandBegins

LEMMA MatchStep ==
  ASSUME CatalogInv, Match PROVE CatalogInv'
  <1>1. Begin("match", "list", file) /\ UNCHANGED <<contacts, file>>
    BY DEF Match
  <1>2. "match" \notin {"none", "apply"} /\ "list" \notin {"", "next"} \cup Busy
    BY DEF Busy
  <1>3. IsDoc(file, contacts)
    BY DEF CatalogInv, Shapes
  <1> QED BY <1>1, <1>2, <1>3, CommandBegins

LEMMA SaveStep ==
  ASSUME CatalogInv, Save
  PROVE  CatalogInv' /\ Known(file) \subseteq Known(file')
  <1>1. file' = run.doc /\ run' = AtRest /\ UNCHANGED <<contacts, past>>
    BY DEF Save
  <1>2. run.cmd # "none"
    BY DEF CatalogInv, Control, Save
  <1>3. Known(file) \subseteq Known(file') /\ run.made \subseteq Known(file')
    BY <1>1, <1>2 DEF CatalogInv, Remembered
  <1>4. IsDoc(file', contacts) /\ DOMAIN past' = PastFields /\ SameLosses
    BY <1>1 DEF CatalogInv, Shapes, SameLosses
  <1> QED BY <1>1, <1>3, <1>4, CommandEnds DEF SameLosses

LEMMA StopStep ==
  ASSUME CatalogInv, Stop PROVE CatalogInv'
  <1>1. /\ past' = [past EXCEPT !.stopped = @ \cup run.made]
        /\ run' = AtRest /\ UNCHANGED <<contacts, file>>
    BY DEF Stop
  <1>2. /\ DOMAIN past' = PastFields /\ past'.stopped = past.stopped \cup run.made
        /\ past'.lost = past.lost /\ past'.repeated = past.repeated
    BY <1>1 DEF CatalogInv, Shapes, PastFields
  <1>3. IsDoc(file', contacts)
    BY <1>1 DEF CatalogInv, Shapes
  <1> QED BY <1>1, <1>2, <1>3, CommandEnds

LEMMA ApproveStep ==
  ASSUME CatalogInv, Approve
  PROVE  CatalogInv' /\ Known(file) \subseteq Known(file')
  <1>1. PICK i \in DOMAIN file : file' = [file EXCEPT ![i].approve = ~@]
    BY DEF Approve
  <1>2. run.cmd = "none" /\ UNCHANGED <<contacts, run, past>>
    BY DEF Approve
  <1> DEFINE e == [file[i] EXCEPT !.approve = ~@]
  <1>3. file' = [file EXCEPT ![i] = e]
    BY <1>1
  <1>4. IsEntry(file[i], contacts) /\ IsDoc(file, contacts)
    BY DEF CatalogInv, Shapes, IsDoc, Entries
  <1>5. /\ DOMAIN e = EntryFields
        /\ e.id = file[i].id /\ e.kind = file[i].kind /\ e.name = file[i].name
        /\ e.emails = file[i].emails /\ e.oo = file[i].oo
    BY <1>4 DEF IsEntry, EntryFields
  <1> HIDE DEF e
  <1>6. IsEntry(e, contacts)
    BY <1>4, <1>5 DEF IsEntry, IsOf
  <1>7. IsDoc(file', contacts) /\ Known(file) \subseteq Known(file')
    BY <1>3, <1>4, <1>5, <1>6, EntryReplaced
  <1>8. run.made = {}
    BY <1>2 DEF CatalogInv, Remembered
  <1>9. Shapes'
    BY <1>2, <1>7 DEF CatalogInv, Shapes
  <1>10. Control'
    BY <1>2 DEF CatalogInv, Control, Entry, It
  <1>11. Remembered'
    BY <1>2 DEF CatalogInv, Remembered
  <1>12. Accounted'
    BY <1>2, <1>7 DEF CatalogInv, Accounted
  <1>13. LookedUp'
    BY <1>2 DEF CatalogInv, LookedUp, Control
  <1>14. CompaniesHaveNoAddress => (MadeOnce /\ CompaniesAreOnce)'
    BY <1>2 DEF CatalogInv, MadeOnce, CompaniesAreOnce, Live
  <1> QED BY <1>7, <1>9, <1>10, <1>11, <1>12, <1>13, <1>14 DEF CatalogInv

LEMMA ApplyOrderProperties ==
  ASSUME NEW doc, IsSeq(doc)
  PROVE  IsSeq(ApplyOrder(doc)) /\ ToSet(ApplyOrder(doc)) \subseteq DOMAIN doc
  <1> DEFINE S(kind) == {i \in DOMAIN doc : doc[i].kind = kind}
  <1>1. Len(doc) \in Nat /\ DOMAIN doc = 1 .. Len(doc)
    BY SeqShape
  <1>2. ASSUME NEW kind
        PROVE  IsSeq(InOrder(S(kind))) /\ ToSet(InOrder(S(kind))) \subseteq DOMAIN doc
    <2>1. S(kind) \subseteq 1 .. Len(doc) /\ S(kind) \subseteq DOMAIN doc
      BY <1>1
    <2> DEFINE T == S(kind)
    <2> HIDE DEF T
    <2>2. Cardinality(T) \in Nat /\ InOrder(T) \in [1 .. Cardinality(T) -> T]
      BY <1>1, <2>1, InOrderProperties DEF T
    <2>3. IsSeq(InOrder(T)) /\ ToSet(InOrder(T)) \subseteq T
      BY <2>2, ShapeIsSeq
    <2> QED BY <2>1, <2>3 DEF T
  <1>3. ApplyOrder(doc) = InOrder(S("company")) \o InOrder(S("person"))
    BY DEF ApplyOrder
  <1> HIDE DEF S
  <1> QED BY <1>2, <1>3, ConcatSeq

LEMMA ApplyStep ==
  ASSUME CatalogInv, Apply PROVE CatalogInv'
  <1>1. /\ run' = [AtRest EXCEPT !.cmd = "apply", !.phase = "next", !.doc = file, !.left = ApplyOrder(file)]
        /\ past' = [past EXCEPT !.runs = @ + 1]
        /\ run.cmd = "none" /\ UNCHANGED <<contacts, file>>
    BY DEF Apply
  <1>2. /\ DOMAIN run' = RunFields /\ run'.cmd = "apply" /\ run'.phase = "next"
        /\ run'.doc = file /\ run'.left = ApplyOrder(file) /\ run'.made = {}
    BY <1>1, RestProperties DEF RunFields
  <1>3. DOMAIN past' = PastFields /\ SameLosses
    BY <1>1 DEF CatalogInv, Shapes, PastFields, SameLosses
  <1>4. run.made = {}
    BY <1>1 DEF CatalogInv, Remembered
  <1>5. IsSeq(run'.left) /\ ToSet(run'.left) \subseteq DOMAIN run'.doc
    BY <1>2, ApplyOrderProperties DEF CatalogInv, Shapes, IsDoc, Entries
  <1>6. Shapes'
    BY <1>1, <1>2, <1>3 DEF CatalogInv, Shapes
  <1>7. Control'
    BY <1>2, <1>5 DEF Control, Busy
  <1>8. Remembered'
    BY <1>1, <1>2 DEF Remembered
  <1>9. Accounted'
    BY <1>1, <1>2, <1>3, <1>4 DEF CatalogInv, Accounted, SameLosses
  <1>10. LookedUp'
    BY <1>2 DEF LookedUp
  <1>11. CompaniesHaveNoAddress => (MadeOnce /\ CompaniesAreOnce)'
    BY <1>1, <1>3 DEF CatalogInv, MadeOnce, CompaniesAreOnce, Live, SameLosses
  <1> QED BY <1>6, <1>7, <1>8, <1>9, <1>10, <1>11 DEF CatalogInv

LEMMA MatchAgainstStep ==
  ASSUME CatalogInv, MatchAgainstOO PROVE CatalogInv'
  <1>1. run.phase = "list" /\ UNCHANGED <<contacts, file>>
    BY DEF MatchAgainstOO
  <1>2. CASE /\ run' = [run EXCEPT !.phase = "save", !.doc = [i \in DOMAIN @ |-> Matched(@[i])]]
             /\ UNCHANGED past
    <2> DEFINE doc == [i \in DOMAIN run.doc |-> Matched(run.doc[i])]
    <2>1. /\ DOMAIN run' = RunFields /\ run'.cmd = run.cmd /\ run'.phase = "save"
          /\ run'.doc = doc /\ run'.left = run.left /\ run'.made = run.made
      BY <1>2 DEF CatalogInv, Shapes, RunFields
    <2>2. IsDoc(run.doc, contacts) /\ AreContacts(contacts)
      BY DEF CatalogInv, Shapes
    <2>3. \A i \in DOMAIN run.doc : /\ IsEntry(doc[i], contacts)
                                    /\ doc[i].id = run.doc[i].id
                                    /\ run.doc[i].oo # None => doc[i].oo # None
      BY <2>2, MatchedProperties DEF IsDoc, Entries
    <2>4. IsSeq(doc)
      <3>1. Len(run.doc) \in Nat /\ DOMAIN run.doc = 1 .. Len(run.doc)
        BY <2>2, SeqShape DEF IsDoc, Entries
      <3>2. doc \in [1 .. Len(run.doc) -> {Matched(run.doc[i]) : i \in DOMAIN run.doc}]
        BY <3>1
      <3> HIDE DEF doc
      <3> QED BY <3>1, <3>2, ShapeIsSeq
    <2>5. DOMAIN doc = DOMAIN run.doc
      OBVIOUS
    <2> HIDE DEF doc
    <2>6. IsDoc(doc, contacts)
      BY <2>2, <2>3, <2>4, <2>5 DEF IsDoc, Entries, IDsDiffer
    <2>7. Known(run.doc) \subseteq Known(doc)
      <3> SUFFICES ASSUME NEW i \in DOMAIN run.doc, run.doc[i].oo # None PROVE run.doc[i].id \in Known(doc)
        BY DEF Known, ToSet
      <3> QED BY <2>3, <2>5, KnownIDs
    <2>8. Control'
      BY <1>1, <2>1, <2>5 DEF CatalogInv, Control, Busy
    <2>9. LookedUp'
      BY <2>1 DEF LookedUp
    <2>10. DOMAIN past' = PastFields /\ SameLosses
      BY <1>2 DEF CatalogInv, Shapes, SameLosses
    <2> QED BY <1>1, <2>1, <2>6, <2>7, <2>8, <2>9, <2>10, QuietStep
  <1>3. CASE Fault /\ run' = AtRest
    <2>1. DOMAIN past' = PastFields /\ SameLosses
      BY <1>3, FaultIsCounted DEF SameLosses
    <2>2. run.cmd # "apply" => run.made = {}
      BY DEF CatalogInv, Remembered
    <2>3. run.made \subseteq Known(file) \cup past.stopped
      BY <1>1, <2>2 DEF CatalogInv, Control
    <2>4. IsDoc(file', contacts)
      BY <1>1 DEF CatalogInv, Shapes
    <2> QED BY <1>1, <1>3, <2>1, <2>3, <2>4, CommandEnds DEF SameLosses
  <1> QED BY <1>2, <1>3 DEF MatchAgainstOO

-----------------------------------------------------------------------------
(* apply, up to the contact an entry is found as                           *)

LEMMA ApplyApprovedStep ==
  ASSUME CatalogInv, ApplyApproved PROVE CatalogInv'
  <1>1. run.phase = "next" /\ run.cmd = "apply" /\ UNCHANGED <<contacts, file, past>>
    BY DEF ApplyApproved, CatalogInv, Control
  <1>2. DOMAIN run = RunFields /\ DOMAIN past' = PastFields /\ SameLosses
    BY <1>1 DEF CatalogInv, Shapes, SameLosses
  <1>3. IsDoc(run.doc, contacts) /\ IsSeq(run.left) /\ ToSet(run.left) \subseteq DOMAIN run.doc
    BY DEF CatalogInv, Shapes, Control
  <1>4. CASE run.left = <<>>
    <2>1. run' = [run EXCEPT !.phase = "save"]
      BY <1>4 DEF ApplyApproved, Goto
    <2>2. /\ DOMAIN run' = RunFields /\ run'.cmd = run.cmd /\ run'.phase = "save"
          /\ run'.doc = run.doc /\ run'.left = run.left /\ run'.made = run.made
      BY <1>2, <2>1 DEF RunFields
    <2>3. Control'
      BY <1>1, <1>3, <2>2 DEF Control, Busy
    <2>4. LookedUp'
      BY <2>2 DEF LookedUp
    <2> QED BY <1>1, <1>2, <1>3, <2>2, <2>3, <2>4, QuietStep
  <1>5. CASE run.left # <<>> /\ (~Entry.approve \/ Entry.status = "conflict")
    <2>1. run' = [run EXCEPT !.left = Tail(@)]
      BY <1>5 DEF ApplyApproved
    <2>2. /\ DOMAIN run' = RunFields /\ run'.cmd = run.cmd /\ run'.phase = "next"
          /\ run'.doc = run.doc /\ run'.left = Tail(run.left) /\ run'.made = run.made
      BY <1>1, <1>2, <2>1 DEF RunFields
    <2>3. IsSeq(run'.left) /\ ToSet(run'.left) \subseteq DOMAIN run'.doc
      BY <1>3, <1>5, <2>2, TailSeq
    <2>4. Control'
      BY <1>1, <2>2, <2>3 DEF Control, Busy
    <2>5. LookedUp'
      BY <2>2 DEF LookedUp
    <2> QED BY <1>1, <1>2, <1>3, <2>2, <2>4, <2>5, QuietStep
  <1>6. CASE run.left # <<>> /\ run' = [run EXCEPT !.phase = "find", !.doc[It].name = Name]
    <2> DEFINE e == [Entry EXCEPT !.name = Name]
    <2>1. It \in DOMAIN run.doc /\ IsEntry(Entry, contacts)
      BY <1>6, TheEntry
    <2>2. /\ DOMAIN run' = RunFields /\ run'.cmd = run.cmd /\ run'.phase = "find"
          /\ run'.doc = [run.doc EXCEPT ![It] = e] /\ run'.left = run.left /\ run'.made = run.made
      BY <1>2, <1>6 DEF RunFields, Entry
    <2>3. /\ DOMAIN e = EntryFields
          /\ e.id = Entry.id /\ e.kind = Entry.kind /\ e.emails = Entry.emails /\ e.oo = Entry.oo
          /\ e.name = Name
      BY <2>1 DEF IsEntry, EntryFields
    <2>4. e.kind = "company" => e.name = Entry.name
      BY <2>3 DEF Name, IsCompany
    <2> HIDE DEF e
    <2>5. IsEntry(e, contacts)
      BY <2>1, <2>3, <2>4 DEF IsEntry, IsOf
    <2>6. /\ IsDoc(run'.doc, contacts) /\ DOMAIN run'.doc = DOMAIN run.doc
          /\ Known(run.doc) \subseteq Known(run'.doc)
      BY <1>3, <2>1, <2>2, <2>3, <2>5, EntryReplaced DEF Entry
    <2>7. Control'
      BY <1>1, <1>3, <1>6, <2>2, <2>6 DEF Control, Busy
    <2>8. LookedUp'
      BY <2>2 DEF LookedUp
    <2> QED BY <1>1, <1>2, <2>2, <2>6, <2>7, <2>8, QuietStep
  <1> QED BY <1>4, <1>5, <1>6 DEF ApplyApproved

\* What is found is there and of the kind of the entry; a company that is
\* not found is none of those there.
LEMMA LookupProperties ==
  ASSUME AreContacts(contacts)
  PROVE  /\ Lookup # None => Lookup \in Live /\ IsOf(contacts[Lookup], Entry)
         /\ IsCompany /\ Lookup = None =>
              \A c \in Live : contacts[c].company =>
                Keys!CompanyGroupingKey(contacts[c].name) # Keys!CompanyGroupingKey(Entry.name)
  <1>1. CASE IsCompany
    <2> DEFINE S == {c \in Live : contacts[c].company /\
                       Keys!CompanyGroupingKey(contacts[c].name) = Keys!CompanyGroupingKey(Entry.name)}
    <2>1. Lookup = Least(S)
      BY <1>1 DEF Lookup, FindCompany, Name
    <2>2. S \subseteq Live
      OBVIOUS
    <2>3. (Lookup = None <=> S = {}) /\ (Lookup # None => Lookup \in S)
      <3> HIDE DEF S
      <3> QED BY <2>1, <2>2, LeastLive
    <2> QED BY <1>1, <2>3 DEF IsOf, IsCompany, CompanyKey
  <1>2. CASE ~IsCompany
    <2>1. \E S : Lookup = Least(S) /\ S \subseteq {c \in Live : ~contacts[c].company}
      <3>1. CASE Entry.emails # <<>>
        BY <1>2, <3>1 DEF Lookup, FindPersonByEmail
      <3>2. CASE Entry.emails = <<>>
        BY <1>2, <3>2 DEF Lookup, FindPerson
      <3> QED BY <3>1, <3>2
    <2>2. PICK S : Lookup = Least(S) /\ S \subseteq {c \in Live : ~contacts[c].company}
      BY <2>1
    <2>3. S \subseteq Live
      BY <2>2
    <2>4. Lookup # None => Lookup \in S
      BY <2>2, <2>3, LeastLive
    <2> QED BY <1>2, <2>2, <2>4 DEF IsOf, IsCompany
  <1> QED BY <1>1, <1>2

\* The entry at hand with a contact of its kind.
LEMMA EntryWithContact ==
  ASSUME NEW cs, NEW e, IsEntry(e, cs), NEW c,
         c # None => c \in DOMAIN cs /\ (CompaniesHaveNoAddress => IsOf(cs[c], e))
  PROVE  /\ IsEntry(WithContact(e, c), cs)
         /\ WithContact(e, c).id = e.id /\ WithContact(e, c).kind = e.kind
         /\ WithContact(e, c).name = e.name /\ WithContact(e, c).emails = e.emails
         /\ WithContact(e, c).oo = c
  <1> DEFINE f == WithContact(e, c)
  <1>1. /\ DOMAIN f = EntryFields
        /\ f.id = e.id /\ f.kind = e.kind /\ f.name = e.name /\ f.emails = e.emails /\ f.oo = c
    BY DEF WithContact, IsEntry, EntryFields
  <1> HIDE DEF f
  <1>2. IsEntry(f, cs)
    BY <1>1 DEF IsEntry, IsOf
  <1> QED BY <1>1, <1>2 DEF f

LEMMA FindStep ==
  ASSUME CatalogInv, Find PROVE CatalogInv'
  <1>1. run.phase = "find" /\ UNCHANGED <<contacts, file>> /\ run.phase \in Busy
    BY DEF Find, Busy
  <1>2. CASE NotThere /\ UNCHANGED past
    <2>1. run' = [run EXCEPT !.phase = "next", !.left = Tail(@), !.hit = None, !.failed = @]
      BY <1>2 DEF NotThere, CatalogInv, Shapes, RunFields
    <2> QED BY <1>1, <1>2, <2>1, NextEntry
  <1>3. CASE NoteError
    BY <1>1, <1>3, NextEntry DEF NoteError, Note
  <1>4. CASE /\ run' = [run EXCEPT !.hit = IF Entry.oo = None THEN Lookup ELSE Entry.oo,
                                   !.phase = IF IsCompany THEN "write" ELSE "org"]
             /\ UNCHANGED past
    <2>1. /\ DOMAIN run = RunFields /\ DOMAIN past' = PastFields /\ SameLosses
          /\ AreContacts(contacts) /\ IsDoc(run.doc, contacts)
      BY <1>4 DEF CatalogInv, Shapes, SameLosses
    <2>2. /\ run.cmd = "apply" /\ run.left # <<>>
          /\ IsSeq(run.left) /\ ToSet(run.left) \subseteq DOMAIN run.doc
      BY <1>1 DEF CatalogInv, Control
    <2>3. IsEntry(Entry, contacts)
      BY <2>2, TheEntry
    <2>4. /\ DOMAIN run' = RunFields /\ run'.cmd = run.cmd
          /\ run'.phase = IF IsCompany THEN "write" ELSE "org"
          /\ run'.doc = run.doc /\ run'.left = run.left /\ run'.made = run.made
          /\ run'.hit = IF Entry.oo = None THEN Lookup ELSE Entry.oo
      BY <1>4, <2>1 DEF RunFields
    <2>5. Lookup # None => Lookup \in DOMAIN contacts /\ IsOf(contacts[Lookup], Entry)
      BY <2>1, LookupProperties DEF Live
    <2>6. Entry' = Entry /\ It' = It /\ Live' = Live /\ (IsCompany' <=> IsCompany)
      BY <1>1, <2>4 DEF Entry, It, Live, IsCompany
    <2>7. Control'
      BY <1>1, <2>2, <2>4, <2>6 DEF Control, Busy
    <2>8. LookedUp'
      <3>1. run'.hit = None => Entry.oo = None /\ Lookup = None
        BY <2>4
      <3>2. run'.hit # None => /\ run'.hit \in DOMAIN contacts
                               /\ CompaniesHaveNoAddress => IsOf(contacts[run'.hit], Entry)
        BY <2>3, <2>4, <2>5 DEF IsEntry
      <3>3. IsCompany /\ run'.hit = None =>
              \A c \in Live : contacts[c].company =>
                Keys!CompanyGroupingKey(contacts[c].name) # Keys!CompanyGroupingKey(Entry.name)
        BY <2>1, <3>1, LookupProperties
      <3> QED BY <1>1, <2>4, <2>6, <3>2, <3>3 DEF LookedUp
    <2> QED BY <1>1, <2>1, <2>4, <2>7, <2>8, QuietStep
  <1> QED BY <1>2, <1>3, <1>4 DEF Find

LEMMA FindOrgStep ==
  ASSUME CatalogInv, FindOrg PROVE CatalogInv'
  <1>1. run.phase = "org" /\ run.phase \in Busy /\ UNCHANGED <<contacts, file>>
    BY DEF FindOrg, Busy
  <1>2. DOMAIN run = RunFields /\ IsDoc(run.doc, contacts)
    BY DEF CatalogInv, Shapes
  <1>3. /\ DOMAIN run' = RunFields /\ run'.phase = "write" /\ run'.cmd = run.cmd
        /\ run'.doc = run.doc /\ run'.left = run.left /\ run'.made = run.made /\ run'.hit = run.hit
    BY <1>2 DEF FindOrg, RunFields
  <1>4. DOMAIN past' = PastFields /\ SameLosses
    BY FaultIsCounted DEF FindOrg, CatalogInv, Shapes, SameLosses
  <1>5. Control'
    BY <1>1, <1>3 DEF CatalogInv, Control, Busy
  <1>6. LookedUp'
    <2>1. Entry' = Entry
      BY <1>3 DEF Entry, It
    <2>2. ~IsCompany
      BY <1>1 DEF CatalogInv, Control
    <2>3. ~IsCompany'
      BY <2>1, <2>2 DEF IsCompany
    <2> QED BY <1>1, <1>3, <2>1, <2>3 DEF CatalogInv, LookedUp
  <1> QED BY <1>1, <1>2, <1>3, <1>4, <1>5, <1>6, QuietStep

-----------------------------------------------------------------------------
(* apply: what is written to the CRM                                       *)

\* Contacts change in what the catalog does not go by.
LEMMA ContactsChange ==
  ASSUME CatalogInv, AreContacts(contacts'), DOMAIN contacts' = DOMAIN contacts,
         \A c \in DOMAIN contacts :
           /\ contacts'[c].company = contacts[c].company
           /\ contacts'[c].of = contacts[c].of
           /\ contacts[c].gone => contacts'[c].gone
           /\ CompaniesHaveNoAddress /\ contacts[c].company => contacts'[c].name = contacts[c].name,
         UNCHANGED file, DOMAIN past' = PastFields, SameLosses,
         DOMAIN run' = RunFields, run'.cmd = run.cmd, run'.made = run.made,
         IsDoc(run'.doc, contacts), Known(run.doc) \subseteq Known(run'.doc),
         Control', LookedUp'
  PROVE  CatalogInv'
  <1>1. IsDoc(file, contacts') /\ IsDoc(run'.doc, contacts')
    BY EntriesStay DEF CatalogInv, Shapes
  <1>2. Shapes'
    BY <1>1 DEF CatalogInv, Shapes
  <1>3. Remembered'
    BY DEF CatalogInv, Remembered
  <1>4. Accounted'
    BY DEF CatalogInv, Accounted, SameLosses
  <1>5. ASSUME CompaniesHaveNoAddress PROVE MadeOnce'
    BY <1>5 DEF CatalogInv, MadeOnce, SameLosses
  <1>6. ASSUME CompaniesHaveNoAddress PROVE CompaniesAreOnce'
    <2>1. Live' \subseteq Live
      BY DEF Live
    <2>2. CompaniesAreOnce /\ Live \subseteq DOMAIN contacts
      BY <1>6 DEF CatalogInv, Live
    <2> QED BY <1>6, <2>1, <2>2 DEF CompaniesAreOnce, SameLosses
  <1> QED BY <1>2, <1>3, <1>4, <1>5, <1>6 DEF CatalogInv

\* One contact changes in what the catalog does not go by.
LEMMA ContactChanges ==
  ASSUME CatalogInv, NEW c \in DOMAIN contacts, NEW d, contacts' = [contacts EXCEPT ![c] = d],
         DOMAIN d = ContactFields, d.company = contacts[c].company, d.of = contacts[c].of,
         d.gone = contacts[c].gone,
         CompaniesHaveNoAddress /\ d.company => d.name = contacts[c].name /\ d.emails = contacts[c].emails,
         UNCHANGED file, DOMAIN past' = PastFields, SameLosses,
         DOMAIN run' = RunFields, run'.cmd = run.cmd, run'.made = run.made,
         IsDoc(run'.doc, contacts), Known(run.doc) \subseteq Known(run'.doc),
         Control', LookedUp'
  PROVE  CatalogInv'
  <1>1. AreContacts(contacts)
    BY DEF CatalogInv, Shapes
  <1>2. /\ IsSeq(contacts') /\ DOMAIN contacts' = DOMAIN contacts /\ contacts'[c] = d
        /\ \A i \in DOMAIN contacts : i # c => contacts'[i] = contacts[i]
    BY <1>1, ExceptAny DEF AreContacts
  <1>3. IsContact(contacts[c])
    BY <1>1 DEF AreContacts
  <1>4. IsContact(d)
    BY <1>3 DEF IsContact
  <1>5. AreContacts(contacts')
    BY <1>1, <1>2, <1>4 DEF AreContacts
  <1>6. \A i \in DOMAIN contacts :
           /\ contacts'[i].company = contacts[i].company
           /\ contacts'[i].of = contacts[i].of
           /\ contacts[i].gone => contacts'[i].gone
           /\ CompaniesHaveNoAddress /\ contacts[i].company => contacts'[i].name = contacts[i].name
    BY <1>2
  <1> QED BY <1>2, <1>5, <1>6, ContactsChange

\* The entry keeps the contact that was found, or an error is noted.
Kept == \E org, failed : run' = [run EXCEPT !.phase = "ensure", !.hit = None, !.org = org,
                                    !.doc[It] = WithContact(@, run.hit), !.failed = failed]
KeptOrNoted == Kept \/ Note

\* A person is written.
LEMMA UpdateStep ==
  ASSUME CatalogInv, run.phase = "write", ~IsCompany, run.hit \in Live, NEW employer, Update(employer),
         UNCHANGED file, DOMAIN past' = PastFields, SameLosses, KeptOrNoted
  PROVE  CatalogInv'
  <1> DEFINE c == run.hit
             d == [[contacts[c] EXCEPT !.name = Name] EXCEPT !.employer = employer]
             e == WithContact(Entry, c)
  <1>1. /\ c \in DOMAIN contacts /\ AreContacts(contacts) /\ DOMAIN run = RunFields
        /\ IsDoc(file, contacts) /\ IsDoc(run.doc, contacts)
    BY DEF CatalogInv, Shapes, Live
  <1>2. IsContact(contacts[c]) /\ DOMAIN contacts[c] = ContactFields
    BY <1>1 DEF AreContacts, IsContact
  <1>3. contacts' = [contacts EXCEPT ![c] = d]
    BY <1>1 DEF Update
  <1>4. /\ DOMAIN d = ContactFields /\ d.company = contacts[c].company /\ d.of = contacts[c].of
        /\ d.gone = contacts[c].gone
    BY <1>2 DEF ContactFields
  <1>5. run.left # <<>> /\ run.cmd = "apply" /\ IsSeq(run.left) /\ ToSet(run.left) \subseteq DOMAIN run.doc
    BY DEF CatalogInv, Control, Busy
  <1>6. It \in DOMAIN run.doc /\ IsEntry(Entry, contacts)
    BY <1>5, TheEntry
  <1>7. c # None
    <2>1. Len(contacts) \in Nat /\ DOMAIN contacts = 1 .. Len(contacts)
      BY <1>1, SeqShape DEF AreContacts
    <2> QED BY <1>1, <2>1 DEF None
  <1>8. /\ CompaniesHaveNoAddress => IsOf(contacts[c], Entry)
        /\ Entry.oo # None => c = Entry.oo
    BY <1>7 DEF CatalogInv, LookedUp
  <1>9. CompaniesHaveNoAddress => ~d.company
    BY <1>4, <1>8 DEF IsOf, IsCompany
  <1> HIDE DEF d
  <1>10. CASE Note
    <2>1. /\ DOMAIN run' = RunFields /\ run'.doc = run.doc /\ run'.cmd = run.cmd /\ run'.made = run.made
          /\ run'.phase = "next" /\ run'.left = Tail(run.left)
      BY <1>1, <1>10 DEF Note, RunFields
    <2>2. IsSeq(run'.left) /\ ToSet(run'.left) \subseteq DOMAIN run'.doc
      BY <1>5, <2>1, TailSeq
    <2>3. Control'
      BY <1>5, <2>1, <2>2 DEF Control, Busy
    <2>4. LookedUp'
      BY <2>1 DEF LookedUp
    <2> HIDE DEF c
    <2> QED BY <1>1, <1>3, <1>4, <1>9, <2>1, <2>3, <2>4, ContactChanges
  <1>11. CASE Kept
    <2>1. /\ DOMAIN run' = RunFields /\ run'.cmd = run.cmd /\ run'.made = run.made
          /\ run'.phase = "ensure" /\ run'.left = run.left
          /\ run'.doc = [run.doc EXCEPT ![It] = e]
      BY <1>1, <1>11 DEF Kept, RunFields, Entry
    <2>2. /\ IsEntry(e, contacts) /\ e.id = Entry.id /\ e.oo = c
      BY <1>1, <1>6, <1>8, EntryWithContact
    <2> HIDE DEF e
    <2>3. /\ IsDoc(run'.doc, contacts) /\ DOMAIN run'.doc = DOMAIN run.doc /\ run'.doc[It] = e
          /\ Known(run.doc) \subseteq Known(run'.doc)
      BY <1>1, <1>6, <1>7, <2>1, <2>2, EntryReplaced DEF Entry
    <2>4. Control'
      BY <1>5, <1>7, <2>1, <2>2, <2>3 DEF Control, Busy, Entry, It
    <2>5. LookedUp'
      BY <2>1 DEF LookedUp
    <2> HIDE DEF c
    <2> QED BY <1>1, <1>3, <1>4, <1>9, <2>1, <2>3, <2>4, <2>5, ContactChanges
  <1> QED BY <1>10, <1>11 DEF KeptOrNoted

\* A request makes n contacts of the entry at hand: old ones stay, and new
\* ones come after them.
LEMMA CopiesAreNew ==
  ASSUME AreContacts(contacts), NEW n \in Nat, Make(n)
  PROVE  /\ IsSeq(contacts')
         /\ \A i \in DOMAIN contacts : i \in DOMAIN contacts' /\ contacts'[i] = contacts[i]
         /\ \A j \in DOMAIN contacts' : j \notin DOMAIN contacts =>
              /\ contacts'[j] = Requested /\ n > 0
              /\ \A i \in DOMAIN contacts : i < j
              /\ \A i \in DOMAIN contacts' : i \notin DOMAIN contacts /\ i < j => n > 1
         /\ \A i \in DOMAIN contacts : ~(Len(contacts) + n < i)
         /\ n > 0 => /\ Len(contacts) + n \in DOMAIN contacts' \ DOMAIN contacts
                     /\ contacts'[Len(contacts) + n] = Requested
  <1> DEFINE copies == [k \in 1 .. n |-> Requested]
             more == contacts \o copies
  <1>1. copies \in [1 .. n -> {Requested}]
    OBVIOUS
  <1>2. IsSeq(copies) /\ Len(copies) = n /\ \A k \in 1 .. n : copies[k] = Requested
    BY <1>1, ShapeIsSeq
  <1>3. contacts' = more
    BY DEF Make
  <1>4. IsSeq(contacts) /\ Len(contacts) \in Nat /\ DOMAIN contacts = 1 .. Len(contacts)
    BY SeqShape DEF AreContacts
  <1> HIDE DEF copies
  <1>5. /\ IsSeq(more) /\ Len(more) = Len(contacts) + n
        /\ \A i \in 1 .. Len(contacts) : more[i] = contacts[i]
        /\ \A k \in 1 .. n : more[Len(contacts) + k] = Requested
    <2>1. IsSeq(contacts) /\ IsSeq(copies)
      BY <1>2, <1>4
    <2>2. /\ IsSeq(more) /\ Len(more) = Len(contacts) + Len(copies)
          /\ \A i \in 1 .. Len(contacts) : more[i] = contacts[i]
          /\ \A k \in 1 .. Len(copies) : more[Len(contacts) + k] = copies[k]
      BY <2>1, ConcatSeq
    <2> HIDE DEF more
    <2> QED BY <1>2, <2>2
  <1> HIDE DEF more
  <1> DEFINE L == Len(contacts)
  <1>6. DOMAIN more = 1 .. L + n
    BY <1>5, SeqShape
  <1> HIDE DEF L
  <1>7. L \in Nat /\ DOMAIN contacts = 1 .. L
    BY <1>4 DEF L
  <1>8. ASSUME NEW j \in DOMAIN more, j \notin DOMAIN contacts
        PROVE  j - L \in 1 .. n /\ j = L + (j - L)
    BY <1>6, <1>7, <1>8
  <1>9. ASSUME NEW j \in DOMAIN more, j \notin DOMAIN contacts
        PROVE  more[j] = Requested
    <2>1. more[L + (j - L)] = Requested
      BY <1>5, <1>8, <1>9 DEF L
    <2> QED BY <1>8, <1>9, <2>1
  <1>10. ASSUME NEW j \in DOMAIN more, j \notin DOMAIN contacts
         PROVE  /\ n > 0 /\ \A i \in DOMAIN contacts : i < j
                /\ \A i \in DOMAIN more : i \notin DOMAIN contacts /\ i < j => n > 1
    BY <1>6, <1>7, <1>10
  <1>11. \A i \in DOMAIN contacts : i \in DOMAIN more /\ ~(L + n < i)
    BY <1>6, <1>7
  <1>12. n > 0 => L + n \in DOMAIN more \ DOMAIN contacts
    BY <1>6, <1>7
  <1> QED BY <1>3, <1>4, <1>5, <1>9, <1>10, <1>11, <1>12 DEF L

\* What a request that makes contacts needs of the rest of its step: the
\* entry keeps one of them or loses them, and a twin is counted.
LEMMA MakeStep ==
  ASSUME CatalogInv, run.phase = "write", run.hit = None, NEW n \in Nat, Make(n), UNCHANGED file,
         DOMAIN past' = PastFields, past'.stopped = past.stopped,
         past.lost \subseteq past'.lost, past.repeated \subseteq past'.repeated,
         n > 0 => Entry.id \in past'.lost \cup run'.made,
         n > 1 => Entry.id \in past'.repeated,
         DOMAIN run' = RunFields, run'.cmd = run.cmd, run.made \subseteq run'.made,
         run'.made \subseteq Known(run'.doc),
         IsDoc(run'.doc, contacts'), Known(run.doc) \subseteq Known(run'.doc),
         Control', LookedUp'
  PROVE  CatalogInv'
  <1>1. /\ AreContacts(contacts) /\ DOMAIN run = RunFields
        /\ IsDoc(file, contacts) /\ IsDoc(run.doc, contacts)
    BY DEF CatalogInv, Shapes
  <1>2. run.left # <<>> /\ run.cmd = "apply"
    BY DEF CatalogInv, Control, Busy
  <1>3. It \in DOMAIN run.doc /\ IsEntry(Entry, contacts)
    BY <1>2, TheEntry
  <1>4. /\ Requested.company = IsCompany /\ Requested.name = Name /\ Requested.emails = {}
        /\ Requested.of = Entry.id /\ Requested.gone = FALSE /\ DOMAIN Requested = ContactFields
    BY DEF Requested, Contact, ContactFields
  <1>5. IsCompany => Name = Entry.name /\ Entry.name = Entry.id.name
    BY <1>3 DEF Name, IsCompany, IsEntry
  <1>6. Entry.id.kind = Entry.kind
    BY <1>3 DEF IsEntry
  <1>7. /\ IsSeq(contacts')
        /\ \A i \in DOMAIN contacts : i \in DOMAIN contacts' /\ contacts'[i] = contacts[i]
        /\ \A j \in DOMAIN contacts' : j \notin DOMAIN contacts =>
             /\ contacts'[j] = Requested /\ n > 0
             /\ \A i \in DOMAIN contacts : i < j
             /\ \A i \in DOMAIN contacts' : i \notin DOMAIN contacts /\ i < j => n > 1
    BY <1>1, CopiesAreNew
  <1>8. \A i, j \in DOMAIN contacts' : i < j => ~(j < i)
    <2>1. DOMAIN contacts' \subseteq Int
      BY <1>7, SeqShape
    <2> QED BY <2>1
  <1>9. \A i, j \in DOMAIN contacts' : i < j /\ j \in DOMAIN contacts => i \in DOMAIN contacts
    BY <1>7, <1>8
  <1>10. IsContact(Requested)
    BY <1>4, <1>5, <1>6 DEF IsContact, IsCompany
  <1>11. AreContacts(contacts')
    BY <1>1, <1>7, <1>10 DEF AreContacts
  <1>12. IsDoc(file, contacts')
    BY <1>1, <1>7, EntriesStay
  <1>13. Entry.id \notin Known(run.doc)
    <2>1. Entry.oo = None
      BY DEF CatalogInv, LookedUp
    <2> SUFFICES ASSUME NEW k \in DOMAIN run.doc, run.doc[k].id = Entry.id, run.doc[k].oo # None
                 PROVE  FALSE
      BY DEF Known, ToSet
    <2>2. k = It
      BY <1>1, <1>3 DEF IsDoc, IDsDiffer, Entry
    <2> QED BY <2>1, <2>2 DEF Entry
  <1>14. Entry.id \notin Known(file) \cup run.made
    BY <1>2, <1>13 DEF CatalogInv, Remembered
  <1>15. Shapes'
    BY <1>11, <1>12 DEF Shapes
  <1>16. Remembered'
    BY <1>2 DEF CatalogInv, Remembered
  <1>17. Accounted'
    BY <1>4, <1>7 DEF CatalogInv, Accounted
  <1>18. \A i \in DOMAIN contacts : IsCompany /\ contacts[i].company /\ ~contacts[i].gone =>
           Keys!CompanyGroupingKey(contacts[i].name) # Keys!CompanyGroupingKey(Entry.name)
    BY DEF CatalogInv, LookedUp, Live
  <1>19. ASSUME CompaniesHaveNoAddress PROVE MadeOnce'
    <2>1. MadeOnce
      BY <1>19 DEF CatalogInv
    <2>2. ASSUME NEW i \in DOMAIN contacts, contacts[i].of = Entry.id, Entry.id # NoEntry, ~contacts[i].gone
          PROVE  Entry.id \in past.stopped \cup past.lost /\ ~IsCompany
      <3>1. Entry.id \in past.stopped \cup past.lost
        BY <1>14, <2>2 DEF CatalogInv, Accounted
      <3>2. IsContact(contacts[i])
        BY <1>1 DEF AreContacts
      <3>3. IsCompany => contacts[i].company /\ contacts[i].name = Entry.name
        BY <1>5, <1>6, <1>19, <2>2, <3>2 DEF IsContact, IsCompany
      <3> QED BY <1>18, <2>2, <3>1, <3>3
    <2>3. ASSUME NEW i \in DOMAIN contacts', NEW j \in DOMAIN contacts',
                 i < j, contacts'[i].of = contacts'[j].of, contacts'[j].of # NoEntry, ~contacts'[i].gone
          PROVE  \/ contacts'[j].of \in past'.repeated
                 \/ contacts'[j].of \in past'.stopped \cup past'.lost /\ ~contacts'[j].company
      <3>1. CASE j \in DOMAIN contacts
        <4>1. i \in DOMAIN contacts
          BY <1>9, <2>3, <3>1
        <4>2. contacts'[i] = contacts[i] /\ contacts'[j] = contacts[j]
          BY <1>7, <3>1, <4>1
        <4> QED BY <2>1, <2>3, <3>1, <4>1, <4>2 DEF MadeOnce
      <3>2. CASE j \notin DOMAIN contacts /\ i \in DOMAIN contacts
        BY <1>4, <1>7, <2>2, <2>3, <3>2
      <3>3. CASE j \notin DOMAIN contacts /\ i \notin DOMAIN contacts
        BY <1>4, <1>7, <2>3, <3>3
      <3> QED BY <3>1, <3>2, <3>3
    <2> QED BY <2>3 DEF MadeOnce
  <1>20. ASSUME CompaniesHaveNoAddress PROVE CompaniesAreOnce'
    <2>1. CompaniesAreOnce
      BY <1>20 DEF CatalogInv
    <2>2. ASSUME NEW i \in Live', NEW j \in Live',
                 i < j, contacts'[j].of # NoEntry, contacts'[i].company, contacts'[j].company
          PROVE  \/ Keys!CompanyGroupingKey(contacts'[i].name) # Keys!CompanyGroupingKey(contacts'[j].name)
                 \/ contacts'[i].of = contacts'[j].of /\ contacts'[j].of \in past'.repeated
      <3>1. i \in DOMAIN contacts' /\ j \in DOMAIN contacts' /\ ~contacts'[i].gone /\ ~contacts'[j].gone
        BY DEF Live
      <3>2. CASE j \in DOMAIN contacts
        <4>1. i \in DOMAIN contacts
          BY <1>9, <2>2, <3>1, <3>2
        <4>2. contacts'[i] = contacts[i] /\ contacts'[j] = contacts[j]
          BY <1>7, <3>2, <4>1
        <4>3. i \in Live /\ j \in Live
          BY <3>1, <3>2, <4>1, <4>2 DEF Live
        <4> QED BY <2>1, <2>2, <4>2, <4>3 DEF CompaniesAreOnce
      <3>3. CASE j \notin DOMAIN contacts /\ i \in DOMAIN contacts
        BY <1>4, <1>5, <1>7, <1>18, <2>2, <3>1, <3>3
      <3>4. CASE j \notin DOMAIN contacts /\ i \notin DOMAIN contacts
        BY <1>4, <1>7, <2>2, <3>1, <3>4
      <3> QED BY <3>2, <3>3, <3>4
    <2> QED BY <2>2 DEF CompaniesAreOnce
  <1> QED BY <1>15, <1>16, <1>17, <1>19, <1>20 DEF CatalogInv

\* Contacts are made, and the entry keeps the last one.
LEMMA CreateStep ==
  ASSUME CatalogInv, run.phase = "write", run.hit = None, NEW n \in Nat, n > 0, Create(n), UNCHANGED file,
         DOMAIN past' = PastFields, past'.stopped = past.stopped,
         past.lost \subseteq past'.lost, past.repeated \subseteq past'.repeated,
         n > 1 => Entry.id \in past'.repeated
  PROVE  CatalogInv'
  <1> DEFINE c == Len(contacts) + n
             e == WithContact(Entry, c)
  <1>1. /\ AreContacts(contacts) /\ DOMAIN run = RunFields
        /\ IsDoc(file, contacts) /\ IsDoc(run.doc, contacts)
    BY DEF CatalogInv, Shapes
  <1>2. run.left # <<>> /\ run.cmd = "apply" /\ IsSeq(run.left) /\ ToSet(run.left) \subseteq DOMAIN run.doc
    BY DEF CatalogInv, Control, Busy
  <1>3. It \in DOMAIN run.doc /\ IsEntry(Entry, contacts)
    BY <1>2, TheEntry
  <1>4. Make(n)
    BY DEF Create
  <1>5. /\ \A i \in DOMAIN contacts : i \in DOMAIN contacts' /\ contacts'[i] = contacts[i]
        /\ c \in DOMAIN contacts' /\ contacts'[c] = Requested
    BY <1>1, <1>4, CopiesAreNew
  <1>6. /\ DOMAIN run' = RunFields /\ run'.phase = "ensure" /\ run'.cmd = run.cmd /\ run'.left = run.left
        /\ run'.doc = [run.doc EXCEPT ![It] = e] /\ run'.made = run.made \cup {Entry.id}
    BY <1>1 DEF Create, RunFields, Entry
  <1>7. c # None
    <2>1. Len(contacts) \in Nat
      BY <1>1, SeqShape DEF AreContacts
    <2> QED BY <2>1 DEF None
  <1> HIDE DEF c
  <1>8. IsDoc(run.doc, contacts')
    BY <1>1, <1>5, EntriesStay
  <1>9. IsEntry(Entry, contacts')
    BY <1>3, <1>8 DEF IsDoc, Entries, Entry
  <1>10. /\ IsEntry(e, contacts') /\ e.id = Entry.id /\ e.oo = c
    <2>1. /\ Requested.company = IsCompany /\ Requested.name = Name
          /\ IsCompany => Name = Entry.name
      BY DEF Requested, Contact, Name
    <2>2. IsOf(contacts'[c], Entry)
      BY <1>5, <2>1 DEF IsOf, IsCompany
    <2> QED BY <1>5, <1>9, <2>2, EntryWithContact
  <1> HIDE DEF e
  <1>11. /\ IsDoc(run'.doc, contacts') /\ DOMAIN run'.doc = DOMAIN run.doc /\ run'.doc[It] = e
         /\ Known(run.doc) \subseteq Known(run'.doc) /\ Entry.id \in Known(run'.doc)
    BY <1>3, <1>6, <1>7, <1>8, <1>10, EntryReplaced DEF Entry
  <1>12. Control'
    BY <1>2, <1>6, <1>7, <1>10, <1>11 DEF Control, Busy, Entry, It
  <1>13. LookedUp'
    BY <1>6 DEF LookedUp
  <1>14. run'.made \subseteq Known(run'.doc)
    BY <1>6, <1>11 DEF CatalogInv, Remembered
  <1> QED BY <1>4, <1>6, <1>11, <1>12, <1>13, <1>14, MakeStep

\* Contacts may be made, but no answer comes.
LEMMA CreateFails ==
  ASSUME CatalogInv, run.phase = "write", run.hit = None, NEW n \in Nat, Make(n), AnswersLost(n, 0), Note,
         UNCHANGED file
  PROVE  CatalogInv'
  <1>1. AreContacts(contacts) /\ IsDoc(run.doc, contacts) /\ DOMAIN run = RunFields /\ DOMAIN past = PastFields
    BY DEF CatalogInv, Shapes
  <1>2. run.left # <<>> /\ run.cmd = "apply" /\ IsSeq(run.left) /\ ToSet(run.left) \subseteq DOMAIN run.doc
    BY DEF CatalogInv, Control, Busy
  <1>3. /\ DOMAIN past' = PastFields /\ past'.stopped = past.stopped
        /\ past.lost \subseteq past'.lost /\ past.repeated \subseteq past'.repeated
        /\ n > 0 => Entry.id \in past'.lost
        /\ n > 1 => Entry.id \in past'.repeated
    BY <1>1 DEF AnswersLost, PastFields
  <1>4. /\ DOMAIN run' = RunFields /\ run'.cmd = run.cmd /\ run'.phase = "next"
        /\ run'.doc = run.doc /\ run'.left = Tail(run.left) /\ run'.made = run.made
    BY <1>1 DEF Note, RunFields
  <1>5. IsSeq(run'.left) /\ ToSet(run'.left) \subseteq DOMAIN run'.doc
    BY <1>2, <1>4, TailSeq
  <1>6. Control'
    BY <1>2, <1>4, <1>5 DEF Control, Busy
  <1>7. LookedUp'
    BY <1>4 DEF LookedUp
  <1>8. \A i \in DOMAIN contacts : i \in DOMAIN contacts' /\ contacts'[i] = contacts[i]
    BY <1>1, CopiesAreNew
  <1>9. IsDoc(run'.doc, contacts')
    BY <1>1, <1>4, <1>8, EntriesStay
  <1>10. run'.made \subseteq Known(run'.doc)
    BY <1>4 DEF CatalogInv, Remembered
  <1> QED BY <1>3, <1>4, <1>6, <1>7, <1>9, <1>10, MakeStep

LEMMA WriteStep ==
  ASSUME CatalogInv, Write PROVE CatalogInv'
  <1>1. run.phase = "write" /\ run.phase \in Busy /\ UNCHANGED file
    BY DEF Write, Busy
  <1>2. /\ DOMAIN run = RunFields /\ DOMAIN past = PastFields /\ IsDoc(run.doc, contacts)
        /\ run.left # <<>> /\ run.cmd = "apply"
        /\ IsSeq(run.left) /\ ToSet(run.left) \subseteq DOMAIN run.doc
    BY <1>1 DEF CatalogInv, Shapes, Control
  <1>3. CASE run.hit = None /\ Create(1) /\ UNCHANGED past
    BY <1>1, <1>2, <1>3, CreateStep
  <1>4. CASE run.hit = None /\ \E n \in 2 .. MaxCopies : Create(n) /\ AnswersLost(n, 1)
    <2>1. PICK n \in 2 .. MaxCopies : Create(n) /\ AnswersLost(n, 1)
      BY <1>4
    <2>2. n \in Nat /\ n > 0 /\ n > 1
      BY CopiesAssumption
    <2>3. /\ DOMAIN past' = PastFields /\ past'.stopped = past.stopped
          /\ past.lost \subseteq past'.lost /\ past.repeated \subseteq past'.repeated
          /\ Entry.id \in past'.repeated
      BY <1>2, <2>1, <2>2 DEF AnswersLost, PastFields
    <2> QED BY <1>1, <1>4, <2>1, <2>2, <2>3, CreateStep
  <1>5. CASE run.hit = None /\ \E n \in 0 .. MaxCopies : Make(n) /\ AnswersLost(n, 0) /\ Note
    <2>1. PICK n \in 0 .. MaxCopies : Make(n) /\ AnswersLost(n, 0) /\ Note
      BY <1>5
    <2>2. n \in Nat
      BY CopiesAssumption
    <2> QED BY <1>1, <1>5, <2>1, <2>2, CreateFails
  <1>6. CASE run.hit # None /\ WriteCompany
    <2> DEFINE e == WithContact(Entry, run.hit)
    <2>1. IsCompany /\ UNCHANGED <<contacts, past>> /\ DOMAIN past' = PastFields /\ SameLosses
      BY <1>2, <1>6 DEF WriteCompany, SameLosses
    <2>2. /\ DOMAIN run' = RunFields /\ run'.phase = "ensure" /\ run'.cmd = run.cmd
          /\ run'.doc = [run.doc EXCEPT ![It] = e] /\ run'.left = run.left /\ run'.made = run.made
      BY <1>2, <1>6 DEF WriteCompany, Keep, RunFields, Entry
    <2>3. It \in DOMAIN run.doc /\ IsEntry(Entry, contacts)
      BY <1>2, TheEntry
    <2>4. run.hit \in DOMAIN contacts /\ (CompaniesHaveNoAddress => IsOf(contacts[run.hit], Entry))
      BY <1>1, <1>6 DEF CatalogInv, LookedUp
    <2>5. IsEntry(e, contacts) /\ e.id = Entry.id /\ e.oo = run.hit
      BY <2>3, <2>4, EntryWithContact
    <2> HIDE DEF e
    <2>6. /\ IsDoc(run'.doc, contacts) /\ DOMAIN run'.doc = DOMAIN run.doc /\ run'.doc[It] = e
          /\ Known(run.doc) \subseteq Known(run'.doc)
      BY <1>2, <1>6, <2>2, <2>3, <2>5, EntryReplaced DEF Entry
    <2>7. Control'
      BY <1>2, <1>6, <2>2, <2>5, <2>6 DEF Control, Busy, Entry, It
    <2>8. LookedUp'
      BY <2>2 DEF LookedUp
    <2> QED BY <1>1, <2>1, <2>2, <2>6, <2>7, <2>8, QuietStep
  <1>7. CASE run.hit # None /\ WritePerson
    <2>1. ~IsCompany
      BY <1>7 DEF WritePerson
    <2>2. CASE run.hit \in Live /\ Update(Employer) /\ Keep /\ UNCHANGED past
      <3>1. Kept
        <4>1. run' = [run EXCEPT !.phase = "ensure", !.hit = None, !.org = None,
                                 !.doc[It] = WithContact(@, run.hit), !.failed = run.failed]
          BY <1>2, <2>2 DEF Keep, RunFields
        <4> QED BY <4>1, Zenon DEF Kept
      <3>2. DOMAIN past' = PastFields /\ SameLosses
        BY <1>2, <2>2 DEF SameLosses
      <3> QED BY <1>1, <2>1, <2>2, <3>1, <3>2, UpdateStep DEF KeptOrNoted
    <2>3. CASE /\ run.hit \in Live /\ run.org = None /\ Fault
               /\ Update(None)
               /\ run' = [run EXCEPT !.phase = "ensure", !.hit = None, !.doc[It] = WithContact(@, run.hit),
                                     !.failed = TRUE]
      <3>1. Kept
        <4>1. run' = [run EXCEPT !.phase = "ensure", !.hit = None, !.org = run.org,
                                 !.doc[It] = WithContact(@, run.hit), !.failed = TRUE]
          BY <1>2, <2>3 DEF RunFields
        <4> QED BY <4>1, Zenon DEF Kept
      <3>2. DOMAIN past' = PastFields /\ SameLosses
        BY <2>3, FaultIsCounted
      <3> QED BY <1>1, <2>1, <2>3, <3>1, <3>2, UpdateStep DEF KeptOrNoted
    <2>4. CASE NoteError /\ UNCHANGED contacts
      BY <1>1, <2>4, NextEntry DEF NoteError, Note
    <2>5. CASE run.hit \in Live /\ NoteError /\ Update(Employer)
      <3>1. DOMAIN past' = PastFields /\ SameLosses /\ Note
        BY <2>5, FaultIsCounted DEF NoteError
      <3> QED BY <1>1, <2>1, <2>5, <3>1, UpdateStep DEF KeptOrNoted
    <2>6. CASE NotThere /\ UNCHANGED <<contacts, past>>
      <3>1. run' = [run EXCEPT !.phase = "next", !.left = Tail(@), !.hit = None, !.failed = @]
        BY <1>2, <2>6 DEF NotThere, RunFields
      <3> QED BY <1>1, <2>6, <3>1, NextEntry
    <2> QED BY <1>7, <2>2, <2>3, <2>4, <2>5, <2>6 DEF WritePerson
  <1> QED BY <1>3, <1>4, <1>5, <1>6, <1>7 DEF Write

LEMMA EnsureStep ==
  ASSUME CatalogInv, Ensure PROVE CatalogInv'
  <1>1. run.phase = "ensure" /\ run.phase \in Busy /\ UNCHANGED <<contacts, file>>
    BY DEF Ensure, Busy
  <1>2. CASE /\ run' = [run EXCEPT !.phase = "add", !.todo = ToSet(Entry.emails) \ contacts[Entry.oo].emails]
             /\ UNCHANGED past
    <2>1. DOMAIN run = RunFields /\ IsDoc(run.doc, contacts)
          /\ DOMAIN past' = PastFields /\ SameLosses
      BY <1>2 DEF CatalogInv, Shapes, SameLosses
    <2>2. /\ DOMAIN run' = RunFields /\ run'.phase = "add" /\ run'.cmd = run.cmd
          /\ run'.doc = run.doc /\ run'.left = run.left /\ run'.made = run.made
          /\ run'.todo \subseteq ToSet(Entry.emails)
      BY <1>2, <2>1 DEF RunFields
    <2>3. Control'
      BY <1>1, <2>2 DEF CatalogInv, Control, Busy, Entry, It
    <2>4. LookedUp'
      BY <2>2 DEF LookedUp
    <2> QED BY <1>1, <2>1, <2>2, <2>3, <2>4, QuietStep
  <1>3. CASE NoteError
    BY <1>1, <1>3, NextEntry DEF NoteError, Note
  <1>4. CASE NotThere /\ UNCHANGED past
    <2>1. run' = [run EXCEPT !.phase = "next", !.left = Tail(@), !.hit = None, !.failed = @]
      BY <1>4 DEF NotThere, CatalogInv, Shapes, RunFields
    <2> QED BY <1>1, <1>4, <2>1, NextEntry
  <1> QED BY <1>2, <1>3, <1>4 DEF Ensure

LEMMA AddStep ==
  ASSUME CatalogInv, Add PROVE CatalogInv'
  <1>1. run.phase = "add" /\ run.phase \in Busy /\ UNCHANGED file
    BY DEF Add, Busy
  <1>2. /\ DOMAIN run = RunFields /\ IsDoc(run.doc, contacts) /\ AreContacts(contacts)
        /\ run.left # <<>> /\ run.cmd = "apply"
        /\ IsSeq(run.left) /\ ToSet(run.left) \subseteq DOMAIN run.doc
        /\ Entry.oo # None /\ run.todo \subseteq ToSet(Entry.emails)
    BY <1>1 DEF CatalogInv, Shapes, Control
  <1>3. It \in DOMAIN run.doc /\ IsEntry(Entry, contacts)
    BY <1>2, TheEntry
  <1>4. CASE /\ run' = [run EXCEPT !.phase = "next", !.left = Tail(@), !.doc[It].status = "applied",
                                   !.ok = @ \cup {Entry.id}]
             /\ UNCHANGED <<contacts, past>>
    <2> DEFINE e == [Entry EXCEPT !.status = "applied"]
    <2>1. DOMAIN past' = PastFields /\ SameLosses
      BY <1>4 DEF CatalogInv, Shapes, SameLosses
    <2>2. /\ DOMAIN run' = RunFields /\ run'.phase = "next" /\ run'.cmd = run.cmd
          /\ run'.doc = [run.doc EXCEPT ![It] = e] /\ run'.left = Tail(run.left) /\ run'.made = run.made
      BY <1>2, <1>4 DEF RunFields, Entry
    <2>3. /\ DOMAIN e = EntryFields
          /\ e.id = Entry.id /\ e.kind = Entry.kind /\ e.name = Entry.name
          /\ e.emails = Entry.emails /\ e.oo = Entry.oo
      BY <1>3 DEF IsEntry, EntryFields
    <2> HIDE DEF e
    <2>4. IsEntry(e, contacts)
      BY <1>3, <2>3 DEF IsEntry, IsOf
    <2>5. /\ IsDoc(run'.doc, contacts) /\ DOMAIN run'.doc = DOMAIN run.doc
          /\ Known(run.doc) \subseteq Known(run'.doc)
      BY <1>2, <1>3, <2>2, <2>3, <2>4, EntryReplaced DEF Entry
    <2>6. IsSeq(run'.left) /\ ToSet(run'.left) \subseteq DOMAIN run'.doc
      BY <1>2, <2>2, <2>5, TailSeq
    <2>7. Control'
      BY <1>2, <2>2, <2>6 DEF Control, Busy
    <2>8. LookedUp'
      BY <2>2 DEF LookedUp
    <2> QED BY <1>1, <1>4, <2>1, <2>2, <2>5, <2>7, <2>8, QuietStep
  <1>5. CASE /\ run.todo # {} /\ Entry.oo \in Live
             /\ contacts' = [contacts EXCEPT ![Entry.oo].emails = @ \cup {Missing}]
             /\ \/ run' = [run EXCEPT !.todo = @ \ {Missing}] /\ UNCHANGED past
                \/ NoteError
    <2> DEFINE em == Missing
    <2>1. contacts' = [contacts EXCEPT ![Entry.oo].emails = @ \cup {em}]
      BY <1>5
    <2> HIDE DEF em
    <2> DEFINE c == Entry.oo
               d == [contacts[c] EXCEPT !.emails = @ \cup {em}]
    <2>2. c \in DOMAIN contacts /\ IsContact(contacts[c])
      BY <1>2, <1>5 DEF Live, AreContacts
    <2>3. contacts' = [contacts EXCEPT ![c] = d]
      BY <2>1, <2>2
    <2>4. /\ DOMAIN d = ContactFields /\ d.company = contacts[c].company /\ d.of = contacts[c].of
          /\ d.gone = contacts[c].gone /\ d.name = contacts[c].name
      BY <2>2 DEF IsContact, ContactFields
    <2>5. CompaniesHaveNoAddress => ~d.company
      <3> SUFFICES ASSUME CompaniesHaveNoAddress, contacts[c].company PROVE FALSE
        BY <2>4
      <3>1. Entry.emails = <<>>
        BY <1>2, <1>3 DEF IsEntry, IsOf
      <3>2. ToSet(Entry.emails) = {}
        BY <3>1, EmptyDoc
      <3> QED BY <1>2, <1>5, <3>2
    <2> HIDE DEF d, c
    <2>6. CASE run' = [run EXCEPT !.todo = @ \ {Missing}] /\ UNCHANGED past
      <3>1. /\ DOMAIN run' = RunFields /\ run'.phase = "add" /\ run'.cmd = run.cmd
            /\ run'.doc = run.doc /\ run'.left = run.left /\ run'.made = run.made
            /\ run'.todo \subseteq run.todo
        BY <1>1, <1>2, <2>6 DEF RunFields
      <3>2. DOMAIN past' = PastFields /\ SameLosses
        BY <2>6 DEF CatalogInv, Shapes, SameLosses
      <3>3. Control'
        BY <1>2, <3>1 DEF Control, Busy, Entry, It
      <3>4. LookedUp'
        BY <3>1 DEF LookedUp
      <3> QED BY <1>1, <1>2, <2>2, <2>3, <2>4, <2>5, <3>1, <3>2, <3>3, <3>4, ContactChanges
    <2>7. CASE NoteError
      <3>1. /\ DOMAIN run' = RunFields /\ run'.phase = "next" /\ run'.cmd = run.cmd
            /\ run'.doc = run.doc /\ run'.left = Tail(run.left) /\ run'.made = run.made
        BY <1>2, <2>7 DEF NoteError, Note, RunFields
      <3>2. DOMAIN past' = PastFields /\ SameLosses
        BY <2>7, FaultIsCounted DEF NoteError
      <3>3. IsSeq(run'.left) /\ ToSet(run'.left) \subseteq DOMAIN run'.doc
        BY <1>2, <3>1, TailSeq
      <3>4. Control'
        BY <1>2, <3>1, <3>3 DEF Control, Busy
      <3>5. LookedUp'
        BY <3>1 DEF LookedUp
      <3> QED BY <1>1, <1>2, <2>2, <2>3, <2>4, <2>5, <3>1, <3>2, <3>4, <3>5, ContactChanges
    <2> QED BY <1>5, <2>6, <2>7
  <1>6. CASE NotThere /\ UNCHANGED <<contacts, past>>
    <2>1. run' = [run EXCEPT !.phase = "next", !.left = Tail(@), !.hit = None, !.failed = @]
      BY <1>2, <1>6 DEF NotThere, RunFields
    <2> QED BY <1>1, <1>6, <2>1, NextEntry
  <1>7. CASE NoteError /\ UNCHANGED contacts
    BY <1>1, <1>7, NextEntry DEF NoteError, Note
  <1> QED BY <1>4, <1>5, <1>6, <1>7 DEF Add

LEMMA TakeAwayStep ==
  ASSUME CatalogInv, TakeAway PROVE CatalogInv'
  <1>1. PICK c \in Live :
          contacts' = [i \in DOMAIN contacts |->
                         IF i = c THEN [contacts[i] EXCEPT !.gone = TRUE]
                         ELSE [contacts[i] EXCEPT !.employer = IF @ = c THEN None ELSE @]]
    BY DEF TakeAway
  <1>2. UNCHANGED <<file, run>> /\ AreContacts(contacts) /\ DOMAIN run' = RunFields
        /\ IsDoc(run'.doc, contacts)
        /\ DOMAIN past' = PastFields /\ SameLosses
    BY DEF TakeAway, CatalogInv, Shapes, PastFields, SameLosses
  <1>3. ASSUME NEW i \in DOMAIN contacts
        PROVE  /\ DOMAIN contacts'[i] = ContactFields
               /\ contacts'[i].company = contacts[i].company /\ contacts'[i].name = contacts[i].name
               /\ contacts'[i].emails = contacts[i].emails /\ contacts'[i].of = contacts[i].of
               /\ contacts[i].gone => contacts'[i].gone
    <2>1. DOMAIN contacts[i] = ContactFields
      BY <1>2 DEF AreContacts, IsContact
    <2> QED BY <1>1, <2>1 DEF ContactFields
  <1>4. DOMAIN contacts' = DOMAIN contacts
    BY <1>1
  <1>5. IsSeq(contacts')
    <2>1. Len(contacts) \in Nat /\ DOMAIN contacts = 1 .. Len(contacts)
      BY <1>2, SeqShape DEF AreContacts
    <2>2. contacts' = [i \in 1 .. Len(contacts) |-> contacts'[i]]
      BY <1>1, <2>1
    <2>3. contacts' \in [1 .. Len(contacts) -> {contacts'[i] : i \in 1 .. Len(contacts)}]
      BY <2>2
    <2> QED BY <2>1, <2>3, ShapeIsSeq
  <1>6. AreContacts(contacts')
    BY <1>2, <1>3, <1>4, <1>5 DEF AreContacts, IsContact
  <1>7. Control'
    BY <1>2 DEF CatalogInv, Control, Entry, It, IsCompany
  <1>8. LookedUp'
    <2>1. Entry' = Entry /\ (IsCompany' <=> IsCompany) /\ run' = run
      BY <1>2 DEF Entry, It, IsCompany
    <2>2. \A i \in Live' : i \in Live /\ i \in DOMAIN contacts
      BY <1>3, <1>4 DEF Live
    <2>3. \A i \in DOMAIN contacts : IsOf(contacts[i], Entry) => IsOf(contacts'[i], Entry)
      BY <1>3 DEF IsOf
    <2> QED BY <1>3, <1>4, <2>1, <2>2, <2>3 DEF CatalogInv, LookedUp
  <1> QED BY <1>2, <1>3, <1>4, <1>6, <1>7, <1>8, ContactsChange

-----------------------------------------------------------------------------
(* The theorems                                                            *)

LEMMA CatalogInvInit == Init => CatalogInv
  <1> SUFFICES ASSUME Init PROVE CatalogInv
    OBVIOUS
  <1>1. /\ contacts \in InitialContacts /\ file = <<>> /\ run = AtRest
        /\ DOMAIN past = PastFields
    BY DEF Init, PastFields
  <1>2. /\ IsSeq(contacts)
        /\ \A c \in ToSet(contacts) : c = Contact(c.company, c.name, c.emails, c.employer, NoEntry)
    BY <1>1, ContactsAssumption DEF IsSeq
  <1>3. ASSUME NEW i \in DOMAIN contacts
        PROVE  /\ DOMAIN contacts[i] = ContactFields /\ contacts[i].of = NoEntry
               /\ CompaniesHaveNoAddress /\ contacts[i].company => contacts[i].emails = {}
    <2> DEFINE c == contacts[i]
    <2>1. c \in ToSet(contacts)
      BY DEF ToSet
    <2> HIDE DEF c
    <2>2. c = Contact(c.company, c.name, c.emails, c.employer, NoEntry)
      BY <1>2, <2>1
    <2>3. DOMAIN c = ContactFields /\ c.of = NoEntry
      BY <2>2 DEF Contact, ContactFields
    <2>4. CompaniesHaveNoAddress /\ c.company => c.emails = {}
      BY <1>1, <2>1 DEF CompaniesHaveNoAddress
    <2> QED BY <2>3, <2>4 DEF c
  <1>4. AreContacts(contacts)
    BY <1>2, <1>3 DEF AreContacts, IsContact
  <1>5. Shapes
    BY <1>1, <1>4, RestProperties, EmptyDoc DEF Shapes
  <1>6. Control
    BY <1>1, RestProperties, EmptyDoc DEF Control, Busy
  <1>7. Remembered
    BY <1>1, RestProperties DEF Remembered
  <1>8. Accounted /\ MadeOnce
    BY <1>3 DEF Accounted, MadeOnce
  <1>9. LookedUp
    BY <1>1, RestProperties DEF LookedUp
  <1>10. CompaniesAreOnce
    BY <1>3 DEF CompaniesAreOnce, Live
  <1> QED BY <1>5, <1>6, <1>7, <1>8, <1>9, <1>10 DEF CatalogInv

LEMMA CatalogInvNext ==
  ASSUME CatalogInv, [Next]_vars
  PROVE  CatalogInv' /\ Known(file) \subseteq Known(file')
  <1>1. ASSUME Merge \/ Match \/ MatchAgainstOO \/ Apply \/ ApplyApproved \/ Find \/ FindOrg
               \/ Write \/ Ensure \/ Add \/ Stop \/ TakeAway
        PROVE  UNCHANGED file
    BY <1>1 DEF Merge, Match, MatchAgainstOO, Apply, ApplyApproved, Find, FindOrg, Write, Ensure, Add,
                Stop, TakeAway
  <1>2. CASE Merge
    BY <1>1, <1>2, MergeStep
  <1>3. CASE Save
    BY <1>3, SaveStep
  <1>4. CASE Approve
    BY <1>4, ApproveStep
  <1>5. CASE Match
    BY <1>1, <1>5, MatchStep
  <1>6. CASE MatchAgainstOO
    BY <1>1, <1>6, MatchAgainstStep
  <1>7. CASE Apply
    BY <1>1, <1>7, ApplyStep
  <1>8. CASE ApplyApproved
    BY <1>1, <1>8, ApplyApprovedStep
  <1>9. CASE Find
    BY <1>1, <1>9, FindStep
  <1>10. CASE FindOrg
    BY <1>1, <1>10, FindOrgStep
  <1>11. CASE Write
    BY <1>1, <1>11, WriteStep
  <1>12. CASE Ensure
    BY <1>1, <1>12, EnsureStep
  <1>13. CASE Add
    BY <1>1, <1>13, AddStep
  <1>14. CASE Stop
    BY <1>1, <1>14, StopStep
  <1>15. CASE TakeAway
    BY <1>1, <1>15, TakeAwayStep
  <1>16. CASE UNCHANGED vars
    BY <1>16 DEF vars, CatalogInv, Shapes, Control, Remembered, Accounted, LookedUp, MadeOnce,
                 CompaniesAreOnce, Live, Entry, It, IsCompany
  <1> QED BY <1>2, <1>3, <1>4, <1>5, <1>6, <1>7, <1>8, <1>9, <1>10, <1>11, <1>12, <1>13, <1>14,
             <1>15, <1>16 DEF Next

LEMMA CatalogInvHolds == Spec => []CatalogInv
  <1>1. CatalogInv /\ [Next]_vars => CatalogInv'
    BY CatalogInvNext
  <1> QED BY CatalogInvInit, <1>1, PTL DEF Spec

\* No command forgets the contact an entry stands for, in whatever order the
\* catalog is merged with what the scans find, matched, applied and edited,
\* whatever requests fail and wherever a run is stopped (match.go:95,
\* types.go:185, cmd/oo/catalog.go).
THEOREM ContactsAreRemembered == Spec => IdsAreKept
  <1>1. CatalogInv /\ [Next]_vars => [Known(file) \subseteq Known(file')]_file
    BY CatalogInvNext
  <1> QED BY CatalogInvHolds, <1>1, PTL DEF Spec, IdsAreKept

\* Where the companies of the CRM have no address of their own, the catalog
\* makes a second contact of an entry only when the id of the first was lost:
\* of a person with a stopped run or the answer to its creation, of a company
\* only when one request made both (apply.go:55, 80, 97, 117, http.go:213).
THEOREM EveryTwinComesOfALostId ==
  ASSUME CompaniesHaveNoAddress
  PROVE  Spec => []TwinsComeOfLostIds
  <1>1. CatalogInv => TwinsComeOfLostIds
    BY DEF CatalogInv, TwinsComeOfLostIds
  <1> QED BY CatalogInvHolds, <1>1, PTL

-----------------------------------------------------------------------------
(* Employers: as long as nothing fails and nobody takes a contact away,    *)
(* whoever has been applied has the employer that was applied.             *)

Applying == run.cmd = "apply" /\ ~run.failed /\ past.removals = 0

NobodyGone == /\ past.removals \in Nat
              /\ past.removals = 0 => \A c \in DOMAIN contacts : ~contacts[c].gone

\* The entries that have been applied, and the one whose contact is written.
Begun == run.ok \cup IF run.phase \in {"ensure", "add"} THEN {Entry.id} ELSE {}

Names(p, c) == /\ p.kind # "company" /\ c.kind = "company" /\ p.org # ""
               /\ CompanyKey([stem |-> p.org, note |-> ""]) = CompanyKey(c.name)

CompaniesFirst ==
  \A i, j \in DOMAIN run.left :
    i < j /\ run.doc[run.left[j]].kind = "company" => run.doc[run.left[i]].kind = "company"

NoCompanyLeft == \A k \in ToSet(run.left) : run.doc[k].kind # "company"

PersonsLast ==
  \A p \in DOMAIN run.doc : run.doc[p].id \in Begun /\ run.doc[p].kind # "company" => NoCompanyLeft

BegunAreKnown == \A p \in DOMAIN run.doc : run.doc[p].id \in Begun => run.doc[p].oo # None

OrgIsFound ==
  run.phase = "write" /\ ~IsCompany =>
    /\ Entry.org = "" => run.org = None
    /\ \A c \in DOMAIN run.doc :
         run.doc[c].id \in run.ok /\ Names(Entry, run.doc[c]) /\ OnlyOne(run.doc[c]) => run.org = run.doc[c].oo

\* No entry of p's contact that was begun names another employer.
SameOrgs(p) ==
  \A q \in DOMAIN run.doc :
    run.doc[q].id \in Begun /\ run.doc[q].oo = run.doc[p].oo => run.doc[q].org \in {"", run.doc[p].org}

Employed ==
  \A p, c \in DOMAIN run.doc :
    /\ run.doc[p].id \in Begun /\ run.doc[c].id \in run.ok
    /\ Names(run.doc[p], run.doc[c]) /\ OnlyOne(run.doc[c]) /\ SameOrgs(p)
    => contacts[run.doc[p].oo].employer = run.doc[c].oo

EmployersInv ==
  /\ NobodyGone
  /\ Applying => CompaniesFirst /\ PersonsLast /\ BegunAreKnown /\ OrgIsFound /\ Employed

LEMMA OrderOfApplying ==
  ASSUME NEW doc, IsSeq(doc)
  PROVE  LET left == ApplyOrder(doc)
         IN  \A i, j \in DOMAIN left : i < j /\ doc[left[j]].kind = "company" => doc[left[i]].kind = "company"
  <1> DEFINE C == {i \in DOMAIN doc : doc[i].kind = "company"}
             P == {i \in DOMAIN doc : doc[i].kind = "person"}
             s == InOrder(C)
             t == InOrder(P)
             left == ApplyOrder(doc)
  <1>1. Len(doc) \in Nat /\ DOMAIN doc = 1 .. Len(doc)
    BY SeqShape
  <1>2. left = s \o t
    BY DEF ApplyOrder
  <1>3. C \subseteq 1 .. Len(doc) /\ P \subseteq 1 .. Len(doc)
    BY <1>1
  <1>4. \A i \in C : doc[i].kind = "company"
    OBVIOUS
  <1>5. \A i \in P : doc[i].kind # "company"
    OBVIOUS
  <1> HIDE DEF C, P
  <1>6. Cardinality(C) \in Nat /\ s \in [1 .. Cardinality(C) -> C]
    BY <1>1, <1>3, InOrderProperties
  <1>7. Cardinality(P) \in Nat /\ t \in [1 .. Cardinality(P) -> P]
    BY <1>1, <1>3, InOrderProperties
  <1> HIDE DEF s, t, left
  <1>8. IsSeq(s) /\ Len(s) = Cardinality(C) /\ IsSeq(t) /\ Len(t) = Cardinality(P)
    BY <1>6, <1>7, ShapeIsSeq
  <1>9. /\ IsSeq(left) /\ Len(left) = Len(s) + Len(t)
        /\ \A i \in 1 .. Len(s) : left[i] = s[i]
        /\ \A i \in 1 .. Len(t) : left[Len(s) + i] = t[i]
    <2>1. IsSeq(s) /\ IsSeq(t)
      BY <1>8
    <2> QED BY <1>2, <2>1, ConcatSeq
  <1>10. \A i \in 1 .. Len(s) : doc[left[i]].kind = "company"
    BY <1>4, <1>6, <1>8, <1>9
  <1>11. \A i \in 1 .. Len(t) : doc[left[Len(s) + i]].kind # "company"
    BY <1>5, <1>7, <1>8, <1>9
  <1>12. ASSUME NEW i \in DOMAIN left, NEW j \in DOMAIN left, i < j, doc[left[j]].kind = "company"
         PROVE  doc[left[i]].kind = "company"
    <2>1. i \in 1 .. Len(s) + Len(t) /\ j \in 1 .. Len(s) + Len(t) /\ Len(s) \in Nat /\ Len(t) \in Nat
      BY <1>9, <1>8, SeqShape
    <2>2. CASE j <= Len(s)
      <3>1. i \in 1 .. Len(s)
        BY <1>12, <2>1, <2>2
      <3> QED BY <1>10, <3>1
    <2>3. CASE j > Len(s)
      <3>1. j - Len(s) \in 1 .. Len(t) /\ Len(s) + (j - Len(s)) = j
        BY <2>1, <2>3
      <3> QED BY <1>11, <1>12, <3>1
    <2> QED BY <2>1, <2>2, <2>3
  <1> QED BY <1>12 DEF left

\* What is left once the first is done.
LEMMA TailPlaces ==
  ASSUME NEW s, IsSeq(s), s # <<>>
  PROVE  /\ \A i \in DOMAIN Tail(s) : i \in Nat /\ i + 1 \in DOMAIN s /\ Tail(s)[i] = s[i + 1]
         /\ \A k \in ToSet(s) : k = Head(s) \/ \E i \in DOMAIN s : 1 < i /\ s[i] = k
         /\ 1 \in DOMAIN s /\ s[1] = Head(s)
  <1> DEFINE t == Tail(s)
  <1>1. Len(s) \in Nat /\ Len(s) # 0 /\ DOMAIN s = 1 .. Len(s) /\ s \in Seq(ToSet(s))
    BY SeqShape DEF IsSeq
  <1>2. /\ Head(s) = s[1] /\ Len(t) = Len(s) - 1
        /\ \A i \in 1 .. Len(t) : t[i] = s[i + 1]
    BY <1>1, HeadTailProperties
  <1>3. IsSeq(t)
    BY TailSeq
  <1> HIDE DEF t
  <1>4. DOMAIN t = 1 .. Len(t)
    BY <1>3, SeqShape
  <1>5. \A i \in DOMAIN t : i \in Nat /\ i + 1 \in DOMAIN s /\ t[i] = s[i + 1]
    BY <1>1, <1>2, <1>4
  <1>6. \A i \in DOMAIN s : i = 1 \/ 1 < i
    BY <1>1
  <1>7. 1 \in DOMAIN s
    BY <1>1
  <1> QED BY <1>2, <1>5, <1>6, <1>7 DEF t, ToSet

\* What a step of applying leaves of the entries and of the contacts.
SameEntries ==
  /\ DOMAIN run'.doc = DOMAIN run.doc
  /\ \A k \in DOMAIN run.doc :
       /\ run'.doc[k].id = run.doc[k].id /\ run'.doc[k].kind = run.doc[k].kind
       /\ run'.doc[k].org = run.doc[k].org
       /\ run.doc[k].kind = "company" => run'.doc[k].name = run.doc[k].name
       /\ run.doc[k].oo # None => run'.doc[k].oo = run.doc[k].oo

SameContacts ==
  \A c \in DOMAIN contacts :
    /\ c \in DOMAIN contacts' /\ contacts'[c].company = contacts[c].company
    /\ contacts'[c].gone = contacts[c].gone
    /\ contacts[c].company => contacts'[c].name = contacts[c].name

SameLeft == run'.left = run.left \/ (run.left # <<>> /\ run'.left = Tail(run.left))

LEMMA EntryChanged ==
  ASSUME CatalogInv, run.left # <<>>, NEW e, run'.doc = [run.doc EXCEPT ![It] = e],
         e.id = Entry.id, e.kind = Entry.kind, e.org = Entry.org,
         IsCompany => e.name = Entry.name, Entry.oo # None => e.oo = Entry.oo
  PROVE  /\ SameEntries /\ run'.doc[It] = e
         /\ \A k \in DOMAIN run.doc : k # It => run'.doc[k] = run.doc[k]
  <1>1. It \in DOMAIN run.doc /\ IsSeq(run.doc)
    BY TheEntry DEF CatalogInv, Shapes, IsDoc, Entries
  <1>2. /\ DOMAIN run'.doc = DOMAIN run.doc /\ run'.doc[It] = e
        /\ \A k \in DOMAIN run.doc : k # It => run'.doc[k] = run.doc[k]
    BY <1>1, ExceptAny
  <1> QED BY <1>1, <1>2 DEF SameEntries, Entry, IsCompany

LEMMA LeftStays ==
  ASSUME CatalogInv, SameEntries, SameLeft, CompaniesFirst, PersonsLast
  PROVE  CompaniesFirst' /\ (Begun' = Begun => PersonsLast')
  <1>1. IsSeq(run.left) /\ ToSet(run.left) \subseteq DOMAIN run.doc
    BY DEF CatalogInv, Control
  <1>2. CASE run'.left = run.left
    <2>1. \A i \in DOMAIN run.left : run'.doc[run.left[i]].kind = run.doc[run.left[i]].kind
      BY <1>1 DEF SameEntries, ToSet
    <2> QED BY <1>1, <1>2, <2>1 DEF SameEntries, CompaniesFirst, PersonsLast, NoCompanyLeft, ToSet
  <1>3. CASE run.left # <<>> /\ run'.left = Tail(run.left)
    <2>1. \A i \in DOMAIN run'.left : i \in Nat /\ i + 1 \in DOMAIN run.left /\ run'.left[i] = run.left[i + 1]
      BY <1>1, <1>3, TailPlaces
    <2>2. ToSet(run'.left) \subseteq ToSet(run.left)
      BY <1>1, <1>3, TailSeq
    <2>3. \A i \in DOMAIN run.left : run'.doc[run.left[i]].kind = run.doc[run.left[i]].kind
      BY <1>1 DEF SameEntries, ToSet
    <2>4. CompaniesFirst'
      <3> SUFFICES ASSUME NEW i \in DOMAIN run'.left, NEW j \in DOMAIN run'.left, i < j,
                          run'.doc[run'.left[j]].kind = "company"
                   PROVE  run'.doc[run'.left[i]].kind = "company"
        BY DEF CompaniesFirst
      <3>1. /\ i + 1 \in DOMAIN run.left /\ j + 1 \in DOMAIN run.left
            /\ run'.left[i] = run.left[i + 1] /\ run'.left[j] = run.left[j + 1]
        BY <2>1
      <3>2. i + 1 < j + 1
        BY <2>1
      <3>3. run.doc[run.left[j + 1]].kind = "company"
        BY <2>3, <3>1
      <3>4. run.doc[run.left[i + 1]].kind = "company"
        BY <3>1, <3>2, <3>3 DEF CompaniesFirst
      <3> QED BY <2>3, <3>1, <3>4
    <2>5. Begun' = Begun => PersonsLast'
      BY <1>1, <2>2 DEF SameEntries, PersonsLast, NoCompanyLeft
    <2> QED BY <2>4, <2>5
  <1> QED BY <1>2, <1>3 DEF SameLeft

\* A person is at hand: the companies are done.
LEMMA PersonAtHand ==
  ASSUME CatalogInv, CompaniesFirst, run.left # <<>>, ~IsCompany
  PROVE  NoCompanyLeft
  <1>1. IsSeq(run.left)
    BY DEF CatalogInv, Control
  <1>2. /\ \A k \in ToSet(run.left) : k = It \/ \E i \in DOMAIN run.left : 1 < i /\ run.left[i] = k
        /\ 1 \in DOMAIN run.left /\ run.left[1] = It
    BY <1>1, TailPlaces DEF It
  <1> QED BY <1>2 DEF CompaniesFirst, NoCompanyLeft, IsCompany, Entry

\* A company is at hand: no person has been begun.
LEMMA CompanyAtHand ==
  ASSUME CatalogInv, PersonsLast, run.left # <<>>, IsCompany, SameEntries,
         Begun' \subseteq Begun \cup {Entry.id}, run'.ok \subseteq Begun'
  PROVE  PersonsLast' /\ Employed'
  <1>1. It \in ToSet(run.left) /\ IsEntry(Entry, contacts) /\ IsDoc(run.doc, contacts)
    BY TailSeq, TheEntry DEF CatalogInv, Control, Shapes, It
  <1>2. ASSUME NEW p \in DOMAIN run.doc, run.doc[p].id \in Begun \cup {Entry.id}
        PROVE  run.doc[p].kind = "company"
    <2>1. CASE run.doc[p].id = Entry.id
      <3>1. run.doc[p].id.kind = run.doc[p].kind /\ Entry.id.kind = Entry.kind
        BY <1>1 DEF IsDoc, Entries, IsEntry
      <3> QED BY <2>1, <3>1 DEF IsCompany
    <2>2. CASE run.doc[p].id \in Begun
      BY <1>1, <2>2 DEF PersonsLast, NoCompanyLeft, IsCompany, Entry
    <2> QED BY <1>2, <2>1, <2>2
  <1>3. \A p \in DOMAIN run'.doc : run'.doc[p].id \in Begun' => run'.doc[p].kind = "company"
    BY <1>2 DEF SameEntries
  <1> QED BY <1>3 DEF PersonsLast, Employed, Names

\* A company that was the only one of its name after a step was so before.
LEMMA OnlyOneBefore ==
  ASSUME SameEntries, SameContacts, NEW c \in DOMAIN run.doc, run.doc[c].kind = "company",
         run.doc[c].oo # None, OnlyOne(run.doc[c])'
  PROVE  OnlyOne(run.doc[c])
  <1>1. run'.doc[c].oo = run.doc[c].oo /\ run'.doc[c].name = run.doc[c].name
    BY DEF SameEntries
  <1>2. \A d \in Live : /\ d \in Live' /\ contacts'[d].company = contacts[d].company
                        /\ contacts[d].company => contacts'[d].name = contacts[d].name
    BY DEF SameContacts, Live
  <1> QED BY <1>1, <1>2 DEF OnlyOne

\* Nothing is written.
LEMMA EmployedStays ==
  ASSUME CatalogInv, Applying, EmployersInv, SameEntries, SameContacts, Begun' = Begun, run'.ok \subseteq Begun,
         \A c \in DOMAIN run.doc : run.doc[c].kind = "company" /\ run.doc[c].id \in run'.ok => run.doc[c].id \in run.ok,
         \A c \in DOMAIN contacts : contacts'[c].employer = contacts[c].employer
  PROVE  BegunAreKnown' /\ Employed'
  <1>1. BegunAreKnown /\ Employed
    BY DEF EmployersInv
  <1>2. ASSUME NEW p \in DOMAIN run.doc, run.doc[p].id \in Begun
        PROVE  run.doc[p].oo # None /\ run'.doc[p].oo = run.doc[p].oo /\ run.doc[p].oo \in DOMAIN contacts
    BY <1>1, <1>2 DEF BegunAreKnown, SameEntries, CatalogInv, Shapes, IsDoc, Entries, IsEntry
  <1>3. BegunAreKnown'
    BY <1>2 DEF BegunAreKnown, SameEntries
  <1>4. ASSUME NEW p \in DOMAIN run.doc, NEW c \in DOMAIN run.doc,
               run'.doc[p].id \in Begun', run'.doc[c].id \in run'.ok,
               Names(run.doc[p], run.doc[c])', OnlyOne(run.doc[c])', SameOrgs(p)'
        PROVE  contacts'[run'.doc[p].oo].employer = run'.doc[c].oo
    <2>1. /\ run.doc[p].id \in Begun /\ run.doc[c].id \in run'.ok /\ run.doc[c].kind = "company"
          /\ Names(run.doc[p], run.doc[c])
      BY <1>4 DEF SameEntries, Names
    <2>2. run.doc[c].id \in run.ok /\ run.doc[c].id \in Begun
      BY <2>1 DEF Begun
    <2>3. OnlyOne(run.doc[c])
      BY <1>2, <1>4, <2>1, <2>2, OnlyOneBefore
    <2>4. SameOrgs(p)
      <3> SUFFICES ASSUME NEW q \in DOMAIN run.doc, run.doc[q].id \in Begun, run.doc[q].oo = run.doc[p].oo
                   PROVE  run.doc[q].org \in {"", run.doc[p].org}
        BY DEF SameOrgs
      <3>1. run'.doc[q].oo = run'.doc[p].oo /\ run'.doc[q].id \in Begun' /\ q \in DOMAIN run'.doc
        BY <1>2, <2>1 DEF SameEntries
      <3> QED BY <1>4, <3>1 DEF SameOrgs, SameEntries
    <2>5. contacts[run.doc[p].oo].employer = run.doc[c].oo
      BY <1>1, <2>1, <2>2, <2>3, <2>4 DEF Employed
    <2> QED BY <1>2, <2>1, <2>2, <2>5
  <1>5. Employed'
    BY <1>4 DEF Employed, SameEntries
  <1> QED BY <1>3, <1>5

\* Who has been there is there, as long as nobody takes contacts away.
LEMMA AllAreLive ==
  ASSUME NobodyGone, past.removals = 0
  PROVE  Live = DOMAIN contacts
  BY DEF NobodyGone, Live

LEMMA GoneStay ==
  ASSUME NobodyGone, UNCHANGED contacts, past'.removals = past.removals
  PROVE  NobodyGone'
  BY DEF NobodyGone

LEMMA RemovalsStay ==
  ASSUME CatalogInv, Fault \/ UNCHANGED past \/ \E n, kept : AnswersLost(n, kept)
  PROVE  past'.removals = past.removals
  BY DEF CatalogInv, Shapes, PastFields, Fault, AnswersLost

\* What is written neither takes a contact away nor makes one that is gone.
LEMMA NobodyGoes ==
  ASSUME NobodyGone, past'.removals = past.removals,
         \A c \in DOMAIN contacts' :
           ~contacts'[c].gone \/ (c \in DOMAIN contacts /\ contacts'[c].gone = contacts[c].gone)
  PROVE  NobodyGone'
  BY DEF NobodyGone

\* The steps of the other commands, and those after which nothing is promised.
LEMMA NotApplying ==
  ASSUME CatalogInv, EmployersInv, UNCHANGED contacts, past'.removals = past.removals, ~Applying'
  PROVE  EmployersInv'
  BY GoneStay DEF EmployersInv

LEMMA OtherCommands ==
  ASSUME CatalogInv, EmployersInv, Merge \/ Save \/ Approve \/ Match \/ MatchAgainstOO \/ Stop
  PROVE  EmployersInv'
  <1>1. UNCHANGED contacts
    BY DEF Merge, Save, Approve, Match, MatchAgainstOO, Stop
  <1>2. DOMAIN past = PastFields /\ DOMAIN run = RunFields
    BY DEF CatalogInv, Shapes
  <1>3. \A cmd, phase, doc : Begin(cmd, phase, doc) => past'.removals = past.removals /\ run'.cmd = cmd
    BY <1>2, RestProperties DEF Begin, PastFields, RunFields
  <1>4. CASE Merge \/ Match
    <2>1. \E cmd \in {"merge", "match"} : \E phase, doc : Begin(cmd, phase, doc)
      BY <1>4 DEF Merge, Match
    <2>2. past'.removals = past.removals /\ run'.cmd # "apply"
      BY <1>3, <2>1
    <2> QED BY <1>1, <2>2, NotApplying DEF Applying
  <1>5. CASE Save \/ Stop
    <2>1. past'.removals = past.removals /\ run' = AtRest
      BY <1>2, <1>5 DEF Save, Stop, PastFields
    <2> QED BY <1>1, <2>1, NotApplying, RestProperties DEF Applying
  <1>6. CASE Approve
    <2>1. past'.removals = past.removals /\ run'.cmd = "none"
      BY <1>6 DEF Approve
    <2> QED BY <1>1, <2>1, NotApplying DEF Applying
  <1>7. CASE MatchAgainstOO
    <2>1. run.cmd # "apply"
      BY <1>7 DEF MatchAgainstOO, CatalogInv, Control
    <2>2. run'.cmd # "apply"
      BY <1>2, <1>7, <2>1, RestProperties DEF MatchAgainstOO, RunFields
    <2>3. past'.removals = past.removals
      BY <1>7, RemovalsStay DEF MatchAgainstOO
    <2> QED BY <1>1, <2>2, <2>3, NotApplying DEF Applying
  <1> QED BY <1>4, <1>5, <1>6, <1>7

LEMMA TakeAwayEmployers ==
  ASSUME CatalogInv, EmployersInv, TakeAway PROVE EmployersInv'
  <1>1. past'.removals = past.removals + 1 /\ past.removals \in Nat
    BY DEF TakeAway, EmployersInv, NobodyGone, CatalogInv, Shapes, PastFields
  <1>2. past'.removals \in Nat /\ past'.removals # 0
    BY <1>1
  <1> QED BY <1>2 DEF EmployersInv, NobodyGone, Applying

\* A request that fails: nothing is promised of this run.
LEMMA FailedEmployers ==
  ASSUME CatalogInv, NobodyGone', Note
  PROVE  EmployersInv'
  <1>1. run'.failed
    BY DEF Note, CatalogInv, Shapes, RunFields
  <1> QED BY <1>1 DEF EmployersInv, Applying

LEMMA ErrorEmployers ==
  ASSUME CatalogInv, EmployersInv, NoteError, UNCHANGED contacts
  PROVE  EmployersInv'
  <1>1. past'.removals = past.removals
    BY RemovalsStay DEF NoteError
  <1> QED BY <1>1, GoneStay, FailedEmployers DEF EmployersInv, NoteError

LEMMA ApplyEmployers ==
  ASSUME CatalogInv, EmployersInv, Apply PROVE EmployersInv'
  <1>1. /\ run' = [AtRest EXCEPT !.cmd = "apply", !.phase = "next", !.doc = file, !.left = ApplyOrder(file)]
        /\ past' = [past EXCEPT !.runs = @ + 1] /\ UNCHANGED contacts
    BY DEF Apply
  <1>2. /\ run'.phase = "next" /\ run'.doc = file /\ run'.left = ApplyOrder(file) /\ run'.ok = {}
    BY <1>1 DEF AtRest
  <1>3. past'.removals = past.removals
    BY <1>1 DEF CatalogInv, Shapes, PastFields
  <1>4. NobodyGone'
    BY <1>1, <1>3, GoneStay DEF EmployersInv
  <1>5. IsSeq(file)
    BY DEF CatalogInv, Shapes, IsDoc, Entries
  <1>6. CompaniesFirst'
    BY <1>2, <1>5, OrderOfApplying DEF CompaniesFirst
  <1>7. Begun' = {}
    BY <1>2 DEF Begun
  <1>8. PersonsLast' /\ BegunAreKnown' /\ Employed' /\ OrgIsFound'
    BY <1>2, <1>7 DEF PersonsLast, BegunAreKnown, Employed, OrgIsFound
  <1> QED BY <1>4, <1>6, <1>8 DEF EmployersInv

\* A step of applying that writes nothing.
LEMMA QuietEmployers ==
  ASSUME CatalogInv, EmployersInv, UNCHANGED <<contacts, past>>, SameEntries, SameLeft,
         run'.cmd = run.cmd, run'.failed = run.failed, run'.ok = run.ok, Begun' = Begun,
         Applying => OrgIsFound'
  PROVE  EmployersInv'
  <1>1. NobodyGone' /\ (Applying' <=> Applying)
    BY GoneStay DEF EmployersInv, Applying
  <1>2. ASSUME Applying
        PROVE  CompaniesFirst' /\ PersonsLast' /\ BegunAreKnown' /\ OrgIsFound' /\ Employed'
    <2>1. CompaniesFirst' /\ PersonsLast'
      BY <1>2, LeftStays DEF EmployersInv
    <2>2. SameContacts
      BY DEF SameContacts
    <2>3. run'.ok \subseteq Begun
      BY DEF Begun
    <2>4. BegunAreKnown' /\ Employed'
      BY <1>2, <2>2, <2>3, EmployedStays
    <2> QED BY <1>2, <2>1, <2>4
  <1> QED BY <1>1, <1>2 DEF EmployersInv

LEMMA SameDoc ==
  ASSUME run'.doc = run.doc PROVE SameEntries
  BY DEF SameEntries

LEMMA ApplyApprovedEmployers ==
  ASSUME CatalogInv, EmployersInv, ApplyApproved PROVE EmployersInv'
  <1>1. run.phase = "next" /\ UNCHANGED <<contacts, past>> /\ DOMAIN run = RunFields
    BY DEF ApplyApproved, CatalogInv, Shapes
  <1>2. CASE run.left = <<>> \/ ~Entry.approve \/ Entry.status = "conflict"
    <2>1. /\ run'.cmd = run.cmd /\ run'.failed = run.failed /\ run'.ok = run.ok /\ run'.doc = run.doc
          /\ run'.phase \in {"next", "save"} /\ SameLeft
      BY <1>1, <1>2 DEF ApplyApproved, Goto, RunFields, SameLeft
    <2>2. Begun' = Begun /\ OrgIsFound'
      BY <1>1, <2>1 DEF Begun, OrgIsFound
    <2> QED BY <1>1, <2>1, <2>2, SameDoc, QuietEmployers
  <1>3. CASE run.left # <<>> /\ run' = [run EXCEPT !.phase = "find", !.doc[It].name = Name]
    <2> DEFINE e == [Entry EXCEPT !.name = Name]
    <2>1. IsEntry(Entry, contacts)
      BY <1>3, TheEntry
    <2>2. /\ run'.cmd = run.cmd /\ run'.failed = run.failed /\ run'.ok = run.ok /\ run'.left = run.left
          /\ run'.phase = "find" /\ run'.doc = [run.doc EXCEPT ![It] = e]
      BY <1>1, <1>3 DEF RunFields, Entry
    <2>3. /\ e.id = Entry.id /\ e.kind = Entry.kind /\ e.org = Entry.org /\ e.oo = Entry.oo
          /\ IsCompany => e.name = Entry.name
      BY <2>1 DEF IsEntry, EntryFields, Name
    <2> HIDE DEF e
    <2>4. SameEntries
      BY <1>3, <2>2, <2>3, EntryChanged
    <2>5. Begun' = Begun /\ OrgIsFound' /\ SameLeft
      BY <1>1, <2>2 DEF Begun, OrgIsFound, SameLeft
    <2> QED BY <1>1, <2>2, <2>4, <2>5, QuietEmployers
  <1> QED BY <1>2, <1>3 DEF ApplyApproved

\* An entry that has a contact has one of the CRM.
LEMMA ContactIsThere ==
  ASSUME CatalogInv, run.left # <<>>, Entry.oo # None
  PROVE  Entry.oo \in DOMAIN contacts
  BY TheEntry DEF IsEntry

\* An entry is left because its contact is gone: that is not while nobody is.
LEMMA NotThereEmployers ==
  ASSUME CatalogInv, EmployersInv, NotThere, UNCHANGED <<contacts, past>>, run.left # <<>>,
         NEW c \in DOMAIN contacts, c \notin Live
  PROVE  EmployersInv'
  <1>1. past.removals # 0
    BY AllAreLive DEF EmployersInv
  <1>2. ~Applying'
    BY <1>1 DEF Applying
  <1> QED BY <1>2, NotApplying

LEMMA FindEmployers ==
  ASSUME CatalogInv, EmployersInv, Find PROVE EmployersInv'
  <1>1. /\ run.phase = "find" /\ UNCHANGED contacts /\ DOMAIN run = RunFields /\ run.left # <<>>
        /\ run.cmd = "apply"
    BY DEF Find, CatalogInv, Shapes, Control, Busy
  <1>2. CASE Entry.oo # None /\ Entry.oo \notin Live /\ NotThere /\ UNCHANGED past
    BY <1>1, <1>2, ContactIsThere, NotThereEmployers
  <1>3. CASE NoteError
    BY <1>1, <1>3, ErrorEmployers
  <1>4. CASE /\ run' = [run EXCEPT !.hit = IF Entry.oo = None THEN Lookup ELSE Entry.oo,
                                   !.phase = IF IsCompany THEN "write" ELSE "org"]
             /\ UNCHANGED past
    <2>1. /\ run'.cmd = run.cmd /\ run'.failed = run.failed /\ run'.ok = run.ok /\ run'.left = run.left
          /\ run'.phase = IF IsCompany THEN "write" ELSE "org"
          /\ run'.doc = run.doc
      BY <1>1, <1>4 DEF RunFields
    <2>2. Begun' = Begun /\ SameLeft
      BY <1>1, <2>1 DEF Begun, SameLeft
    <2>3. OrgIsFound'
      <3>1. IsCompany' <=> IsCompany
        BY <2>1 DEF IsCompany, Entry, It
      <3> QED BY <2>1, <3>1 DEF OrgIsFound
    <2> QED BY <1>1, <1>4, <2>1, <2>2, <2>3, SameDoc, QuietEmployers
  <1> QED BY <1>2, <1>3, <1>4 DEF Find

\* The company that is found is the one that was applied, if it is the only one of the name.
LEMMA OnlyOneIsFound ==
  ASSUME CatalogInv, CompaniesHaveNoAddress, NobodyGone, past.removals = 0, NEW c \in DOMAIN run.doc,
         run.doc[c].oo # None, NEW p, Names(p, run.doc[c]), OnlyOne(run.doc[c])
  PROVE  FindCompany([stem |-> p.org, note |-> ""]) = run.doc[c].oo
  <1> DEFINE name == [stem |-> p.org, note |-> ""]
             S == {d \in Live : contacts[d].company /\ CompanyKey(contacts[d].name) = CompanyKey(name)}
             o == run.doc[c].oo
  <1>1. /\ run.doc[c].kind = "company" /\ CompanyKey(name) = CompanyKey(run.doc[c].name)
    BY DEF Names
  <1>2. FindCompany(name) = Least(S)
    BY DEF FindCompany, CompanyKey
  <1>3. o \in DOMAIN contacts /\ IsOf(contacts[o], run.doc[c])
    BY DEF CatalogInv, Shapes, IsDoc, Entries, IsEntry
  <1>4. o \in Live
    BY <1>3, AllAreLive
  <1>5. o \in S
    BY <1>1, <1>3, <1>4 DEF IsOf
  <1>6. S \subseteq Live
    OBVIOUS
  <1>7. \A d \in S : d = o
    BY <1>1 DEF OnlyOne, CompanyKey
  <1> HIDE DEF S, o, name
  <1>8. AreContacts(contacts)
    BY DEF CatalogInv, Shapes
  <1>9. Least(S) \in S
    BY <1>5, <1>6, <1>8, LeastLive
  <1> QED BY <1>2, <1>7, <1>9 DEF o, name

LEMMA FindOrgEmployers ==
  ASSUME CatalogInv, CompaniesHaveNoAddress, EmployersInv, FindOrg PROVE EmployersInv'
  <1>1. /\ run.phase = "org" /\ UNCHANGED contacts /\ DOMAIN run = RunFields /\ run.left # <<>> /\ ~IsCompany
    BY DEF FindOrg, CatalogInv, Shapes, Control, Busy
  <1>2. CASE /\ run' = [run EXCEPT !.phase = "write",
                              !.org = IF Entry.org = "" THEN None ELSE FindCompany([stem |-> Entry.org, note |-> ""])]
             /\ UNCHANGED past
    <2>1. /\ run'.cmd = run.cmd /\ run'.failed = run.failed /\ run'.ok = run.ok /\ run'.left = run.left
          /\ run'.doc = run.doc /\ run'.phase = "write"
          /\ run'.org = IF Entry.org = "" THEN None ELSE FindCompany([stem |-> Entry.org, note |-> ""])
      BY <1>1, <1>2 DEF RunFields
    <2>2. Begun' = Begun /\ SameLeft
      BY <1>1, <2>1 DEF Begun, SameLeft
    <2>3. ASSUME Applying PROVE OrgIsFound'
      <3>1. Entry' = Entry /\ run'.doc = run.doc
        BY <2>1 DEF Entry, It
      <3>2. ASSUME NEW c \in DOMAIN run.doc, run.doc[c].id \in run.ok, Names(Entry, run.doc[c]), OnlyOne(run.doc[c])
            PROVE  run'.org = run.doc[c].oo
        <4>1. run.doc[c].oo # None
          BY <2>3, <3>2 DEF EmployersInv, BegunAreKnown, Begun
        <4>2. NobodyGone /\ past.removals = 0
          BY <2>3 DEF EmployersInv, Applying
        <4>3. FindCompany([stem |-> Entry.org, note |-> ""]) = run.doc[c].oo
          BY <3>2, <4>1, <4>2, OnlyOneIsFound
        <4>4. Entry.org # ""
          BY <3>2 DEF Names
        <4> QED BY <2>1, <4>3, <4>4
      <3>3. \A c \in DOMAIN run.doc : OnlyOne(run.doc[c])' <=> OnlyOne(run.doc[c])
        BY <1>1, <3>1 DEF OnlyOne, Live
      <3> QED BY <2>1, <3>1, <3>2, <3>3 DEF OrgIsFound
    <2> QED BY <1>1, <1>2, <2>1, <2>2, <2>3, SameDoc, QuietEmployers
  <1>3. CASE Fault /\ run' = [run EXCEPT !.phase = "write", !.org = None, !.failed = TRUE]
    <2>1. run'.failed
      BY <1>1, <1>3 DEF RunFields
    <2>2. past'.removals = past.removals
      BY <1>3, RemovalsStay
    <2> QED BY <1>1, <2>1, <2>2, NotApplying DEF Applying
  <1> QED BY <1>2, <1>3 DEF FindOrg

LEMMA EnsureEmployers ==
  ASSUME CatalogInv, EmployersInv, Ensure PROVE EmployersInv'
  <1>1. /\ run.phase = "ensure" /\ UNCHANGED contacts /\ DOMAIN run = RunFields /\ run.left # <<>> /\ Entry.oo # None
    BY DEF Ensure, CatalogInv, Shapes, Control, Busy
  <1>2. CASE /\ run' = [run EXCEPT !.phase = "add", !.todo = ToSet(Entry.emails) \ contacts[Entry.oo].emails]
             /\ UNCHANGED past
    <2>1. /\ run'.cmd = run.cmd /\ run'.failed = run.failed /\ run'.ok = run.ok /\ run'.left = run.left
          /\ run'.doc = run.doc /\ run'.phase = "add"
      BY <1>1, <1>2 DEF RunFields
    <2>2. Begun' = Begun /\ SameLeft /\ OrgIsFound'
      BY <1>1, <2>1 DEF Begun, SameLeft, OrgIsFound, Entry, It
    <2> QED BY <1>1, <1>2, <2>1, <2>2, SameDoc, QuietEmployers
  <1>3. CASE Entry.oo \notin Live /\ NotThere /\ UNCHANGED past
    BY <1>1, <1>3, ContactIsThere, NotThereEmployers
  <1>4. CASE NoteError
    BY <1>1, <1>4, ErrorEmployers
  <1> QED BY <1>2, <1>3, <1>4 DEF Ensure

LEMMA AddEmployers ==
  ASSUME CatalogInv, EmployersInv, Add PROVE EmployersInv'
  <1>1. /\ run.phase = "add" /\ DOMAIN run = RunFields /\ run.left # <<>> /\ Entry.oo # None
        /\ IsEntry(Entry, contacts) /\ It \in DOMAIN run.doc /\ It \in ToSet(run.left)
    BY TheEntry, TailSeq DEF Add, CatalogInv, Shapes, Control, Busy, It
  <1>2. CASE /\ run' = [run EXCEPT !.phase = "next", !.left = Tail(@), !.doc[It].status = "applied",
                                   !.ok = @ \cup {Entry.id}]
             /\ UNCHANGED <<contacts, past>>
    <2> DEFINE e == [Entry EXCEPT !.status = "applied"]
    <2>1. /\ run'.cmd = run.cmd /\ run'.failed = run.failed /\ run'.ok = run.ok \cup {Entry.id}
          /\ run'.left = Tail(run.left) /\ run'.phase = "next" /\ run'.doc = [run.doc EXCEPT ![It] = e]
      BY <1>1, <1>2 DEF RunFields, Entry
    <2>2. /\ e.id = Entry.id /\ e.kind = Entry.kind /\ e.org = Entry.org /\ e.name = Entry.name
          /\ e.oo = Entry.oo
      BY <1>1 DEF IsEntry, EntryFields
    <2> HIDE DEF e
    <2>3. SameEntries /\ run'.doc[It] = e
      BY <1>1, <2>1, <2>2, EntryChanged
    <2>4. Begun' = Begun /\ SameLeft /\ run'.ok = Begun
      BY <1>1, <2>1 DEF Begun, SameLeft
    <2>5. NobodyGone' /\ (Applying' <=> Applying)
      BY <1>2, <2>1, GoneStay DEF EmployersInv, Applying
    <2>6. OrgIsFound'
      BY <2>1 DEF OrgIsFound
    <2>7. ASSUME Applying PROVE CompaniesFirst' /\ PersonsLast' /\ BegunAreKnown' /\ Employed'
      <3>1. CompaniesFirst' /\ PersonsLast'
        BY <2>3, <2>4, <2>7, LeftStays DEF EmployersInv
      <3>2. CASE IsCompany
        <4>1. Employed'
          BY <1>1, <2>3, <2>4, <2>7, <3>2, CompanyAtHand DEF EmployersInv
        <4>2. BegunAreKnown'
          BY <2>3, <2>4, <2>7 DEF EmployersInv, BegunAreKnown, SameEntries
        <4> QED BY <3>1, <4>1, <4>2
      <3>3. CASE ~IsCompany
        <4>1. ASSUME NEW c \in DOMAIN run.doc, run.doc[c].kind = "company", run.doc[c].id \in run'.ok
              PROVE  run.doc[c].id \in run.ok
          <5>1. run.doc[c].id.kind = run.doc[c].kind /\ Entry.id.kind = Entry.kind
            BY <1>1 DEF CatalogInv, Shapes, IsDoc, Entries, IsEntry
          <5> QED BY <2>1, <3>3, <4>1, <5>1 DEF IsCompany
        <4>2. SameContacts /\ \A c \in DOMAIN contacts : contacts'[c].employer = contacts[c].employer
          BY <1>2 DEF SameContacts
        <4> QED BY <2>3, <2>4, <2>7, <3>1, <4>1, <4>2, EmployedStays
      <3> QED BY <3>2, <3>3
    <2> QED BY <2>5, <2>6, <2>7 DEF EmployersInv
  <1>3. CASE /\ run.todo # {} /\ Entry.oo \in Live
             /\ contacts' = [contacts EXCEPT ![Entry.oo].emails = @ \cup {Missing}]
             /\ \/ run' = [run EXCEPT !.todo = @ \ {Missing}] /\ UNCHANGED past
                \/ NoteError
    <2>1. \A c \in DOMAIN contacts : DOMAIN contacts[c] = ContactFields
      BY DEF CatalogInv, Shapes, AreContacts, IsContact
    <2>2. /\ DOMAIN contacts' = DOMAIN contacts
          /\ \A c \in DOMAIN contacts :
               /\ contacts'[c].company = contacts[c].company /\ contacts'[c].gone = contacts[c].gone
               /\ contacts'[c].name = contacts[c].name /\ contacts'[c].employer = contacts[c].employer
      BY <1>3, <2>1 DEF ContactFields
    <2>3. past'.removals = past.removals
      BY <1>3, RemovalsStay DEF NoteError
    <2>4. NobodyGone'
      BY <2>2, <2>3, NobodyGoes DEF EmployersInv
    <2>5. CASE NoteError
      BY <2>4, <2>5, FailedEmployers DEF NoteError
    <2>6. CASE run' = [run EXCEPT !.todo = @ \ {Missing}] /\ UNCHANGED past
      <3>1. /\ run'.cmd = run.cmd /\ run'.failed = run.failed /\ run'.ok = run.ok /\ run'.left = run.left
            /\ run'.doc = run.doc /\ run'.phase = "add"
        BY <1>1, <2>6 DEF RunFields
      <3>2. SameContacts /\ SameEntries /\ SameLeft /\ Begun' = Begun /\ OrgIsFound'
        BY <1>1, <2>2, <3>1, SameDoc DEF SameContacts, SameLeft, Begun, OrgIsFound, Entry, It
      <3>3. Applying' <=> Applying
        BY <2>3, <3>1 DEF Applying
      <3>4. ASSUME Applying PROVE CompaniesFirst' /\ PersonsLast' /\ BegunAreKnown' /\ Employed'
        <4>1. CompaniesFirst' /\ PersonsLast'
          BY <3>2, <3>4, LeftStays DEF EmployersInv
        <4>2. run'.ok \subseteq Begun
          BY <3>1 DEF Begun
        <4> QED BY <2>2, <3>1, <3>2, <3>4, <4>1, <4>2, EmployedStays
      <3> QED BY <2>4, <3>2, <3>3, <3>4 DEF EmployersInv
    <2> QED BY <1>3, <2>5, <2>6
  <1>4. CASE Entry.oo \notin Live /\ NotThere /\ UNCHANGED <<contacts, past>>
    BY <1>1, <1>4, ContactIsThere, NotThereEmployers
  <1>5. CASE NoteError /\ UNCHANGED contacts
    BY <1>5, ErrorEmployers
  <1> QED BY <1>2, <1>3, <1>4, <1>5 DEF Add

\* A person's contact is made or updated.
LEMMA PersonWritten ==
  ASSUME CatalogInv, EmployersInv, Applying, run.phase = "write", run.left # <<>>, ~IsCompany,
         SameEntries, SameContacts, run'.left = run.left, run'.ok = run.ok, Begun' = run.ok \cup {Entry.id},
         NEW o, o # None, run'.doc[It].oo = o,
         run.hit = None => o \notin DOMAIN contacts /\ contacts'[o].employer = run.org,
         run.hit # None => contacts'[o].employer = IF run.org = None THEN contacts[o].employer ELSE run.org,
         \A c \in DOMAIN contacts : c # o => contacts'[c].employer = contacts[c].employer
  PROVE  CompaniesFirst' /\ PersonsLast' /\ BegunAreKnown' /\ Employed'
  <1>1. /\ Begun = run.ok /\ It \in DOMAIN run.doc /\ IsDoc(run.doc, contacts)
        /\ CompaniesFirst /\ PersonsLast /\ BegunAreKnown /\ OrgIsFound /\ Employed
    BY TheEntry DEF Begun, EmployersInv, CatalogInv, Shapes
  <1>2. CompaniesFirst'
    BY <1>1, LeftStays DEF SameLeft
  <1>3. PersonsLast'
    <2>1. NoCompanyLeft /\ ToSet(run.left) \subseteq DOMAIN run.doc
      BY <1>1, PersonAtHand DEF CatalogInv, Control
    <2>2. NoCompanyLeft'
      BY <2>1 DEF NoCompanyLeft, SameEntries
    <2> QED BY <2>2 DEF PersonsLast
  <1>4. ASSUME NEW p \in DOMAIN run.doc, run.doc[p].id \in run.ok
        PROVE  run.doc[p].oo # None /\ run'.doc[p].oo = run.doc[p].oo /\ run.doc[p].oo \in DOMAIN contacts
    BY <1>1, <1>4 DEF BegunAreKnown, SameEntries, IsDoc, Entries, IsEntry
  <1>5. ASSUME NEW p \in DOMAIN run.doc, run'.doc[p].id \in Begun'
        PROVE  p = It \/ run.doc[p].id \in run.ok
    BY <1>1, <1>5 DEF SameEntries, IsDoc, IDsDiffer, Entry
  <1>6. BegunAreKnown'
    BY <1>4, <1>5 DEF BegunAreKnown, SameEntries
  <1>7. ASSUME NEW p \in DOMAIN run.doc, NEW c \in DOMAIN run.doc,
               run'.doc[p].id \in Begun', run'.doc[c].id \in run'.ok,
               Names(run.doc[p], run.doc[c])', OnlyOne(run.doc[c])', SameOrgs(p)'
        PROVE  contacts'[run'.doc[p].oo].employer = run'.doc[c].oo
    <2>1. /\ run.doc[c].id \in run.ok /\ run.doc[c].kind = "company" /\ Names(run.doc[p], run.doc[c])
      BY <1>7 DEF SameEntries, Names
    <2>2. run.doc[c].oo # None /\ run'.doc[c].oo = run.doc[c].oo
      BY <1>4, <2>1
    <2>3. OnlyOne(run.doc[c])
      BY <1>7, <2>1, <2>2, OnlyOneBefore
    <2>4. ASSUME run.doc[p].id \in run.ok
          PROVE  contacts[run.doc[p].oo].employer = run.doc[c].oo
      <3>1. SameOrgs(p)
        <4> SUFFICES ASSUME NEW q \in DOMAIN run.doc, run.doc[q].id \in Begun, run.doc[q].oo = run.doc[p].oo
                     PROVE  run.doc[q].org \in {"", run.doc[p].org}
          BY DEF SameOrgs
        <4>1. run'.doc[q].oo = run'.doc[p].oo /\ run'.doc[q].id \in Begun' /\ q \in DOMAIN run'.doc
          BY <1>1, <1>4, <2>4 DEF SameEntries
        <4> QED BY <1>7, <4>1 DEF SameOrgs, SameEntries
      <3> QED BY <1>1, <2>1, <2>3, <2>4, <3>1 DEF Employed
    <2>5. CASE run'.doc[p].oo # o
      <3>1. run.doc[p].id \in run.ok
        BY <1>5, <1>7, <2>5
      <3> QED BY <1>4, <2>2, <2>4, <2>5, <3>1
    <2>6. CASE run'.doc[p].oo = o
      <3>1. Entry.org \in {"", run.doc[p].org}
        <4>1. It \in DOMAIN run'.doc /\ run'.doc[It].id \in Begun' /\ run'.doc[It].org = Entry.org
          BY <1>1 DEF SameEntries, Entry
        <4> QED BY <1>7, <2>6, <4>1 DEF SameOrgs, SameEntries
      <3>2. CASE Entry.org = ""
        <4>1. p # It /\ run.org = None
          BY <1>1, <2>1, <3>2 DEF Names, Entry, OrgIsFound
        <4>2. run.doc[p].id \in run.ok
          BY <1>5, <1>7, <4>1
        <4>3. run.hit # None
          BY <1>4, <2>6, <4>2
        <4> QED BY <1>4, <2>2, <2>4, <2>6, <4>1, <4>2, <4>3
      <3>3. CASE Entry.org = run.doc[p].org
        <4>1. Names(Entry, run.doc[c])
          BY <2>1, <3>3 DEF Names, IsCompany
        <4>2. run.org = run.doc[c].oo
          BY <1>1, <2>1, <2>3, <4>1 DEF OrgIsFound
        <4> QED BY <2>2, <2>6, <4>2
      <3> QED BY <3>1, <3>2, <3>3
    <2> QED BY <2>5, <2>6
  <1>8. Employed'
    BY <1>7 DEF Employed, SameEntries
  <1> QED BY <1>2, <1>3, <1>6, <1>8

\* A company's contact is made or found.
LEMMA CompanyWritten ==
  ASSUME CatalogInv, EmployersInv, Applying, run.phase = "write", run.left # <<>>, IsCompany,
         SameEntries, run'.left = run.left, run'.ok = run.ok, Begun' = run.ok \cup {Entry.id},
         run'.doc[It].oo # None
  PROVE  CompaniesFirst' /\ PersonsLast' /\ BegunAreKnown' /\ Employed'
  <1>1. /\ Begun = run.ok /\ It \in DOMAIN run.doc /\ IsDoc(run.doc, contacts)
        /\ CompaniesFirst /\ PersonsLast /\ BegunAreKnown
    BY TheEntry DEF Begun, EmployersInv, CatalogInv, Shapes
  <1>2. CompaniesFirst'
    BY <1>1, LeftStays DEF SameLeft
  <1>3. PersonsLast' /\ Employed'
    BY <1>1, CompanyAtHand
  <1>4. BegunAreKnown'
    <2>1. \A p \in DOMAIN run.doc : run.doc[p].id = Entry.id => p = It
      BY <1>1 DEF IsDoc, IDsDiffer, Entry
    <2> QED BY <1>1, <2>1 DEF BegunAreKnown, SameEntries
  <1> QED BY <1>2, <1>3, <1>4

\* Contacts are made, and the entry keeps the last one.
LEMMA CreateEmployers ==
  ASSUME CatalogInv, EmployersInv, run.phase = "write", run.hit = None, NEW n \in Nat, n > 0, Create(n),
         past'.removals = past.removals
  PROVE  EmployersInv'
  <1> DEFINE c == Len(contacts) + n
             e == WithContact(Entry, c)
  <1>1. /\ DOMAIN run = RunFields /\ run.left # <<>> /\ AreContacts(contacts)
        /\ IsEntry(Entry, contacts) /\ It \in DOMAIN run.doc /\ Entry.oo = None
    BY TheEntry DEF CatalogInv, Shapes, Control, Busy, LookedUp
  <1>2. /\ run'.cmd = run.cmd /\ run'.failed = run.failed /\ run'.ok = run.ok /\ run'.left = run.left
        /\ run'.doc = [run.doc EXCEPT ![It] = e] /\ run'.phase = "ensure"
    BY <1>1 DEF Create, RunFields, Entry
  <1>3. /\ e.id = Entry.id /\ e.kind = Entry.kind /\ e.org = Entry.org /\ e.name = Entry.name /\ e.oo = c
    BY <1>1 DEF IsEntry, EntryFields, WithContact
  <1> HIDE DEF e
  <1>4. /\ \A i \in DOMAIN contacts : i \in DOMAIN contacts' /\ contacts'[i] = contacts[i]
        /\ \A i \in DOMAIN contacts' : i \notin DOMAIN contacts => contacts'[i] = Requested
        /\ c \in DOMAIN contacts' \ DOMAIN contacts /\ contacts'[c] = Requested
    BY <1>1, CopiesAreNew DEF Create
  <1>5. c # None
    <2>1. Len(contacts) \in Nat
      BY <1>1, SeqShape DEF AreContacts
    <2> QED BY <2>1 DEF None
  <1> HIDE DEF c
  <1>6. Requested.employer = run.org /\ Requested.gone = FALSE
    BY DEF Requested, Contact
  <1>7. SameEntries /\ run'.doc[It] = e
    BY <1>1, <1>2, <1>3, EntryChanged
  <1>8. SameContacts
    BY <1>4 DEF SameContacts
  <1>9. Begun' = run.ok \cup {Entry.id} /\ OrgIsFound'
    BY <1>2, <1>3, <1>7 DEF Begun, OrgIsFound, Entry, It
  <1>10. NobodyGone'
    BY <1>4, <1>6, NobodyGoes DEF EmployersInv
  <1>11. Applying' <=> Applying
    BY <1>2 DEF Applying
  <1>12. ASSUME Applying PROVE CompaniesFirst' /\ PersonsLast' /\ BegunAreKnown' /\ Employed'
    <2>1. run'.doc[It].oo = c /\ contacts'[c].employer = run.org /\ c \notin DOMAIN contacts
      BY <1>3, <1>4, <1>6, <1>7
    <2>2. \A i \in DOMAIN contacts : i # c => contacts'[i].employer = contacts[i].employer
      BY <1>4
    <2>3. CASE IsCompany
      BY <1>1, <1>2, <1>5, <1>7, <1>9, <1>12, <2>1, <2>3, CompanyWritten
    <2>4. CASE ~IsCompany
      BY <1>1, <1>2, <1>5, <1>7, <1>8, <1>9, <1>12, <2>1, <2>2, <2>4, PersonWritten
    <2> QED BY <2>3, <2>4
  <1> QED BY <1>9, <1>10, <1>11, <1>12 DEF EmployersInv

\* What the update of a person leaves of the contacts.
LEMMA ContactUpdated ==
  ASSUME CatalogInv, CompaniesHaveNoAddress, run.phase = "write", ~IsCompany, run.hit \in Live,
         NEW employer, Update(employer)
  PROVE  /\ SameContacts /\ DOMAIN contacts' = DOMAIN contacts
         /\ contacts'[run.hit].employer = employer
         /\ \A i \in DOMAIN contacts : i # run.hit => contacts'[i].employer = contacts[i].employer
         /\ run.hit # None
  <1> DEFINE c == run.hit
             d == [[contacts[c] EXCEPT !.name = Name] EXCEPT !.employer = employer]
  <1>1. AreContacts(contacts) /\ c \in DOMAIN contacts
    BY DEF CatalogInv, Shapes, Live
  <1>2. c # None
    <2>1. Len(contacts) \in Nat /\ DOMAIN contacts = 1 .. Len(contacts)
      BY <1>1, SeqShape DEF AreContacts
    <2> QED BY <1>1, <2>1 DEF None
  <1>3. contacts' = [contacts EXCEPT ![c] = d]
    BY <1>1 DEF Update
  <1>4. /\ d.company = contacts[c].company /\ d.gone = contacts[c].gone
        /\ d.employer = employer
    BY <1>1 DEF AreContacts, IsContact, ContactFields
  <1>5. ~contacts[c].company
    BY <1>2 DEF CatalogInv, LookedUp, IsOf, IsCompany
  <1> HIDE DEF d
  <1>6. /\ DOMAIN contacts' = DOMAIN contacts /\ contacts'[c] = d
        /\ \A i \in DOMAIN contacts : i # c => contacts'[i] = contacts[i]
    BY <1>1, <1>3, ExceptAny DEF AreContacts
  <1>7. SameContacts
    BY <1>4, <1>5, <1>6 DEF SameContacts
  <1> QED BY <1>2, <1>4, <1>6, <1>7

\* The entry keeps the contact that was found.
LEMMA KeepsContact ==
  ASSUME CatalogInv, run.phase = "write", run.hit # None, Keep
  PROVE  /\ run'.cmd = run.cmd /\ run'.failed = run.failed /\ run'.ok = run.ok /\ run'.left = run.left
         /\ SameEntries /\ run'.doc[It].oo = run.hit
         /\ Begun' = run.ok \cup {Entry.id} /\ OrgIsFound'
  <1> DEFINE e == WithContact(Entry, run.hit)
  <1>1. /\ DOMAIN run = RunFields /\ run.left # <<>> /\ IsEntry(Entry, contacts)
        /\ Entry.oo # None => run.hit = Entry.oo
    BY TheEntry DEF CatalogInv, Shapes, Control, Busy, LookedUp
  <1>2. /\ run'.cmd = run.cmd /\ run'.failed = run.failed /\ run'.ok = run.ok /\ run'.left = run.left
        /\ run'.doc = [run.doc EXCEPT ![It] = e] /\ run'.phase = "ensure"
    BY <1>1 DEF Keep, RunFields, Entry
  <1>3. /\ e.id = Entry.id /\ e.kind = Entry.kind /\ e.org = Entry.org /\ e.name = Entry.name /\ e.oo = run.hit
    BY <1>1 DEF IsEntry, EntryFields, WithContact
  <1> HIDE DEF e
  <1>4. SameEntries /\ run'.doc[It] = e
    BY <1>1, <1>2, <1>3, EntryChanged
  <1>5. Begun' = run.ok \cup {Entry.id} /\ OrgIsFound'
    BY <1>2, <1>3, <1>4 DEF Begun, OrgIsFound, Entry, It
  <1> QED BY <1>2, <1>3, <1>4, <1>5

LEMMA WritePersonEmployers ==
  ASSUME CatalogInv, CompaniesHaveNoAddress, EmployersInv, run.phase = "write", run.hit # None, WritePerson
  PROVE  EmployersInv'
  <1>1. DOMAIN run = RunFields /\ run.left # <<>> /\ run.hit \in DOMAIN contacts /\ ~IsCompany
    BY DEF WritePerson, CatalogInv, Shapes, Control, Busy, LookedUp
  <1>2. ASSUME run.hit \in Live, NEW employer, Update(employer), Fault \/ UNCHANGED past
        PROVE  NobodyGone'
    <2>1. past'.removals = past.removals
      BY <1>2, RemovalsStay
    <2>2. SameContacts /\ DOMAIN contacts' = DOMAIN contacts
      BY <1>1, <1>2, ContactUpdated
    <2> QED BY <2>1, <2>2, NobodyGoes DEF SameContacts, EmployersInv
  <1>3. CASE run.hit \in Live /\ Update(Employer) /\ Keep /\ UNCHANGED past
    <2>1. /\ SameContacts /\ contacts'[run.hit].employer = Employer
          /\ \A i \in DOMAIN contacts : i # run.hit => contacts'[i].employer = contacts[i].employer
      BY <1>1, <1>3, ContactUpdated
    <2>2. /\ run'.cmd = run.cmd /\ run'.failed = run.failed /\ run'.ok = run.ok /\ run'.left = run.left
          /\ SameEntries /\ run'.doc[It].oo = run.hit
          /\ Begun' = run.ok \cup {Entry.id} /\ OrgIsFound'
      BY <1>3, KeepsContact
    <2>3. NobodyGone' /\ (Applying' <=> Applying)
      BY <1>2, <1>3, <2>2 DEF Applying
    <2>4. ASSUME Applying PROVE CompaniesFirst' /\ PersonsLast' /\ BegunAreKnown' /\ Employed'
      BY <1>1, <2>1, <2>2, <2>4, PersonWritten DEF Employer
    <2> QED BY <2>2, <2>3, <2>4 DEF EmployersInv
  <1>4. CASE /\ run.hit \in Live /\ run.org = None /\ Fault
             /\ Update(None)
             /\ run' = [run EXCEPT !.phase = "ensure", !.hit = None, !.doc[It] = WithContact(@, run.hit),
                                   !.failed = TRUE]
    <2>1. run'.failed
      BY <1>1, <1>4 DEF RunFields
    <2> QED BY <1>2, <1>4, <2>1 DEF EmployersInv, Applying
  <1>5. CASE NoteError /\ UNCHANGED contacts
    BY <1>5, ErrorEmployers
  <1>6. CASE run.hit \in Live /\ NoteError /\ Update(Employer)
    <2>1. NobodyGone'
      BY <1>2, <1>6 DEF NoteError
    <2> QED BY <1>6, <2>1, FailedEmployers DEF NoteError
  <1>7. CASE run.hit \notin Live /\ NotThere /\ UNCHANGED <<contacts, past>>
    BY <1>1, <1>7, NotThereEmployers
  <1> QED BY <1>3, <1>4, <1>5, <1>6, <1>7 DEF WritePerson

LEMMA WriteEmployers ==
  ASSUME CatalogInv, CompaniesHaveNoAddress, EmployersInv, Write PROVE EmployersInv'
  <1>1. run.phase = "write" /\ AreContacts(contacts) /\ run.left # <<>> /\ It \in DOMAIN run.doc
    BY TheEntry DEF Write, CatalogInv, Shapes, Control, Busy
  <1>2. CASE run.hit = None /\ Create(1) /\ UNCHANGED past
    BY <1>1, <1>2, CreateEmployers
  <1>3. CASE run.hit = None /\ \E n \in 2 .. MaxCopies : Create(n) /\ AnswersLost(n, 1)
    <2>1. PICK n \in 2 .. MaxCopies : Create(n) /\ AnswersLost(n, 1)
      BY <1>3
    <2>2. n \in Nat /\ n > 0
      BY CopiesAssumption
    <2>3. past'.removals = past.removals
      BY <2>1, RemovalsStay
    <2> QED BY <1>1, <1>3, <2>1, <2>2, <2>3, CreateEmployers
  <1>4. CASE run.hit = None /\ \E n \in 0 .. MaxCopies : Make(n) /\ AnswersLost(n, 0) /\ Note
    <2>1. PICK n \in 0 .. MaxCopies : Make(n) /\ AnswersLost(n, 0) /\ Note
      BY <1>4
    <2>2. n \in Nat
      BY CopiesAssumption
    <2>3. past'.removals = past.removals
      BY <2>1, RemovalsStay
    <2>4. \A c \in DOMAIN contacts' :
            ~contacts'[c].gone \/ (c \in DOMAIN contacts /\ contacts'[c].gone = contacts[c].gone)
      BY <1>1, <2>1, <2>2, CopiesAreNew DEF Requested, Contact
    <2>5. NobodyGone'
      BY <2>3, <2>4, NobodyGoes DEF EmployersInv
    <2> QED BY <2>1, <2>5, FailedEmployers
  <1>5. CASE run.hit # None /\ WriteCompany
    <2>1. IsCompany /\ Keep /\ UNCHANGED <<contacts, past>>
      BY <1>5 DEF WriteCompany
    <2>2. /\ run'.cmd = run.cmd /\ run'.failed = run.failed /\ run'.ok = run.ok /\ run'.left = run.left
          /\ SameEntries /\ run'.doc[It].oo = run.hit
          /\ Begun' = run.ok \cup {Entry.id} /\ OrgIsFound'
      BY <1>1, <1>5, <2>1, KeepsContact
    <2>3. NobodyGone' /\ (Applying' <=> Applying)
      BY <2>1, <2>2, GoneStay DEF EmployersInv, Applying
    <2>4. ASSUME Applying PROVE CompaniesFirst' /\ PersonsLast' /\ BegunAreKnown' /\ Employed'
      BY <1>1, <1>5, <2>1, <2>2, <2>4, CompanyWritten
    <2> QED BY <2>2, <2>3, <2>4 DEF EmployersInv
  <1>6. CASE run.hit # None /\ WritePerson
    BY <1>1, <1>6, WritePersonEmployers
  <1> QED BY <1>2, <1>3, <1>4, <1>5, <1>6 DEF Write

LEMMA EmployersBegin == Init => EmployersInv
  <1> SUFFICES ASSUME Init PROVE EmployersInv
    OBVIOUS
  <1>1. past.removals = 0 /\ run.cmd # "apply" /\ contacts \in InitialContacts
    BY RestProperties DEF Init
  <1>2. ASSUME NEW i \in DOMAIN contacts PROVE ~contacts[i].gone
    <2> DEFINE c == contacts[i]
    <2>1. c \in ToSet(contacts)
      BY DEF ToSet
    <2> HIDE DEF c
    <2>2. c = Contact(c.company, c.name, c.emails, c.employer, NoEntry)
      BY <1>1, <2>1, ContactsAssumption
    <2>3. ~c.gone
      BY <2>2 DEF Contact
    <2> QED BY <2>3 DEF c
  <1> QED BY <1>1, <1>2 DEF EmployersInv, NobodyGone, Applying

LEMMA EmployersNext ==
  ASSUME CatalogInv, CompaniesHaveNoAddress, EmployersInv, [Next]_vars
  PROVE  EmployersInv'
  <1>1. CASE Merge \/ Save \/ Approve \/ Match \/ MatchAgainstOO \/ Stop
    BY <1>1, OtherCommands
  <1>2. CASE Apply
    BY <1>2, ApplyEmployers
  <1>3. CASE ApplyApproved
    BY <1>3, ApplyApprovedEmployers
  <1>4. CASE Find
    BY <1>4, FindEmployers
  <1>5. CASE FindOrg
    BY <1>5, FindOrgEmployers
  <1>6. CASE Write
    BY <1>6, WriteEmployers
  <1>7. CASE Ensure
    BY <1>7, EnsureEmployers
  <1>8. CASE Add
    BY <1>8, AddEmployers
  <1>9. CASE TakeAway
    BY <1>9, TakeAwayEmployers
  <1>10. CASE UNCHANGED vars
    BY <1>10 DEF vars, EmployersInv, NobodyGone, Applying, CompaniesFirst, PersonsLast, NoCompanyLeft,
                 BegunAreKnown, OrgIsFound, Employed, SameOrgs, Begun, OnlyOne, Live, Entry, It, IsCompany
  <1> QED BY <1>1, <1>2, <1>3, <1>4, <1>5, <1>6, <1>7, <1>8, <1>9, <1>10 DEF Next

LEMMA EmployersEnd == CatalogInv /\ EmployersInv => EmployersAreLinked
  <1> SUFFICES ASSUME CatalogInv, EmployersInv, run.phase = "save", Applying, NEW p, NEW c,
                      p \in ToSet(run.doc), c \in ToSet(run.doc),
                      {p.id, c.id} \subseteq run.ok, WorksFor(p, c), OnlyOne(c),
                      \A q \in ToSet(run.doc) : q.id \in run.ok /\ q.oo = p.oo => q.org \in {"", p.org}
               PROVE  contacts[p.oo].employer = c.oo
    BY DEF EmployersAreLinked, Applying
  <1>1. PICK i \in DOMAIN run.doc, j \in DOMAIN run.doc : p = run.doc[i] /\ c = run.doc[j]
    BY DEF ToSet
  <1>2. Begun = run.ok
    BY DEF Begun
  <1>3. Names(p, c)
    BY DEF WorksFor, Names, CompanyKey
  <1>4. SameOrgs(i)
    BY <1>1, <1>2 DEF SameOrgs, ToSet
  <1> QED BY <1>1, <1>2, <1>3, <1>4 DEF EmployersInv, Employed

\* Where the companies of the CRM have no address of their own, a run that met
\* no fault and no deletion leaves each person it applied with the employer it
\* applied, if no other company is of that name and no other entry of the
\* person names another one: companies come first (apply.go:22).
THEOREM PersonsFindTheirEmployers ==
  ASSUME CompaniesHaveNoAddress
  PROVE  Spec => []EmployersAreLinked
  <1>1. EmployersInv /\ CatalogInv /\ [Next]_vars => EmployersInv'
    BY EmployersNext
  <1> QED BY CatalogInvHolds, EmployersBegin, <1>1, EmployersEnd, PTL DEF Spec
=============================================================================
