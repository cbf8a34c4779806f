-------------------------- MODULE OfficeTUIProofs --------------------------
(***************************************************************************)
(* For any records, sections, page sizes and numbers of requests under     *)
(* way: the display order of the table is a permutation of its rows, the   *)
(* rows are the records the keys act on, a save never sends one record's   *)
(* text to another, and an idle UI does not wait for anything.             *)
(***************************************************************************)
EXTENDS OfficeTUI, TLAPS, FiniteSetTheorems, SequenceTheorems

Table == [ready : BOOLEAN, rows : Seq(Item), order : Seq(Nat \ {0}),
          cursor : Nat \ {0}, sort : Sorts]

\* The requests of which a save carries its own record's text.
OwnRequests == {r \in Requests : r.kind = "save" => r.text = r.id}

\* The types, with what the pane, its form and the saves under way agree on.
ListTyped ==
    /\ hasList \in BOOLEAN /\ hasMore \in BOOLEAN
    /\ listSpec \in Sections \cup {None}
    /\ hasList => listSpec \in Sections
    /\ items \in Seq(Item)
    /\ table \in Table

FlagsTyped  == loading \in BOOLEAN /\ loadingMore \in BOOLEAN /\ tableMore \in BOOLEAN
DetailTyped == open \in Ids \cup {None} /\ text = open
WireTyped   == wire \in Seq(OwnRequests)

PortalTyped ==
    /\ portal \in [Sections -> Seq(Ids)]
    /\ arrived \subseteq Ids
    /\ saved \in [Ids -> Ids \cup {None}]
    /\ \A id \in Ids : saved[id] = id

Typed ==
    /\ focus \in Panes /\ zone \in Zones /\ query \in BOOLEAN
    /\ ListTyped /\ FlagsTyped /\ DetailTyped /\ WireTyped /\ PortalTyped
    /\ crashed \in BOOLEAN

\* The order fits the rows, and the rows are the records.
Fits ==
    ~crashed =>
        /\ IsPermutation(table.order, Len(table.rows))
        /\ hasList => table.ready = TRUE /\ table.rows = items

\* Is a request of one of these kinds under way?
Has(w, kinds) == \E k \in DOMAIN w : w[k].kind \in kinds

Loads == {"list", "detail", "save", "delete"}

\* What the UI waits for is under way.
Awaited ==
    /\ loading => Has(wire, Loads)
    /\ loadingMore \/ tableMore => Has(wire, {"more"})

IInv == Typed /\ Fits /\ Awaited

-----------------------------------------------------------------------------
(* Sequences                                                               *)

\* An answered request leaves the wire, the others stay.
LEMMA RestIsSeq ==
  ASSUME NEW S, NEW s \in Seq(S), NEW i \in DOMAIN s
  PROVE  /\ RemoveAt(s, i) \in Seq(S)
         /\ \A j \in DOMAIN s : j # i => \E k \in DOMAIN RemoveAt(s, i) : RemoveAt(s, i)[k] = s[j]
  <1> DEFINE a == SubSeq(s, 1, i - 1)
             b == SubSeq(s, i + 1, Len(s))
  <1>1. i \in 1 .. Len(s) /\ Len(s) \in Nat
    OBVIOUS
  <1>2. a \in Seq(S) /\ Len(a) = i - 1 /\ \A k \in 1 .. (i - 1) : a[k] = s[k]
    BY <1>1
  <1>3. b \in Seq(S) /\ Len(b) = Len(s) - i /\ \A k \in 1 .. (Len(s) - i) : b[k] = s[i + k]
    BY <1>1
  <1> HIDE DEF a, b
  <1> DEFINE c == a \o b
  <1>4. /\ c \in Seq(S) /\ Len(c) = Len(s) - 1 /\ DOMAIN c = 1 .. (Len(s) - 1)
        /\ \A k \in 1 .. (Len(s) - 1) : c[k] = IF k < i THEN s[k] ELSE s[k + 1]
    <2>1. /\ c \in Seq(S) /\ Len(c) = Len(a) + Len(b)
          /\ \A k \in 1 .. Len(a) + Len(b) : c[k] = IF k <= Len(a) THEN a[k] ELSE b[k - Len(a)]
      BY <1>2, <1>3, ConcatProperties
    <2> HIDE DEF c
    <2>2. DOMAIN c = 1 .. (Len(s) - 1) /\ Len(c) = Len(s) - 1
      BY <1>1, <1>2, <1>3, <2>1
    <2>3. \A k \in 1 .. (Len(s) - 1) : c[k] = IF k < i THEN s[k] ELSE s[k + 1]
      <3> TAKE k \in 1 .. (Len(s) - 1)
      <3>1. CASE k < i
        BY <3>1, <1>1, <1>2, <1>3, <2>1
      <3>2. CASE k >= i
        <4>1. c[k] = b[k - (i - 1)]
          BY <3>2, <1>1, <1>2, <1>3, <2>1
        <4>2. b[k - (i - 1)] = s[i + (k - (i - 1))]
          BY <3>2, <1>1, <1>3
        <4> QED BY <3>2, <4>1, <4>2, <1>1
      <3> QED BY <3>1, <3>2, <1>1
    <2> QED BY <2>1, <2>2, <2>3
  <1> HIDE DEF c
  <1>5. \A j \in DOMAIN s : j # i => \E k \in DOMAIN c : c[k] = s[j]
    <2> SUFFICES ASSUME NEW j \in 1 .. Len(s), j # i
                 PROVE  \E k \in DOMAIN c : c[k] = s[j]
      BY <1>1
    <2>1. CASE j < i
      BY <2>1, <1>1, <1>4
    <2>2. CASE j > i
      <3>1. j - 1 \in 1 .. (Len(s) - 1) /\ c[j - 1] = s[(j - 1) + 1]
        BY <2>2, <1>1, <1>4
      <3>2. s[(j - 1) + 1] = s[j]
        BY <2>2, <1>1
      <3> QED BY <3>1, <3>2, <1>4
    <2> QED BY <2>1, <2>2, <1>1
  <1>6. RemoveAt(s, i) = c
    BY DEF RemoveAt, a, b, c
  <1> QED BY <1>4, <1>5, <1>6

\* A function on 1 .. n into S is a sequence over S.
LEMMA FunIsSeq ==
  ASSUME NEW S, NEW n \in Nat, NEW f \in [1 .. n -> S]
  PROVE  f \in Seq(S) /\ Len(f) = n
  OBVIOUS

\* The part of a sequence at some positions: all of it, or something shorter.
LEMMA AtProps ==
  ASSUME NEW S, NEW s \in Seq(S), NEW K, K \subseteq DOMAIN s, NEW f \in At(s, K)
  PROVE  /\ f \in Seq(S)
         /\ f = s \/ Len(f) < Len(s)
  <1>1. Len(s) \in Nat /\ DOMAIN s = 1 .. Len(s)
    OBVIOUS
  <1>2. CASE K = DOMAIN s
    BY <1>2 DEF At
  <1>3. CASE K # DOMAIN s
    <2>1. IsFiniteSet(1 .. Len(s)) /\ Cardinality(1 .. Len(s)) = Len(s)
      <3>1. IsFiniteSet(1 .. Len(s))
                /\ Cardinality(1 .. Len(s)) = IF 1 > Len(s) THEN 0 ELSE Len(s) - 1 + 1
        BY <1>1, FS_Interval
      <3> QED BY <3>1, <1>1
    <2>2. Cardinality(K) \in Nat /\ Cardinality(K) < Len(s)
      BY <1>1, <1>3, <2>1, FS_Subset, FS_CardinalityType
    <2>3. PICK g \in Enumerations(K) : f = [i \in DOMAIN g |-> s[g[i]]]
      BY <1>3 DEF At
    <2>4. g \in [1 .. Cardinality(K) -> K]
      BY <2>3 DEF Enumerations
    <2>5. f \in [1 .. Cardinality(K) -> S]
      BY <2>3, <2>4, <1>1
    <2> QED BY <2>2, <2>5, FunIsSeq
  <1> QED BY <1>2, <1>3

LEMMA AtNotEmpty ==
  ASSUME NEW S, NEW s \in Seq(S), NEW K, K \subseteq DOMAIN s, K # {}, NEW f \in At(s, K)
  PROVE  Len(f) \in Nat \ {0}
  <1>1. Len(s) \in Nat /\ DOMAIN s = 1 .. Len(s)
    OBVIOUS
  <1>2. CASE K = DOMAIN s
    BY <1>1, <1>2 DEF At
  <1>3. CASE K # DOMAIN s
    <2>1. IsFiniteSet(1 .. Len(s))
      BY <1>1, FS_Interval
    <2>2. IsFiniteSet(K)
      BY <1>1, <2>1, FS_Subset
    <2>3. Cardinality(K) \in Nat /\ Cardinality(K) # 0
      BY <2>2, FS_CardinalityType, FS_EmptySet
    <2>4. PICK g \in Enumerations(K) : f = [i \in DOMAIN g |-> s[g[i]]]
      BY <1>3 DEF At
    <2>5. g \in [1 .. Cardinality(K) -> K]
      BY <2>4 DEF Enumerations
    <2>6. f \in [1 .. Cardinality(K) -> S]
      BY <1>1, <2>4, <2>5
    <2> QED BY <2>3, <2>6, FunIsSeq
  <1> QED BY <1>2, <1>3

LEMMA MatchesProps == \A q, s : Matches(q, s) \subseteq DOMAIN s
  BY DEF Matches

-----------------------------------------------------------------------------
(* Permutations                                                            *)

\* A permutation of 1 .. n reaches n.
LEMMA ReachesLast ==
  ASSUME NEW n \in Nat \ {0}, NEW o \in Seq(Nat \ {0}), IsPermutation(o, n)
  PROVE  \E k \in DOMAIN o : o[k] = n
  <1>1. DOMAIN o = 1 .. n /\ o \in [1 .. n -> 1 .. n]
    BY DEF IsPermutation
  <1>2. \A a, b \in 1 .. n : o[a] = o[b] => a = b
    BY DEF IsPermutation
  <1>3. o \in Injection(1 .. n, 1 .. n)
    BY <1>1, <1>2 DEF Injection, IsInjective
  <1>4. IsFiniteSet(1 .. n)
    BY FS_Interval
  <1>5. o \in Surjection(1 .. n, 1 .. n)
    BY <1>3, <1>4, FS_Injection
  <1> QED BY <1>1, <1>5 DEF Surjection

\* Sorting permutes the display order and changes nothing else.
LEMMA SortedProps ==
  ASSUME NEW t \in Table, NEW u \in Sorted(t)
  PROVE  /\ u \in Table
         /\ u.rows = t.rows /\ u.ready = t.ready /\ u.cursor = t.cursor
         /\ Len(u.order) = Len(t.order)
         /\ \A n \in Nat : IsPermutation(t.order, n) => IsPermutation(u.order, n)
  <1> DEFINE D == 1 .. Len(t.order)
  <1>1. Len(t.order) \in Nat /\ DOMAIN t.order = D /\ t.order \in Seq(Nat \ {0})
    BY DEF Table
  <1>2. CASE t.sort = "none"
    BY <1>2 DEF Sorted
  <1>3. CASE t.sort # "none"
    <2>1. PICK p \in Bijection(DOMAIN t.order, DOMAIN t.order) :
             u = [t EXCEPT !.order = [i \in DOMAIN t.order |-> t.order[p[i]]]]
      BY <1>3 DEF Sorted
    <2>2. p \in Bijection(D, D)
      BY <1>1, <2>1
    <2>5. p \in [D -> D] /\ \A i, j \in D : p[i] = p[j] => i = j
      <3>1. p \in Injection(D, D)
        BY <2>2 DEF Bijection
      <3> QED BY <3>1 DEF Injection, IsInjective
    <2> DEFINE o == [i \in D |-> t.order[p[i]]]
    <2>6. o \in [D -> Nat \ {0}]
      BY <1>1, <2>5
    <2>7. o \in Seq(Nat \ {0}) /\ Len(o) = Len(t.order)
      BY <1>1, <2>6, FunIsSeq
    <2>8. \A n \in Nat : IsPermutation(t.order, n) => IsPermutation(o, n)
      BY <1>1, <2>5, <2>7 DEF IsPermutation
    <2>9. u = [t EXCEPT !.order = o]
      BY <1>1, <2>1
    <2> HIDE DEF o
    <2> QED BY <2>7, <2>8, <2>9 DEF Table
  <1> QED BY <1>2, <1>3

-----------------------------------------------------------------------------
(* The table                                                               *)

\* SetData: the order is a permutation of the new rows.
LEMMA WithDataProps ==
  ASSUME NEW t \in Table, NEW s \in Seq(Item), NEW u \in WithData(t, s)
  PROVE  /\ u \in Table
         /\ u.rows = s /\ u.ready = TRUE
         /\ IsPermutation(u.order, Len(s))
  <1> DEFINE o == [i \in DOMAIN s |-> i]
             r == [t EXCEPT !.ready = TRUE, !.rows = s, !.order = o, !.cursor = 1]
  <1>1. Len(s) \in Nat /\ DOMAIN s = 1 .. Len(s)
    OBVIOUS
  <1>2. o \in [1 .. Len(s) -> Nat \ {0}]
    BY <1>1
  <1>3. o \in Seq(Nat \ {0}) /\ Len(o) = Len(s)
    BY <1>1, <1>2, FunIsSeq
  <1>4. IsPermutation(o, Len(s))
    BY <1>1, <1>3 DEF IsPermutation
  <1>5. u \in Sorted(r)
    BY DEF WithData
  <1> HIDE DEF o
  <1>6. r \in Table /\ r.rows = s /\ r.order = o /\ r.ready = TRUE
    <2>1. r = [t EXCEPT !.ready = TRUE, !.rows = s, !.order = o, !.cursor = 1]
      OBVIOUS
    <2> HIDE DEF r
    <2>2. r.rows = s /\ r.order = o /\ r.ready = TRUE
      BY <2>1 DEF Table
    <2>3. /\ r.rows \in Seq(Item) /\ r.order \in Seq(Nat \ {0}) /\ r.ready \in BOOLEAN
          /\ r.cursor \in Nat \ {0} /\ r.sort \in Sorts
      <3>1. 1 \in Nat \ {0}
        OBVIOUS
      <3> QED BY <1>3, <2>1, <3>1 DEF Table
    <2>4. r = [ready |-> r.ready, rows |-> r.rows, order |-> r.order,
               cursor |-> r.cursor, sort |-> r.sort]
      BY <2>1 DEF Table
    <2> QED BY <2>2, <2>3, <2>4 DEF Table
  <1> HIDE DEF r
  <1> QED BY <1>1, <1>4, <1>5, <1>6, SortedProps

\* Clear: an order of no rows.
LEMMA ClearedProps ==
  ASSUME NEW t \in Table, NEW r, r = Cleared(t)
  PROVE  r \in Table /\ IsPermutation(r.order, Len(r.rows))
  <1>1. <<>> \in Seq(Item) /\ <<>> \in Seq(Nat \ {0})
    OBVIOUS
  <1>2. r = [ready |-> FALSE, rows |-> <<>>, order |-> <<>>, cursor |-> 1, sort |-> t.sort]
    BY DEF Cleared, Table
  <1>3. t.sort \in Sorts
    BY DEF Table
  <1>4. r \in Table /\ r.order = <<>> /\ r.rows = <<>>
    BY <1>1, <1>2, <1>3 DEF Table
  <1> QED BY <1>4 DEF IsPermutation

\* AppendItems: a permutation of the rows grows into one of the longer rows.
LEMMA WithMoreProps ==
  ASSUME NEW t \in Table, NEW new \in Seq(Item), NEW u \in WithMore(t, new)
  PROVE  /\ u \in Table /\ u.ready = t.ready
         /\ IsPermutation(t.order, Len(t.rows)) => IsPermutation(u.order, Len(u.rows))
  <1> DEFINE n == Len(t.rows)
             m == Len(new)
             e == [i \in DOMAIN new |-> NextIndex(t, i)]
             o == t.order \o e
             r == [t EXCEPT !.rows = @ \o new, !.order = o]
  <1>1. n \in Nat /\ m \in Nat /\ DOMAIN new = 1 .. m /\ t.order \in Seq(Nat \ {0})
    BY DEF Table
  <1>2. e \in [1 .. m -> Nat \ {0}] /\ \A i \in 1 .. m : e[i] = n + i
    BY <1>1 DEF NextIndex
  <1> HIDE DEF e
  <1>3. e \in Seq(Nat \ {0}) /\ Len(e) = m
    BY <1>1, <1>2, FunIsSeq
  <1>4. t.rows \o new \in Seq(Item) /\ Len(t.rows \o new) = n + m
    BY <1>1, ConcatProperties DEF Table
  <1>5. /\ o \in Seq(Nat \ {0}) /\ Len(o) = Len(t.order) + m
        /\ \A i \in 1 .. Len(t.order) + m :
              o[i] = IF i <= Len(t.order) THEN t.order[i] ELSE e[i - Len(t.order)]
    <2>1. t.order \in Seq(Nat \ {0}) /\ e \in Seq(Nat \ {0})
      BY <1>1, <1>3
    <2> HIDE DEF m
    <2>2. /\ o \in Seq(Nat \ {0}) /\ Len(o) = Len(t.order) + Len(e)
          /\ \A i \in 1 .. Len(t.order) + Len(e) :
                o[i] = IF i <= Len(t.order) THEN t.order[i] ELSE e[i - Len(t.order)]
      BY <2>1, ConcatProperties
    <2> QED BY <1>3, <2>2
  <1>6. u \in Sorted(r)
    BY DEF WithMore, e
  <1> HIDE DEF o
  <1>7. r \in Table /\ r.ready = t.ready /\ r.order = o /\ Len(r.rows) = n + m
    BY <1>4, <1>5 DEF Table
  <1> HIDE DEF r, n, m
  <1>8. ASSUME IsPermutation(t.order, n) PROVE IsPermutation(o, n + m)
    <2>1. Len(t.order) = n
      BY <1>8 DEF IsPermutation
    <2>2. Len(o) = n + m
      BY <1>5, <2>1
    <2>3. \A i \in 1 .. n : o[i] = t.order[i]
      BY <1>1, <1>5, <2>1
    <2>4. \A i \in n + 1 .. n + m : o[i] = i
      <3> TAKE i \in n + 1 .. n + m
      <3>1. o[i] = e[i - n] /\ i - n \in 1 .. m
        BY <1>1, <1>5, <2>1
      <3>2. e[i - n] = n + (i - n)
        BY <1>2, <3>1
      <3> QED BY <1>1, <3>1, <3>2
    <2>5. \A i \in 1 .. n : o[i] \in 1 .. n
      BY <1>8, <2>3 DEF IsPermutation
    <2>6. \A i, j \in 1 .. n : o[i] = o[j] => i = j
      BY <1>8, <2>3 DEF IsPermutation
    <2>7. \A i \in 1 .. n + m : i \in 1 .. n \/ i \in n + 1 .. n + m
      BY <1>1
    <2>8. \A i \in 1 .. n + m : o[i] \in 1 .. n + m
      BY <1>1, <2>4, <2>5, <2>7
    <2>9. \A i, j \in 1 .. n + m : o[i] = o[j] => i = j
      BY <1>1, <2>4, <2>5, <2>6, <2>7
    <2> QED BY <2>2, <2>8, <2>9 DEF IsPermutation
  <1>9. u \in Table /\ u.ready = r.ready /\ u.rows = r.rows
        /\ \A k \in Nat : IsPermutation(r.order, k) => IsPermutation(u.order, k)
    BY <1>6, <1>7, SortedProps
  <1>10. IsPermutation(t.order, n) => IsPermutation(u.order, n + m)
    BY <1>1, <1>7, <1>8, <1>9
  <1>11. Len(u.rows) = n + m
    BY <1>7, <1>9
  <1> QED BY <1>7, <1>9, <1>10, <1>11 DEF n

\* Redrawing the table: either the rows are all the records, or, with a table
\* whose order fits the records, Update panics.
LEMMA SyncProps ==
  ASSUME NEW t \in Table, NEW s \in Seq(Item), NEW has \in BOOLEAN, NEW q,
         Sync(t, has, q, s)
  PROVE  /\ table' \in Table /\ crashed' \in BOOLEAN
         /\ ~has => IsPermutation(table'.order, Len(table'.rows))
         /\ has /\ t.ready = TRUE /\ ~crashed' /\ IsPermutation(t.order, Len(s)) =>
              /\ table'.ready = TRUE /\ table'.rows = s
              /\ IsPermutation(table'.order, Len(table'.rows))
  <1>1. crashed' \in BOOLEAN
    BY DEF Sync, Undrawable
  <1>2. CASE ~has
    <2>1. table' = Cleared(t)
      BY <1>2 DEF Sync
    <2> QED BY <1>1, <1>2, <2>1, ClearedProps
  <1>3. CASE has
    <2>1. PICK f \in At(s, Matches(q, s)) : table' = WithRows(t, f)
      BY <1>3 DEF Sync
    <2>2. f \in Seq(Item) /\ (f = s \/ Len(f) < Len(s))
      BY AtProps, MatchesProps
    <2>3. /\ table' \in Table /\ table'.rows = f
          /\ table'.order = t.order /\ table'.ready = t.ready
      BY <2>1, <2>2 DEF WithRows, Table
    <2>4. ASSUME t.ready = TRUE, ~crashed', IsPermutation(t.order, Len(s))
          PROVE  f = s
      <3>1. SUFFICES ASSUME Len(f) < Len(s) PROVE FALSE
        BY <2>2
      <3>2. Len(s) \in Nat \ {0} /\ Len(f) \in Nat
        BY <2>2, <3>1
      <3>3. PICK k \in DOMAIN t.order : t.order[k] = Len(s)
        BY <2>4, <3>2, ReachesLast DEF Table
      <3>4. t.order[k] \notin DOMAIN f
        BY <2>2, <3>1, <3>2, <3>3
      <3> QED BY <2>3, <2>4, <3>4 DEF Sync, Undrawable
    <2> QED BY <1>1, <1>3, <2>3, <2>4
  <1> QED BY <1>2, <1>3

\* MoveRow moves the cursor only.
LEMMA MovedProps ==
  ASSUME NEW t \in Table, NEW d \in {-1, 1}
  PROVE  /\ Moved(t, d) \in Table
         /\ Moved(t, d).rows = t.rows /\ Moved(t, d).order = t.order
         /\ Moved(t, d).ready = t.ready
  <1> DEFINE c == IF t.cursor + d \in DOMAIN t.order THEN t.cursor + d ELSE t.cursor
  <1>1. c \in Nat \ {0}
    BY DEF Table
  <1>2. Moved(t, d) = t \/ Moved(t, d) = [t EXCEPT !.cursor = c]
    BY DEF Moved
  <1> HIDE DEF c
  <1> QED BY <1>1, <1>2 DEF Table

\* The row under the cursor is a record or none.
LEMMA CursorRowType ==
  ASSUME NEW t, NEW q, NEW s \in Seq(Item)
  PROVE  CursorRow(t, q, s) \in Ids \cup {None}
  <1> DEFINE K == Matches(q, s)
             hits == {i \in K : Cardinality({k \in K : k <= i}) = t.order[t.cursor]}
  <1>1. hits \subseteq DOMAIN s
    BY MatchesProps
  <1>2. \A i \in DOMAIN s : s[i].id \in Ids
    <2>1. \A i \in DOMAIN s : s[i] \in Item
      OBVIOUS
    <2> QED BY <2>1 DEF Item
  <1>3. CursorRow(t, q, s) = IF t.cursor \in DOMAIN t.order /\ hits # {}
                               THEN s[CHOOSE i \in hits : TRUE].id ELSE None
    BY DEF CursorRow
  <1> HIDE DEF hits
  <1>4. hits # {} => (CHOOSE i \in hits : TRUE) \in hits
    OBVIOUS
  <1> QED BY <1>1, <1>2, <1>3, <1>4

-----------------------------------------------------------------------------
(* The wire                                                                *)

\* Further requests join those that are under way.
LEMMA HasConcat ==
  ASSUME NEW w \in Seq(OwnRequests), NEW x \in Seq(OwnRequests)
  PROVE  /\ w \o x \in Seq(OwnRequests)
         /\ \A K : Has(w, K) \/ Has(x, K) => Has(w \o x, K)
  <1> DEFINE c == w \o x
  <1>1. /\ c \in Seq(OwnRequests) /\ Len(c) = Len(w) + Len(x)
        /\ \A i \in 1 .. Len(w) + Len(x) : c[i] = IF i <= Len(w) THEN w[i] ELSE x[i - Len(w)]
    BY ConcatProperties
  <1> HIDE DEF c
  <1>2. Len(w) \in Nat /\ Len(x) \in Nat
    OBVIOUS
  <1>3. \A i \in 1 .. Len(w) : i \in DOMAIN c /\ c[i] = w[i]
    BY <1>1, <1>2
  <1>4. \A i \in 1 .. Len(x) : Len(w) + i \in DOMAIN c /\ c[Len(w) + i] = x[i]
    <2> TAKE i \in 1 .. Len(x)
    <2>1. c[Len(w) + i] = x[(Len(w) + i) - Len(w)]
      BY <1>1, <1>2
    <2>2. (Len(w) + i) - Len(w) = i
      BY <1>2
    <2> QED BY <1>1, <1>2, <2>1, <2>2
  <1>5. ASSUME NEW K, Has(w, K) PROVE Has(c, K)
    <2>1. PICK k \in 1 .. Len(w) : w[k].kind \in K
      BY <1>5 DEF Has
    <2> QED BY <2>1, <1>3 DEF Has
  <1>6. ASSUME NEW K, Has(x, K) PROVE Has(c, K)
    <2>1. PICK k \in 1 .. Len(x) : x[k].kind \in K
      BY <1>6 DEF Has
    <2> QED BY <2>1, <1>4 DEF Has
  <1> QED BY <1>1, <1>5, <1>6 DEF c

\* One further request.
LEMMA HasAppend ==
  ASSUME NEW w \in Seq(OwnRequests), NEW r \in OwnRequests
  PROVE  /\ Append(w, r) \in Seq(OwnRequests)
         /\ \A K : Has(w, K) \/ r.kind \in K => Has(Append(w, r), K)
  <1> DEFINE c == Append(w, r)
  <1>1. /\ c \in Seq(OwnRequests) /\ DOMAIN c = 1 .. Len(w) + 1 /\ Len(w) \in Nat
        /\ c[Len(w) + 1] = r /\ \A i \in 1 .. Len(w) : c[i] = w[i]
    OBVIOUS
  <1> HIDE DEF c
  <1>2. \A i \in 1 .. Len(w) : i \in DOMAIN c
    BY <1>1
  <1>3. Len(w) + 1 \in DOMAIN c
    BY <1>1
  <1>4. \A K : Has(w, K) \/ r.kind \in K => Has(c, K)
    BY <1>1, <1>2, <1>3 DEF Has
  <1> QED BY <1>1, <1>4 DEF c

\* A request is answered, those of other kinds stay.
LEMMA HasRest ==
  ASSUME WireTyped, NEW i \in DOMAIN wire
  PROVE  /\ Rest(i) \in Seq(OwnRequests)
         /\ \A K : Has(wire, K) /\ wire[i].kind \notin K => Has(Rest(i), K)
  <1>1. wire \in Seq(OwnRequests)
    BY DEF WireTyped
  <1>2. /\ RemoveAt(wire, i) \in Seq(OwnRequests)
        /\ \A j \in DOMAIN wire : j # i =>
             \E k \in DOMAIN RemoveAt(wire, i) : RemoveAt(wire, i)[k] = wire[j]
    BY <1>1, RestIsSeq
  <1> QED BY <1>2 DEF Has, Rest

\* What a request under way carries.
LEMMA RequestFields ==
  ASSUME NEW r \in OwnRequests
  PROVE  /\ r.kind \in {"list", "more"} => r.spec \in Sections /\ r.seen \in Seq(Ids)
         /\ r.kind = "more" => r.start \in Nat
         /\ r.kind \in {"detail", "delete"} => r.id \in Ids
         /\ r.kind = "save" => r.id \in Ids \cup {None} /\ r.text = r.id
  BY DEF OwnRequests, Requests

\* The commands are requests.
LEMMA CommandTypes ==
  ASSUME portal' \in [Sections -> Seq(Ids)]
  PROVE  /\ \A s \in Sections : ListCmd(s) \in OwnRequests
         /\ \A s \in Sections, n \in Nat : MoreCmd(s, n) \in OwnRequests
         /\ \A id \in Ids : DetailCmd(id) \in OwnRequests /\ DeleteCmd(id) \in OwnRequests
         /\ DetailTyped => SaveCmd \in OwnRequests
  BY DEF ListCmd, MoreCmd, DetailCmd, DeleteCmd, SaveCmd, OwnRequests, Requests, DetailTyped

\* What onListRowChanged leaves: well-formed requests, a flag only where a request
\* is under way, and a pane that agrees with its form.
LEMMA RowChangedProps ==
  ASSUME ListTyped', portal' \in [Sections -> Seq(Ids)], FlagsTyped, DetailTyped,
         NEW w \in Seq(OwnRequests), NEW busy \in BOOLEAN, NEW more \in BOOLEAN,
         busy => Has(w, Loads),
         more \/ tableMore => Has(w, {"more"}),
         RowChanged(w, busy, more)
  PROVE  FlagsTyped' /\ DetailTyped' /\ WireTyped' /\ Awaited'
  <1> DEFINE due == hasList' /\ ~more /\ hasMore' /\ listSpec' \in Mail /\ NearEnd(table')
             row == IF hasList' THEN CursorRow(table', query', items') ELSE None
             get == row # None /\ row # open
             x   == IF due THEN <<MoreCmd(listSpec', Len(items'))>> ELSE <<>>
             y   == IF get THEN <<DetailCmd(row)>> ELSE <<>>
  <1>1. /\ loadingMore' = (more \/ due) /\ tableMore' = (tableMore \/ due)
        /\ loading' = (busy \/ get)
        /\ wire' = (w \o x) \o y
        /\ IF row = None THEN open' = None /\ text' = None
                         ELSE UNCHANGED <<open, text>>
    BY DEF RowChanged, detailVars
  <1>2. row \in Ids \cup {None}
    BY CursorRowType DEF ListTyped
  <1>3. due \in BOOLEAN /\ get \in BOOLEAN
    OBVIOUS
  <1>4. x \in Seq(OwnRequests) /\ (due => Has(x, {"more"}))
    <2>1. CASE due
      <3>1. listSpec' \in Sections /\ Len(items') \in Nat
        BY <2>1, OfficeAssumption DEF ListTyped
      <3>2. MoreCmd(listSpec', Len(items')) \in OwnRequests
        BY <3>1, CommandTypes
      <3>3. MoreCmd(listSpec', Len(items')).kind = "more"
        BY DEF MoreCmd
      <3> HIDE DEF due
      <3> QED BY <2>1, <3>2, <3>3 DEF Has
    <2>2. CASE ~due
      <3> HIDE DEF due
      <3> QED BY <2>2
    <2> QED BY <2>1, <2>2
  <1>5. y \in Seq(OwnRequests) /\ (get => Has(y, Loads))
    <2>1. CASE get
      <3>1. DetailCmd(row) \in OwnRequests
        BY <1>2, <2>1, CommandTypes
      <3>2. DetailCmd(row).kind = "detail"
        BY DEF DetailCmd
      <3> HIDE DEF get, row
      <3> QED BY <2>1, <3>1, <3>2 DEF Has, Loads
    <2>2. CASE ~get
      <3> HIDE DEF get
      <3> QED BY <2>2
    <2> QED BY <2>1, <2>2
  <1> HIDE DEF due, get, row, x, y
  <1>6. /\ w \o x \in Seq(OwnRequests)
        /\ \A K : Has(w, K) \/ Has(x, K) => Has(w \o x, K)
    BY <1>4, HasConcat
  <1>7. /\ wire' \in Seq(OwnRequests)
        /\ \A K : Has(w \o x, K) \/ Has(y, K) => Has(wire', K)
    BY <1>1, <1>5, <1>6, HasConcat
  <1>8. FlagsTyped'
    BY <1>1, <1>3 DEF FlagsTyped
  <1>9. DetailTyped'
    BY <1>1, <1>2 DEF DetailTyped
  <1>10. Awaited'
    <2>1. loading' => Has(wire', Loads)
      BY <1>1, <1>5, <1>6, <1>7
    <2>2. loadingMore' \/ tableMore' => Has(wire', {"more"})
      BY <1>1, <1>4, <1>6, <1>7
    <2> QED BY <2>1, <2>2 DEF Awaited
  <1> QED BY <1>7, <1>8, <1>9, <1>10 DEF WireTyped

-----------------------------------------------------------------------------
(* The initial state, and what a step that leaves variables alone keeps    *)

LEMMA InitIInv == Init => IInv
  <1> SUFFICES ASSUME Init PROVE IInv
    OBVIOUS
  <1>1. EmptyTable \in Table
    <2>1. <<>> \in Seq(Item) /\ <<>> \in Seq(Nat \ {0}) /\ 1 \in Nat \ {0}
      OBVIOUS
    <2> QED BY <2>1 DEF EmptyTable, Table, Sorts
  <1>2. ListTyped
    <2>1. <<>> \in Seq(Item)
      OBVIOUS
    <2> QED BY <1>1, <2>1 DEF Init, ListTyped
  <1>3. WireTyped
    <2>1. <<>> \in Seq(OwnRequests)
      OBVIOUS
    <2> QED BY <2>1 DEF Init, WireTyped
  <1>4. FlagsTyped /\ DetailTyped
    BY DEF Init, FlagsTyped, DetailTyped
  <1>5. PortalTyped
    BY OfficeAssumption DEF Init, PortalTyped
  <1>6. focus \in Panes /\ zone \in Zones /\ query \in BOOLEAN /\ crashed \in BOOLEAN
    BY DEF Init, Panes, Zones
  <1>7. Fits
    <2>1. IsPermutation(<<>>, Len(<<>>))
      BY DEF IsPermutation
    <2> QED BY <2>1 DEF Init, EmptyTable, Fits
  <1>8. Awaited
    BY DEF Init, Awaited
  <1> QED BY <1>2, <1>3, <1>4, <1>5, <1>6, <1>7, <1>8 DEF IInv, Typed

LEMMA Kept ==
  /\ ListTyped /\ UNCHANGED listVars => ListTyped'
  /\ Fits /\ UNCHANGED <<hasList, items, table, crashed>> => Fits'
  /\ FlagsTyped /\ UNCHANGED flagVars => FlagsTyped'
  /\ DetailTyped /\ UNCHANGED detailVars => DetailTyped'
  /\ WireTyped /\ UNCHANGED wire => WireTyped'
  /\ PortalTyped /\ UNCHANGED portalVars => PortalTyped'
  /\ Awaited /\ UNCHANGED <<flagVars, wire>> => Awaited'
  BY DEF ListTyped, FlagsTyped, DetailTyped, WireTyped, PortalTyped, Fits, Awaited, Has,
         listVars, flagVars, detailVars, portalVars

\* A key that leaves everything but the toolbar alone.
LEMMA ToolbarStep ==
  ASSUME IInv, focus' \in Panes, zone' \in Zones, query' \in BOOLEAN,
         UNCHANGED <<listVars, flagVars, detailVars, wire, crashed, portalVars>>
  PROVE  IInv'
  <1>1. UNCHANGED <<hasList, items, table, crashed>>
    BY DEF listVars
  <1>2. /\ UNCHANGED listVars /\ UNCHANGED flagVars /\ UNCHANGED detailVars
        /\ UNCHANGED wire /\ UNCHANGED portalVars /\ UNCHANGED <<flagVars, wire>>
        /\ UNCHANGED crashed
    OBVIOUS
  <1>3. Typed'
    BY <1>2, Kept DEF IInv, Typed
  <1> QED BY <1>1, <1>2, <1>3, Kept DEF IInv

LEMMA SwitchPaneStep == ASSUME IInv, SwitchPane PROVE IInv'
  <1>1. focus' \in Panes /\ zone' \in Zones /\ query' \in BOOLEAN
    BY DEF SwitchPane, IInv, Typed, Zones, Panes
  <1>2. UNCHANGED <<listVars, flagVars, detailVars, wire, crashed, portalVars>>
    BY DEF SwitchPane, Press
  <1> QED BY <1>1, <1>2, ToolbarStep

LEMMA FocusFilterStep == ASSUME IInv, FocusFilter PROVE IInv'
  <1>1. focus' \in Panes /\ zone' \in Zones /\ query' \in BOOLEAN
    BY DEF FocusFilter, IInv, Typed, Zones, Panes
  <1>2. UNCHANGED <<listVars, flagVars, detailVars, wire, crashed, portalVars>>
    BY DEF FocusFilter, Press
  <1> QED BY <1>1, <1>2, ToolbarStep

LEMMA LeaveZoneStep == ASSUME IInv, LeaveZone PROVE IInv'
  <1>1. focus' \in Panes /\ zone' \in Zones /\ query' \in BOOLEAN
    BY DEF LeaveZone, IInv, Typed, Zones
  <1>2. UNCHANGED <<listVars, flagVars, detailVars, wire, crashed, portalVars>>
    BY DEF LeaveZone, Press
  <1> QED BY <1>1, <1>2, ToolbarStep

-----------------------------------------------------------------------------
(* Keys that issue requests                                                *)

\* A request of the user's joins the wire, and the status bar says so.
LEMMA Issue ==
  ASSUME IInv, NEW cmds \in Seq(OwnRequests), Has(cmds, Loads),
         wire' = wire \o cmds, loading' = TRUE,
         loadingMore' \in BOOLEAN, loadingMore' => loadingMore, UNCHANGED tableMore
  PROVE  FlagsTyped' /\ WireTyped' /\ Awaited'
  <1>1. /\ wire' \in Seq(OwnRequests)
        /\ \A K : Has(wire, K) \/ Has(cmds, K) => Has(wire', K)
    BY HasConcat DEF IInv, Typed, WireTyped
  <1>2. FlagsTyped'
    BY DEF IInv, Typed, FlagsTyped
  <1>3. Awaited'
    BY <1>1 DEF IInv, Awaited
  <1> QED BY <1>1, <1>2, <1>3 DEF WireTyped

LEMMA OneRequest ==
  ASSUME NEW r \in OwnRequests, r.kind \in Loads, WireTyped
  PROVE  /\ <<r>> \in Seq(OwnRequests) /\ Has(<<r>>, Loads)
         /\ Append(wire, r) = wire \o <<r>>
  <1>1. wire \in Seq(OwnRequests)
    BY DEF WireTyped
  <1>2. Append(wire, r) = wire \o <<r>>
    BY <1>1, AppendIsConcat
  <1> QED BY <1>2 DEF Has

LEMMA OpenSectionStep == ASSUME IInv, NEW s \in Sections, OpenSection(s) PROVE IInv'
  <1>1. /\ UNCHANGED <<zone, query, items, table, tableMore, crashed, portalVars>>
        /\ focus' = "list" /\ listSpec' = s /\ hasList' = FALSE /\ hasMore' = FALSE
        /\ loadingMore' = FALSE /\ loading' = TRUE /\ open' = None /\ text' = None
        /\ wire' = Append(wire, ListCmd(s))
    BY DEF OpenSection, Press
  <1>2. PortalTyped'
    BY <1>1, Kept DEF IInv, Typed
  <1>3. ListCmd(s) \in OwnRequests
    BY <1>2, CommandTypes DEF PortalTyped
  <1>4. ListCmd(s).kind \in Loads
    BY DEF ListCmd, Loads
  <1>5. /\ <<ListCmd(s)>> \in Seq(OwnRequests) /\ Has(<<ListCmd(s)>>, Loads)
        /\ wire' = wire \o <<ListCmd(s)>>
    BY <1>1, <1>3, <1>4, OneRequest DEF IInv, Typed
  <1>6. FlagsTyped' /\ WireTyped' /\ Awaited'
    BY <1>1, <1>5, Issue
  <1>7. ListTyped' /\ DetailTyped'
    BY <1>1 DEF IInv, Typed, ListTyped, DetailTyped
  <1>8. Fits'
    BY <1>1 DEF IInv, Fits
  <1>9. focus' \in Panes /\ zone' \in Zones /\ query' \in BOOLEAN /\ crashed' \in BOOLEAN
    BY <1>1 DEF IInv, Typed, Panes
  <1> QED BY <1>2, <1>6, <1>7, <1>8, <1>9 DEF IInv, Typed

\* A key that issues requests and does nothing else.
LEMMA WriteStep ==
  ASSUME IInv, NEW cmds \in Seq(OwnRequests), Has(cmds, Loads), Write(cmds),
         UNCHANGED portalVars
  PROVE  IInv'
  <1>1. /\ UNCHANGED <<toolbarVars, listVars, loadingMore, tableMore, detailVars, crashed>>
        /\ loading' = TRUE /\ wire' = wire \o cmds
    BY DEF Write
  <1>2. FlagsTyped' /\ WireTyped' /\ Awaited'
    <2>1. loadingMore' \in BOOLEAN /\ (loadingMore' => loadingMore)
      BY <1>1 DEF IInv, Typed, FlagsTyped
    <2> QED BY <1>1, <2>1, Issue
  <1>3. ListTyped' /\ DetailTyped' /\ PortalTyped'
    BY <1>1, Kept DEF IInv, Typed
  <1>4. Fits'
    BY <1>1, Kept DEF IInv, listVars
  <1>5. focus' \in Panes /\ zone' \in Zones /\ query' \in BOOLEAN /\ crashed' \in BOOLEAN
    BY <1>1 DEF IInv, Typed, toolbarVars
  <1> QED BY <1>2, <1>3, <1>4, <1>5 DEF IInv, Typed

LEMMA WriteOneStep ==
  ASSUME IInv, NEW r \in OwnRequests, r.kind \in Loads, Write(<<r>>), UNCHANGED portalVars
  PROVE  IInv'
  BY OneRequest, WriteStep DEF IInv, Typed

LEMMA CommandsNow ==
  ASSUME IInv, UNCHANGED portalVars
  PROVE  /\ portal' \in [Sections -> Seq(Ids)]
         /\ SaveCmd \in OwnRequests /\ SaveCmd.kind \in Loads
         /\ \A id \in Ids : DeleteCmd(id) \in OwnRequests /\ DeleteCmd(id).kind \in Loads
  <1>1. PortalTyped'
    BY Kept DEF IInv, Typed
  <1>2. portal' \in [Sections -> Seq(Ids)]
    BY <1>1 DEF PortalTyped
  <1>3. DetailTyped
    BY DEF IInv, Typed
  <1>4. SaveCmd.kind \in Loads /\ \A id \in Ids : DeleteCmd(id).kind \in Loads
    BY DEF SaveCmd, DeleteCmd, Loads
  <1> QED BY <1>2, <1>3, <1>4, CommandTypes

LEMMA SaveStep == ASSUME IInv, SaveFromList \/ SaveDetail PROVE IInv'
  <1>1. UNCHANGED portalVars /\ Write(<<SaveCmd>>)
    BY DEF SaveFromList, SaveDetail, Press
  <1> QED BY <1>1, CommandsNow, WriteOneStep

LEMMA DeleteDetailStep == ASSUME IInv, DeleteDetail PROVE IInv'
  <1>1. UNCHANGED portalVars /\ Write(<<DeleteCmd(open)>>) /\ open \in Deletable
    BY DEF DeleteDetail, Press
  <1>2. open \in Ids
    BY <1>1, OfficeAssumption DEF IInv, Typed, DetailTyped
  <1> QED BY <1>1, <1>2, CommandsNow, WriteOneStep

\* One command per selected record.
LEMMA DeleteFromListStep == ASSUME IInv, DeleteFromList PROVE IInv'
  <1> DEFINE K == {i \in DOMAIN items : items[i].sel}
  <1>1. PICK chosen \in At(items, K) : Write([i \in DOMAIN chosen |-> DeleteCmd(chosen[i].id)])
    BY DEF DeleteFromList
  <1>2. UNCHANGED portalVars /\ K # {}
    BY DEF DeleteFromList, Press, SelectedIds
  <1>3. items \in Seq(Item)
    BY DEF IInv, Typed, ListTyped
  <1>4. chosen \in Seq(Item) /\ Len(chosen) \in Nat \ {0}
    <2>1. K \subseteq DOMAIN items
      OBVIOUS
    <2> HIDE DEF K
    <2> QED BY <1>2, <1>3, <2>1, AtProps, AtNotEmpty
  <1> DEFINE cmds == [i \in DOMAIN chosen |-> DeleteCmd(chosen[i].id)]
  <1>5. /\ cmds \in [1 .. Len(chosen) -> OwnRequests]
        /\ \A i \in 1 .. Len(chosen) : cmds[i].kind \in Loads
    <2>1. DOMAIN chosen = 1 .. Len(chosen)
      BY <1>4
    <2>2. \A i \in 1 .. Len(chosen) : chosen[i].id \in Ids
      <3>1. \A i \in 1 .. Len(chosen) : chosen[i] \in Item
        BY <1>4
      <3> QED BY <3>1 DEF Item
    <2>3. \A i \in 1 .. Len(chosen) : cmds[i] \in OwnRequests /\ cmds[i].kind \in Loads
      BY <1>2, <2>1, <2>2, CommandsNow
    <2> QED BY <2>1, <2>3
  <1>6. Write(cmds)
    BY <1>1
  <1> HIDE DEF cmds
  <1>7. cmds \in Seq(OwnRequests) /\ Len(cmds) = Len(chosen)
    BY <1>4, <1>5, FunIsSeq
  <1>8. Has(cmds, Loads)
    <2>1. 1 \in DOMAIN cmds /\ 1 \in 1 .. Len(chosen)
      BY <1>4, <1>7
    <2> QED BY <1>5, <2>1 DEF Has
  <1> QED BY <1>2, <1>6, <1>7, <1>8, WriteStep

LEMMA RefreshStep == ASSUME IInv, Refresh PROVE IInv'
  <1>1. /\ UNCHANGED <<toolbarVars, listVars, loadingMore, tableMore, detailVars, crashed>>
        /\ loading' = TRUE /\ wire' = Append(wire, ListCmd(listSpec))
        /\ UNCHANGED portalVars /\ hasList
    BY DEF Refresh, Press
  <1>2. portal' \in [Sections -> Seq(Ids)]
    BY <1>1, CommandsNow
  <1>3. ListCmd(listSpec) \in OwnRequests
    BY <1>1, <1>2, CommandTypes DEF IInv, Typed, ListTyped
  <1>4. ListCmd(listSpec).kind \in Loads
    BY DEF ListCmd, Loads
  <1>5. wire' = wire \o <<ListCmd(listSpec)>>
    BY <1>1, <1>3, <1>4, OneRequest DEF IInv, Typed
  <1>6. Write(<<ListCmd(listSpec)>>)
    BY <1>1, <1>5 DEF Write
  <1> QED BY <1>1, <1>3, <1>4, <1>6, WriteOneStep

-----------------------------------------------------------------------------
(* Keys that draw the table                                                *)

\* Drawing the table with the records as they are after the step.
LEMMA SyncFits ==
  ASSUME Typed, Fits, ~crashed, NEW q, items' \in Seq(Item), Len(items') = Len(items),
         NEW t \in Table, t.order = table.order, t.ready = table.ready,
         UNCHANGED hasList, Sync(t, hasList, q, items')
  PROVE  table' \in Table /\ crashed' \in BOOLEAN /\ Fits'
  <1>1. hasList \in BOOLEAN /\ items \in Seq(Item)
    BY DEF Typed, ListTyped
  <1>2. /\ table' \in Table /\ crashed' \in BOOLEAN
        /\ ~hasList => IsPermutation(table'.order, Len(table'.rows))
        /\ hasList /\ t.ready = TRUE /\ ~crashed' /\ IsPermutation(t.order, Len(items')) =>
             /\ table'.ready = TRUE /\ table'.rows = items'
             /\ IsPermutation(table'.order, Len(table'.rows))
    BY <1>1, SyncProps
  <1>3. hasList => t.ready = TRUE /\ IsPermutation(t.order, Len(items'))
    BY DEF Fits
  <1> QED BY <1>1, <1>2, <1>3 DEF Fits

\* A key that draws the table and issues nothing.
LEMMA DrawStep ==
  ASSUME IInv, ~crashed, NEW q, items' \in Seq(Item), Len(items') = Len(items),
         Sync(table, hasList, q, items'),
         focus' \in Panes, zone' \in Zones, query' \in BOOLEAN,
         UNCHANGED <<hasList, listSpec, hasMore, flagVars, detailVars, wire, portalVars>>
  PROVE  IInv'
  <1>1. table \in Table
    BY DEF IInv, Typed, ListTyped
  <1>2. table' \in Table /\ crashed' \in BOOLEAN /\ Fits'
    BY <1>1, SyncFits DEF IInv
  <1>3. ListTyped'
    BY <1>2 DEF IInv, Typed, ListTyped
  <1>4. /\ UNCHANGED flagVars /\ UNCHANGED detailVars /\ UNCHANGED wire
        /\ UNCHANGED portalVars /\ UNCHANGED <<flagVars, wire>>
    OBVIOUS
  <1>5. FlagsTyped' /\ DetailTyped' /\ WireTyped' /\ PortalTyped' /\ Awaited'
    BY <1>4, Kept DEF IInv, Typed
  <1> QED BY <1>2, <1>3, <1>5 DEF IInv, Typed

LEMMA ItemsNow ==
  ASSUME IInv
  PROVE  /\ items \in Seq(Item) /\ table \in Table
         /\ focus \in Panes /\ zone \in Zones /\ query \in BOOLEAN
  BY DEF IInv, Typed, ListTyped

LEMMA TypeQueryStep == ASSUME IInv, TypeQuery PROVE IInv'
  <1>1. /\ ~crashed /\ UNCHANGED portalVars
        /\ UNCHANGED <<focus, hasList, listSpec, items, hasMore, flagVars, detailVars, wire>>
        /\ Sync(table, hasList, query', items)
    BY DEF TypeQuery, Press
  <1>2. focus' \in Panes /\ zone' \in Zones /\ query' \in BOOLEAN
    BY <1>1, ItemsNow DEF TypeQuery, Zones
  <1>3. items' \in Seq(Item) /\ Len(items') = Len(items) /\ Sync(table, hasList, query', items')
    BY <1>1, ItemsNow
  <1> QED BY <1>1, <1>2, <1>3, DrawStep

LEMMA ClearFilterStep == ASSUME IInv, ClearFilter PROVE IInv'
  <1>1. /\ ~crashed /\ UNCHANGED portalVars
        /\ UNCHANGED <<focus, zone, hasList, listSpec, items, hasMore, flagVars, detailVars, wire>>
        /\ Sync(table, hasList, FALSE, items) /\ query' = FALSE
    BY DEF ClearFilter, Press
  <1>2. focus' \in Panes /\ zone' \in Zones /\ query' \in BOOLEAN
    BY <1>1, ItemsNow
  <1>3. items' \in Seq(Item) /\ Len(items') = Len(items) /\ Sync(table, hasList, FALSE, items')
    BY <1>1, ItemsNow
  <1> QED BY <1>1, <1>2, <1>3, DrawStep

LEMMA RedrawStep == ASSUME IInv, Redraw PROVE IInv'
  <1>1. /\ ~crashed /\ UNCHANGED portalVars
        /\ UNCHANGED <<toolbarVars, hasList, listSpec, items, hasMore, flagVars, detailVars, wire>>
        /\ Sync(table, hasList, query, items)
    BY DEF Redraw, Press
  <1>2. focus' \in Panes /\ zone' \in Zones /\ query' \in BOOLEAN
    BY <1>1, ItemsNow DEF toolbarVars
  <1>3. items' \in Seq(Item) /\ Len(items') = Len(items) /\ Sync(table, hasList, query, items')
    BY <1>1, ItemsNow
  <1> QED BY <1>1, <1>2, <1>3, DrawStep

LEMMA ToggleSelectStep == ASSUME IInv, ToggleSelect PROVE IInv'
  <1> DEFINE row == CursorRow(table, query, items)
             flip(i) == IF items[i].id = row THEN [items[i] EXCEPT !.sel = ~@] ELSE items[i]
  <1>1. /\ ~crashed /\ UNCHANGED portalVars
        /\ UNCHANGED <<toolbarVars, hasList, listSpec, hasMore, flagVars, detailVars, wire>>
        /\ Sync(table, hasList, query, items')
        /\ items' = [i \in DOMAIN items |-> flip(i)]
    BY DEF ToggleSelect, Press
  <1>2. focus' \in Panes /\ zone' \in Zones /\ query' \in BOOLEAN
    BY <1>1, ItemsNow DEF toolbarVars
  <1> HIDE DEF row
  <1>3. items' \in Seq(Item) /\ Len(items') = Len(items)
    <2>1. Len(items) \in Nat /\ DOMAIN items = 1 .. Len(items)
          /\ \A i \in 1 .. Len(items) : items[i] \in Item
      BY ItemsNow
    <2>2. \A i \in 1 .. Len(items) : flip(i) \in Item
      BY <2>1 DEF Item
    <2> HIDE DEF flip
    <2>3. items' \in [1 .. Len(items) -> Item]
      BY <1>1, <2>1, <2>2
    <2> QED BY <2>1, <2>3, FunIsSeq
  <1> HIDE DEF flip
  <1> QED BY <1>1, <1>2, <1>3, DrawStep

LEMMA ToggleSortStep == ASSUME IInv, ToggleSort PROVE IInv'
  <1> DEFINE t == [table EXCEPT !.sort = IF @ = "up" THEN "down" ELSE "up"]
  <1>1. /\ ~crashed /\ table' \in Sorted(t) /\ crashed' = Undrawable(table')
        /\ UNCHANGED toolbarVars /\ UNCHANGED <<hasList, listSpec, items, hasMore>>
        /\ UNCHANGED flagVars /\ UNCHANGED detailVars /\ UNCHANGED wire
        /\ UNCHANGED portalVars /\ UNCHANGED <<flagVars, wire>>
    BY DEF ToggleSort, Press
  <1>2. t \in Table /\ t.rows = table.rows /\ t.order = table.order /\ t.ready = table.ready
    BY ItemsNow DEF Table, Sorts
  <1> HIDE DEF t
  <1>3. /\ table' \in Table /\ table'.rows = table.rows /\ table'.ready = table.ready
        /\ \A n \in Nat : IsPermutation(table.order, n) => IsPermutation(table'.order, n)
    BY <1>1, <1>2, SortedProps
  <1>4. Len(table.rows) \in Nat
    BY ItemsNow DEF Table
  <1>5. ListTyped'
    BY <1>1, <1>3 DEF IInv, Typed, ListTyped
  <1>6. Fits'
    BY <1>1, <1>3, <1>4 DEF IInv, Fits
  <1>7. FlagsTyped' /\ DetailTyped' /\ WireTyped' /\ PortalTyped' /\ Awaited'
    BY <1>1, Kept DEF IInv, Typed
  <1>8. focus' \in Panes /\ zone' \in Zones /\ query' \in BOOLEAN /\ crashed' \in BOOLEAN
    BY <1>1, ItemsNow DEF toolbarVars, Undrawable
  <1> QED BY <1>5, <1>6, <1>7, <1>8 DEF IInv, Typed

\* The two keys that move to another row, or to the detail pane.
LEMMA RowStep ==
  ASSUME IInv, UNCHANGED portalVars, RowChanged(wire, loading, loadingMore),
         ListTyped', Fits', crashed' \in BOOLEAN,
         focus' \in Panes, zone' \in Zones, query' \in BOOLEAN
  PROVE  IInv'
  <1>1. portal' \in [Sections -> Seq(Ids)] /\ PortalTyped'
    BY CommandsNow, Kept DEF IInv, Typed
  <1>2. /\ FlagsTyped /\ DetailTyped /\ wire \in Seq(OwnRequests)
        /\ loading \in BOOLEAN /\ loadingMore \in BOOLEAN
    BY DEF IInv, Typed, FlagsTyped, WireTyped
  <1>3. (loading => Has(wire, Loads)) /\ (loadingMore \/ tableMore => Has(wire, {"more"}))
    BY DEF IInv, Awaited
  <1>4. FlagsTyped' /\ DetailTyped' /\ WireTyped' /\ Awaited'
    BY <1>1, <1>2, <1>3, RowChangedProps
  <1> QED BY <1>1, <1>4 DEF IInv, Typed

LEMMA MoveCursorStep == ASSUME IInv, NEW d \in {-1, 1}, MoveCursor(d) PROVE IInv'
  <1> DEFINE t == IF hasList THEN Moved(table, d) ELSE table
  <1>1. /\ ~crashed /\ UNCHANGED portalVars
        /\ UNCHANGED <<toolbarVars, hasList, listSpec, items, hasMore>>
        /\ Sync(t, hasList, query, items)
        /\ RowChanged(wire, loading, loadingMore)
    BY DEF MoveCursor, Press
  <1>2. t \in Table /\ t.order = table.order /\ t.ready = table.ready
    BY ItemsNow, MovedProps
  <1> HIDE DEF t
  <1>3. items' \in Seq(Item) /\ Len(items') = Len(items) /\ Sync(t, hasList, query, items')
    BY <1>1, ItemsNow
  <1>4. table' \in Table /\ crashed' \in BOOLEAN /\ Fits'
    BY <1>1, <1>2, <1>3, SyncFits DEF IInv
  <1>5. ListTyped'
    BY <1>1, <1>4 DEF IInv, Typed, ListTyped
  <1>6. focus' \in Panes /\ zone' \in Zones /\ query' \in BOOLEAN
    BY <1>1, ItemsNow DEF toolbarVars
  <1> QED BY <1>1, <1>4, <1>5, <1>6, RowStep

LEMMA FocusDetailStep == ASSUME IInv, FocusDetail PROVE IInv'
  <1>1. /\ UNCHANGED portalVars /\ UNCHANGED listVars /\ UNCHANGED <<zone, query, crashed>>
        /\ UNCHANGED <<hasList, items, table, crashed>>
        /\ focus' = "preview" /\ RowChanged(wire, loading, loadingMore)
    BY DEF FocusDetail, Press, listVars
  <1>2. ListTyped' /\ Fits' /\ crashed' \in BOOLEAN
    BY <1>1, Kept DEF IInv, Typed
  <1>3. focus' \in Panes /\ zone' \in Zones /\ query' \in BOOLEAN
    BY <1>1, ItemsNow DEF Panes
  <1> QED BY <1>1, <1>2, <1>3, RowStep

-----------------------------------------------------------------------------
(* Answers                                                                 *)

\* The pages are sequences of records.
LEMMA PageTypes ==
  ASSUME NEW ids \in Seq(Ids)
  PROVE  /\ \A s \in Sections : Fresh(FirstPage(s, ids)) \in Seq(Item)
         /\ \A start \in Nat : Fresh(NextPage(ids, start)) \in Seq(Item)
  <1>1. \A p \in Seq(Ids) : Fresh(p) \in Seq(Item)
    <2> SUFFICES ASSUME NEW p \in Seq(Ids) PROVE Fresh(p) \in Seq(Item)
      OBVIOUS
    <2>1. Fresh(p) \in [1 .. Len(p) -> Item] /\ Len(p) \in Nat
      BY DEF Fresh, Item
    <2> QED BY <2>1, FunIsSeq
  <1>2. Len(ids) \in Nat /\ \A k \in 1 .. Len(ids) : ids[k] \in Ids
    OBVIOUS
  <1>3. \A n \in Nat : Upto(ids, n) \in Seq(Ids)
    <2> SUFFICES ASSUME NEW n \in Nat PROVE Upto(ids, n) \in Seq(Ids)
      OBVIOUS
    <2> DEFINE m == IF n < Len(ids) THEN n ELSE Len(ids)
    <2>1. m \in Int /\ \A k \in 1 .. m : ids[k] \in Ids
      BY <1>2
    <2>2. SubSeq(ids, 1, m) \in Seq(Ids)
      <3> HIDE DEF m
      <3>1. 1 \in Int
        OBVIOUS
      <3> QED BY <2>1, <3>1, SubSeqProperties
    <2> QED BY <2>2 DEF Upto
  <1>4. \A s \in Sections : FirstPage(s, ids) \in Seq(Ids)
    BY <1>3, OfficeAssumption DEF FirstPage
  <1>5. ASSUME NEW start \in Nat PROVE NextPage(ids, start) \in Seq(Ids)
    <2> DEFINE n    == PageSize * (start \div PageSize + 1)
               page == Upto(ids, n)
    <2>1. n \in Nat
      <3>1. start \div PageSize \in Nat
        <4>1. PageSize \in Nat /\ PageSize > 0
          BY OfficeAssumption
        <4> QED BY <4>1
      <3> DEFINE d == start \div PageSize
      <3> HIDE DEF d
      <3>2. d \in Nat => PageSize * (d + 1) \in Nat
        BY OfficeAssumption
      <3> QED BY <3>1, <3>2 DEF d
    <2>2. page \in Seq(Ids)
      <3> HIDE DEF n
      <3> QED BY <1>3, <2>1
    <2>3. NextPage(ids, start) = SubSeq(page, start + 1, Len(page))
      BY DEF NextPage
    <2> HIDE DEF page
    <2>4. \A k \in start + 1 .. Len(page) : page[k] \in Ids
      BY <2>2
    <2>5. start + 1 \in Int /\ Len(page) \in Int
      BY <2>2
    <2> QED BY <2>3, <2>4, <2>5, SubSeqProperties
  <1> QED BY <1>1, <1>4, <1>5

\* What an answer finds.
LEMMA Answered ==
  ASSUME IInv, NEW i \in DOMAIN wire
  PROVE  /\ wire[i] \in OwnRequests
         /\ Rest(i) \in Seq(OwnRequests)
         /\ wire[i].kind \in Loads => (tableMore \/ loadingMore => Has(Rest(i), {"more"}))
         /\ wire[i].kind = "more" => (loading => Has(Rest(i), Loads))
         /\ portal \in [Sections -> Seq(Ids)]
  <1>1. WireTyped /\ wire \in Seq(OwnRequests)
    BY DEF IInv, Typed, WireTyped
  <1>2. wire[i] \in OwnRequests
    BY <1>1
  <1>3. /\ Rest(i) \in Seq(OwnRequests)
        /\ \A K : Has(wire, K) /\ wire[i].kind \notin K => Has(Rest(i), K)
    BY <1>1, HasRest
  <1>4. wire[i].kind \in Loads => wire[i].kind \notin {"more"}
    BY DEF Loads
  <1>5. wire[i].kind = "more" => wire[i].kind \notin Loads
    BY DEF Loads
  <1>6. portal \in [Sections -> Seq(Ids)]
    BY DEF IInv, Typed, PortalTyped
  <1> QED BY <1>2, <1>3, <1>4, <1>5, <1>6 DEF IInv, Awaited

LEMMA ListAnswerStep ==
  ASSUME IInv, NEW i \in DOMAIN wire, wire[i].kind = "list",
         ListTyped', Fits', crashed' \in BOOLEAN, UNCHANGED <<toolbarVars, portalVars>>,
         RowChanged(Rest(i), FALSE, FALSE)
  PROVE  IInv'
  <1>1. PortalTyped' /\ portal' \in [Sections -> Seq(Ids)]
    BY Kept DEF IInv, Typed, PortalTyped
  <1>2. FlagsTyped /\ DetailTyped
    BY DEF IInv, Typed
  <1>3. Rest(i) \in Seq(OwnRequests) /\ (tableMore => Has(Rest(i), {"more"}))
    BY Answered DEF Loads
  <1>4. FlagsTyped' /\ DetailTyped' /\ WireTyped' /\ Awaited'
    BY <1>1, <1>2, <1>3, RowChangedProps
  <1>5. focus' \in Panes /\ zone' \in Zones /\ query' \in BOOLEAN
    BY ItemsNow DEF toolbarVars
  <1> QED BY <1>1, <1>4, <1>5 DEF IInv, Typed

LEMMA ListLoadedStep == ASSUME IInv, NEW i \in DOMAIN wire, ListLoaded(i) PROVE IInv'
  <1>1. /\ wire[i].kind = "list" /\ UNCHANGED <<toolbarVars, portalVars>>
        /\ listSpec' = wire[i].spec /\ hasList' = TRUE
        /\ hasMore' = (listSpec' \in Mail /\ Len(items') >= PageSize)
        /\ RowChanged(Rest(i), FALSE, FALSE)
    BY DEF ListLoaded, Answers
  <1>2. PICK ids \in {wire[i].seen, portal[wire[i].spec]} :
           items' = Fresh(FirstPage(wire[i].spec, ids))
    BY DEF ListLoaded
  <1>3. PICK t \in WithData(table, items') : Sync(t, TRUE, query, items')
    BY DEF ListLoaded
  <1>4. wire[i].spec \in Sections /\ wire[i].seen \in Seq(Ids)
    BY <1>1, Answered, RequestFields
  <1>5. ids \in Seq(Ids)
    BY <1>2, <1>4, Answered
  <1>6. items' \in Seq(Item)
    BY <1>2, <1>4, <1>5, PageTypes
  <1>7. t \in Table /\ t.ready = TRUE /\ IsPermutation(t.order, Len(items'))
    BY <1>3, <1>6, ItemsNow, WithDataProps
  <1>8. /\ table' \in Table /\ crashed' \in BOOLEAN
        /\ ~crashed' => /\ table'.ready = TRUE /\ table'.rows = items'
                        /\ IsPermutation(table'.order, Len(table'.rows))
    BY <1>3, <1>6, <1>7, SyncProps
  <1>9. ListTyped'
    BY <1>1, <1>4, <1>6, <1>8 DEF ListTyped
  <1>10. Fits'
    BY <1>8 DEF Fits
  <1> QED BY <1>1, <1>8, <1>9, <1>10, ListAnswerStep

LEMMA ListFailedStep == ASSUME IInv, NEW i \in DOMAIN wire, ListFailed(i) PROVE IInv'
  <1>1. /\ wire[i].kind = "list" /\ UNCHANGED <<toolbarVars, portalVars>>
        /\ UNCHANGED <<listSpec, crashed>>
        /\ hasList' = FALSE /\ items' = <<>> /\ hasMore' = FALSE
        /\ table' = Cleared(table)
        /\ RowChanged(Rest(i), FALSE, FALSE)
    BY DEF ListFailed, Answers
  <1>2. table' \in Table /\ IsPermutation(table'.order, Len(table'.rows))
    BY <1>1, ItemsNow, ClearedProps
  <1>3. items' \in Seq(Item)
    BY <1>1
  <1>4. ListTyped' /\ crashed' \in BOOLEAN
    BY <1>1, <1>2, <1>3 DEF IInv, Typed, ListTyped
  <1>5. Fits'
    BY <1>1, <1>2 DEF Fits
  <1> QED BY <1>1, <1>4, <1>5, ListAnswerStep

\* The flags and the wire after the answer to a request for a further page.
LEMMA EndMoreStep ==
  ASSUME IInv, NEW i \in DOMAIN wire, EndMore(i), ListTyped', Fits', crashed' \in BOOLEAN
  PROVE  IInv'
  <1>1. /\ wire[i].kind = "more" /\ loadingMore' = FALSE /\ tableMore' = FALSE
        /\ wire' = Rest(i) /\ UNCHANGED toolbarVars /\ UNCHANGED portalVars
        /\ UNCHANGED loading /\ UNCHANGED detailVars
    BY DEF EndMore, Answers
  <1>2. wire' \in Seq(OwnRequests) /\ (loading' => Has(wire', Loads))
    BY <1>1, Answered
  <1>3. FlagsTyped' /\ WireTyped' /\ Awaited'
    BY <1>1, <1>2 DEF IInv, Typed, FlagsTyped, WireTyped, Awaited
  <1>4. DetailTyped' /\ PortalTyped'
    BY <1>1, Kept DEF IInv, Typed
  <1>5. focus' \in Panes /\ zone' \in Zones /\ query' \in BOOLEAN
    BY <1>1, ItemsNow DEF toolbarVars
  <1> QED BY <1>3, <1>4, <1>5 DEF IInv, Typed

LEMMA MoreFailedStep == ASSUME IInv, NEW i \in DOMAIN wire, MoreFailed(i) PROVE IInv'
  <1>1. EndMore(i) /\ UNCHANGED <<hasList, listSpec, items, table, hasMore, crashed>>
    BY DEF MoreFailed, EndMore
  <1>2. UNCHANGED listVars /\ UNCHANGED <<hasList, items, table, crashed>>
    BY <1>1 DEF listVars
  <1>3. ListTyped' /\ Fits' /\ crashed' \in BOOLEAN
    BY <1>1, <1>2, Kept DEF IInv, Typed
  <1> QED BY <1>1, <1>3, EndMoreStep

LEMMA MoreLoadedStep == ASSUME IInv, NEW i \in DOMAIN wire, MoreLoaded(i) PROVE IInv'
  <1>1. /\ EndMore(i) /\ wire[i].kind = "more" /\ ~crashed
        /\ UNCHANGED <<hasList, listSpec>> /\ crashed' = Undrawable(table')
    BY DEF MoreLoaded, EndMore, Answers
  <1>2. PICK ids \in {wire[i].seen, portal[wire[i].spec]} :
          LET page == Fresh(NextPage(ids, wire[i].start)) IN
          /\ \E new \in At(page, {k \in DOMAIN page : IsNew(table, page[k])}) :
               IF table.ready /\ new # <<>>
                 THEN table' \in WithMore(table, new) /\ items' = ItemsAfterMore(table')
                 ELSE UNCHANGED <<table, items>>
          /\ hasMore' = (Len(page) >= PageSize)
    BY DEF MoreLoaded
  <1> DEFINE page == Fresh(NextPage(ids, wire[i].start))
             K    == {k \in DOMAIN page : IsNew(table, page[k])}
  <1>3. PICK new \in At(page, K) :
          IF table.ready /\ new # <<>>
            THEN table' \in WithMore(table, new) /\ items' = ItemsAfterMore(table')
            ELSE UNCHANGED <<table, items>>
    BY <1>2
  <1>4. hasMore' \in BOOLEAN
    BY <1>2
  <1>5. wire[i].spec \in Sections /\ wire[i].seen \in Seq(Ids) /\ wire[i].start \in Nat
    BY <1>1, Answered, RequestFields
  <1>6. ids \in Seq(Ids)
    BY <1>2, <1>5, Answered
  <1>7. page \in Seq(Item)
    BY <1>5, <1>6, PageTypes
  <1>8. K \subseteq DOMAIN page
    OBVIOUS
  <1> HIDE DEF page, K
  <1>9. new \in Seq(Item)
    BY <1>7, <1>8, AtProps
  <1>10. crashed' \in BOOLEAN
    BY <1>1 DEF Undrawable
  <1>11. CASE table.ready /\ new # <<>>
    <2>1. table' \in WithMore(table, new) /\ items' = table'.rows
      BY <1>3, <1>11 DEF ItemsAfterMore
    <2>2. /\ table' \in Table /\ table'.ready = table.ready
          /\ IsPermutation(table.order, Len(table.rows))
               => IsPermutation(table'.order, Len(table'.rows))
      BY <1>9, <2>1, ItemsNow, WithMoreProps
    <2>3. ListTyped'
      BY <1>1, <1>4, <2>1, <2>2 DEF IInv, Typed, ListTyped, Table
    <2>4. Fits'
      BY <1>1, <2>1, <2>2 DEF IInv, Fits
    <2> QED BY <1>1, <1>10, <2>3, <2>4, EndMoreStep
  <1>12. CASE ~(table.ready /\ new # <<>>)
    <2>1. UNCHANGED <<table, items>>
      BY <1>3, <1>12
    <2>2. ListTyped'
      BY <1>1, <1>4, <2>1 DEF IInv, Typed, ListTyped
    <2>3. Fits'
      BY <1>1, <2>1 DEF IInv, Fits
    <2> QED BY <1>1, <1>10, <2>2, <2>3, EndMoreStep
  <1> QED BY <1>11, <1>12

\* The flags and the wire after the answer to any other request.
LEMMA LoadAnswered ==
  ASSUME IInv, NEW i \in DOMAIN wire, wire[i].kind \in Loads, NEW cmds \in Seq(OwnRequests),
         wire' = Rest(i) \o cmds, loading' \in BOOLEAN, loading' => Has(cmds, Loads),
         UNCHANGED <<loadingMore, tableMore>>
  PROVE  FlagsTyped' /\ WireTyped' /\ Awaited'
  <1>1. /\ Rest(i) \in Seq(OwnRequests)
        /\ tableMore \/ loadingMore => Has(Rest(i), {"more"})
    BY Answered
  <1>2. /\ wire' \in Seq(OwnRequests)
        /\ \A K : Has(Rest(i), K) \/ Has(cmds, K) => Has(wire', K)
    BY <1>1, HasConcat
  <1>3. FlagsTyped'
    BY DEF IInv, Typed, FlagsTyped
  <1>4. Awaited'
    BY <1>1, <1>2 DEF Awaited
  <1> QED BY <1>2, <1>3, <1>4 DEF WireTyped

LEMMA LoadEnds ==
  ASSUME IInv, NEW i \in DOMAIN wire, wire[i].kind \in Loads,
         wire' = Rest(i), loading' = FALSE, UNCHANGED <<loadingMore, tableMore>>
  PROVE  FlagsTyped' /\ WireTyped' /\ Awaited'
  <1>1. <<>> \in Seq(OwnRequests)
    OBVIOUS
  <1>2. Rest(i) \in Seq(OwnRequests)
    BY Answered
  <1>3. wire' = Rest(i) \o <<>>
    BY <1>2, ConcatEmptySeq
  <1>4. loading' \in BOOLEAN /\ (loading' => Has(<<>>, Loads))
    OBVIOUS
  <1> QED BY <1>1, <1>3, <1>4, LoadAnswered

LEMMA DetailLoadedStep == ASSUME IInv, NEW i \in DOMAIN wire, DetailLoaded(i) PROVE IInv'
  <1>1. /\ wire[i].kind = "detail" /\ loading' = FALSE /\ wire' = Rest(i)
        /\ UNCHANGED toolbarVars /\ UNCHANGED listVars /\ UNCHANGED portalVars
        /\ UNCHANGED <<loadingMore, tableMore>> /\ UNCHANGED crashed
        /\ \/ open' = wire[i].id /\ text' = wire[i].id
           \/ open' = None /\ text' = None
    BY DEF DetailLoaded, Answers, LoadForm
  <1>2. wire[i].id \in Ids
    BY <1>1, Answered, RequestFields
  <1>3. FlagsTyped' /\ WireTyped' /\ Awaited'
    BY <1>1, LoadEnds DEF Loads
  <1>4. DetailTyped'
    BY <1>1, <1>2 DEF DetailTyped
  <1>5. ListTyped' /\ PortalTyped'
    BY <1>1, Kept DEF IInv, Typed
  <1>6. Fits'
    BY <1>1, Kept DEF IInv, listVars
  <1>7. focus' \in Panes /\ zone' \in Zones /\ query' \in BOOLEAN /\ crashed' \in BOOLEAN
    BY <1>1 DEF IInv, Typed, toolbarVars
  <1> QED BY <1>3, <1>4, <1>5, <1>6, <1>7 DEF IInv, Typed

\* A save under way writes the record's own text.
LEMMA StoreProps ==
  ASSUME IInv, NEW i \in DOMAIN wire, wire[i].kind = "save", wire[i].id \in Editable,
         Store(wire[i]), UNCHANGED <<portal, arrived>>
  PROVE  PortalTyped' /\ wire[i].id \in Ids
  <1>1. wire[i].text = wire[i].id /\ wire[i].id \in Ids
    BY Answered, RequestFields, OfficeAssumption
  <1>2. saved' = [saved EXCEPT ![wire[i].id] = wire[i].id]
    BY <1>1 DEF Store
  <1> QED BY <1>1, <1>2 DEF IInv, Typed, PortalTyped

LEMMA SaveDoneStep == ASSUME IInv, NEW i \in DOMAIN wire, SaveDone(i) PROVE IInv'
  <1>1. /\ wire[i].kind = "save" /\ ~crashed /\ loading' = FALSE /\ wire' = Rest(i)
        /\ wire[i].id \in Editable /\ Store(wire[i])
        /\ open' = wire[i].id /\ text' = wire[i].id
        /\ UNCHANGED toolbarVars /\ UNCHANGED <<hasList, listSpec, items, hasMore>>
        /\ UNCHANGED <<loadingMore, tableMore>> /\ UNCHANGED <<portal, arrived>>
        /\ Sync(table, hasList, query, items) \/ UNCHANGED <<table, crashed>>
    BY DEF SaveDone, Answers, LoadForm
  <1>2. PortalTyped' /\ wire[i].id \in Ids
    BY <1>1, StoreProps
  <1>3. FlagsTyped' /\ WireTyped' /\ Awaited'
    BY <1>1, LoadEnds DEF Loads
  <1>4. DetailTyped'
    BY <1>1, <1>2 DEF DetailTyped
  <1>5. table' \in Table /\ crashed' \in BOOLEAN /\ Fits'
    <2>1. CASE UNCHANGED <<table, crashed>>
      BY <1>1, <2>1, ItemsNow, Kept DEF IInv, Typed
    <2>2. CASE Sync(table, hasList, query, items)
      <3>1. items' \in Seq(Item) /\ Len(items') = Len(items) /\ table \in Table
            /\ Sync(table, hasList, query, items')
        BY <1>1, <2>2, ItemsNow
      <3> QED BY <1>1, <3>1, SyncFits DEF IInv
    <2> QED BY <1>1, <2>1, <2>2
  <1>6. ListTyped'
    BY <1>1, <1>5 DEF IInv, Typed, ListTyped
  <1>7. focus' \in Panes /\ zone' \in Zones /\ query' \in BOOLEAN
    BY <1>1, ItemsNow DEF toolbarVars
  <1> QED BY <1>2, <1>3, <1>4, <1>5, <1>6, <1>7 DEF IInv, Typed

LEMMA SaveFailedStep == ASSUME IInv, NEW i \in DOMAIN wire, SaveFailed(i) PROVE IInv'
  <1>1. /\ wire[i].kind = "save" /\ loading' = FALSE /\ wire' = Rest(i)
        /\ UNCHANGED toolbarVars /\ UNCHANGED listVars /\ UNCHANGED detailVars
        /\ UNCHANGED <<loadingMore, tableMore>> /\ UNCHANGED crashed
        /\ UNCHANGED <<portal, arrived>>
        /\ UNCHANGED saved \/ (wire[i].id \in Editable /\ Store(wire[i]))
    BY DEF SaveFailed, Answers
  <1>2. PortalTyped'
    <2>1. CASE UNCHANGED saved
      BY <1>1, <2>1 DEF IInv, Typed, PortalTyped
    <2>2. CASE wire[i].id \in Editable /\ Store(wire[i])
      BY <1>1, <2>2, StoreProps
    <2> QED BY <1>1, <2>1, <2>2
  <1>3. FlagsTyped' /\ WireTyped' /\ Awaited'
    BY <1>1, LoadEnds DEF Loads
  <1>4. ListTyped' /\ DetailTyped'
    BY <1>1, Kept DEF IInv, Typed
  <1>5. Fits'
    BY <1>1, Kept DEF IInv, listVars
  <1>6. focus' \in Panes /\ zone' \in Zones /\ query' \in BOOLEAN /\ crashed' \in BOOLEAN
    BY <1>1 DEF IInv, Typed, toolbarVars
  <1> QED BY <1>2, <1>3, <1>4, <1>5, <1>6 DEF IInv, Typed

\* A record leaves the sections it is in.
LEMMA RemovedType ==
  ASSUME portal \in [Sections -> Seq(Ids)], NEW id
  PROVE  Removed(id) \in [Sections -> Seq(Ids)]
  <1> SUFFICES ASSUME NEW s \in Sections, id \in Range(portal[s])
               PROVE  RemoveAt(portal[s], CHOOSE i \in DOMAIN portal[s] : portal[s][i] = id)
                        \in Seq(Ids)
    BY DEF Removed
  <1>1. \E i \in DOMAIN portal[s] : portal[s][i] = id
    BY DEF Range
  <1>2. (CHOOSE i \in DOMAIN portal[s] : portal[s][i] = id) \in DOMAIN portal[s]
    BY <1>1
  <1> QED BY <1>2, RestIsSeq

LEMMA DeleteDoneStep == ASSUME IInv, NEW i \in DOMAIN wire, DeleteDone(i) PROVE IInv'
  <1> DEFINE cmds == IF hasList THEN <<ListCmd(listSpec)>> ELSE <<>>
  <1>1. /\ wire[i].kind = "delete" /\ portal' = Removed(wire[i].id)
        /\ loading' = hasList /\ wire' = Rest(i) \o cmds
        /\ UNCHANGED toolbarVars /\ UNCHANGED listVars /\ UNCHANGED detailVars
        /\ UNCHANGED <<loadingMore, tableMore>> /\ UNCHANGED crashed
        /\ UNCHANGED <<arrived, saved>>
    BY DEF DeleteDone, Answers
  <1>2. portal' \in [Sections -> Seq(Ids)]
    BY <1>1, Answered, RemovedType
  <1>3. PortalTyped'
    BY <1>1, <1>2 DEF IInv, Typed, PortalTyped
  <1>4. hasList \in BOOLEAN /\ (hasList => listSpec \in Sections)
    BY DEF IInv, Typed, ListTyped
  <1>5. cmds \in Seq(OwnRequests) /\ (hasList => Has(cmds, Loads))
    <2>1. CASE hasList
      <3>1. ListCmd(listSpec) \in OwnRequests
        BY <1>2, <1>4, <2>1, CommandTypes
      <3>2. ListCmd(listSpec).kind \in Loads
        BY DEF ListCmd, Loads
      <3>3. WireTyped
        BY DEF IInv, Typed
      <3>4. <<ListCmd(listSpec)>> \in Seq(OwnRequests) /\ Has(<<ListCmd(listSpec)>>, Loads)
        BY <3>1, <3>2, <3>3, OneRequest
      <3> QED BY <2>1, <3>4
    <2>2. CASE ~hasList
      BY <2>2
    <2> QED BY <2>1, <2>2
  <1> HIDE DEF cmds
  <1>6. FlagsTyped' /\ WireTyped' /\ Awaited'
    BY <1>1, <1>4, <1>5, LoadAnswered DEF Loads
  <1>7. ListTyped' /\ DetailTyped'
    BY <1>1, Kept DEF IInv, Typed
  <1>8. Fits'
    BY <1>1, Kept DEF IInv, listVars
  <1>9. focus' \in Panes /\ zone' \in Zones /\ query' \in BOOLEAN /\ crashed' \in BOOLEAN
    BY <1>1 DEF IInv, Typed, toolbarVars
  <1> QED BY <1>3, <1>6, <1>7, <1>8, <1>9 DEF IInv, Typed

LEMMA DeleteFailedStep == ASSUME IInv, NEW i \in DOMAIN wire, DeleteFailed(i) PROVE IInv'
  <1>1. /\ wire[i].kind = "delete" /\ portal' \in {portal, Removed(wire[i].id)}
        /\ loading' = FALSE /\ wire' = Rest(i)
        /\ UNCHANGED toolbarVars /\ UNCHANGED listVars /\ UNCHANGED detailVars
        /\ UNCHANGED <<loadingMore, tableMore>> /\ UNCHANGED crashed
        /\ UNCHANGED <<arrived, saved>>
    BY DEF DeleteFailed, Answers
  <1>2. portal' \in [Sections -> Seq(Ids)]
    BY <1>1, Answered, RemovedType
  <1>3. PortalTyped'
    BY <1>1, <1>2 DEF IInv, Typed, PortalTyped
  <1>4. FlagsTyped' /\ WireTyped' /\ Awaited'
    BY <1>1, LoadEnds DEF Loads
  <1>5. ListTyped' /\ DetailTyped'
    BY <1>1, Kept DEF IInv, Typed
  <1>6. Fits'
    BY <1>1, Kept DEF IInv, listVars
  <1>7. focus' \in Panes /\ zone' \in Zones /\ query' \in BOOLEAN /\ crashed' \in BOOLEAN
    BY <1>1 DEF IInv, Typed, toolbarVars
  <1> QED BY <1>3, <1>4, <1>5, <1>6, <1>7 DEF IInv, Typed

LEMMA ArriveStep == ASSUME IInv, Arrive PROVE IInv'
  <1>1. PICK id \in DOMAIN Arriving \ arrived :
           /\ arrived' = arrived \cup {id}
           /\ portal' = [portal EXCEPT ![Arriving[id]] = <<id>> \o @]
    BY DEF Arrive
  <1>2. /\ UNCHANGED toolbarVars /\ UNCHANGED listVars /\ UNCHANGED flagVars
        /\ UNCHANGED detailVars /\ UNCHANGED wire /\ UNCHANGED crashed /\ UNCHANGED saved
        /\ UNCHANGED <<flagVars, wire>>
    BY DEF Arrive
  <1>3. id \in Ids /\ Arriving[id] \in Sections
    BY <1>1, OfficeAssumption
  <1>4. portal \in [Sections -> Seq(Ids)]
    BY DEF IInv, Typed, PortalTyped
  <1>5. <<id>> \o portal[Arriving[id]] \in Seq(Ids)
    <2>1. <<id>> \in Seq(Ids) /\ portal[Arriving[id]] \in Seq(Ids)
      BY <1>3, <1>4
    <2> QED BY <2>1, ConcatProperties
  <1>6. portal' \in [Sections -> Seq(Ids)]
    BY <1>1, <1>4, <1>5
  <1>7. PortalTyped'
    BY <1>1, <1>2, <1>3, <1>6 DEF IInv, Typed, PortalTyped
  <1>8. ListTyped' /\ FlagsTyped' /\ DetailTyped' /\ WireTyped' /\ Awaited'
    BY <1>2, Kept DEF IInv, Typed
  <1>9. Fits'
    BY <1>2, Kept DEF IInv, listVars
  <1>10. focus' \in Panes /\ zone' \in Zones /\ query' \in BOOLEAN /\ crashed' \in BOOLEAN
    BY <1>2 DEF IInv, Typed, toolbarVars
  <1> QED BY <1>7, <1>8, <1>9, <1>10 DEF IInv, Typed

-----------------------------------------------------------------------------
(* The theorems                                                            *)

LEMMA KeyStep == ASSUME IInv, Key PROVE IInv'
  <1>1. CASE SwitchPane \/ FocusFilter \/ LeaveZone
    BY <1>1, SwitchPaneStep, FocusFilterStep, LeaveZoneStep
  <1>2. CASE TypeQuery \/ ClearFilter \/ Redraw
    BY <1>2, TypeQueryStep, ClearFilterStep, RedrawStep
  <1>3. CASE ToggleSort \/ ToggleSelect \/ FocusDetail
    BY <1>3, ToggleSortStep, ToggleSelectStep, FocusDetailStep
  <1>4. CASE Refresh \/ DeleteFromList \/ DeleteDetail
    BY <1>4, RefreshStep, DeleteFromListStep, DeleteDetailStep
  <1>5. CASE SaveFromList \/ SaveDetail
    BY <1>5, SaveStep
  <1>6. CASE \E s \in Sections : OpenSection(s)
    BY <1>6, OpenSectionStep
  <1>7. CASE \E d \in {-1, 1} : MoveCursor(d)
    BY <1>7, MoveCursorStep
  <1> QED BY <1>1, <1>2, <1>3, <1>4, <1>5, <1>6, <1>7 DEF Key

LEMMA AnswerStep == ASSUME IInv, Answer PROVE IInv'
  <1>1. PICK i \in DOMAIN wire :
           \/ ListLoaded(i) \/ ListFailed(i) \/ MoreLoaded(i) \/ MoreFailed(i)
           \/ DetailLoaded(i) \/ SaveDone(i) \/ SaveFailed(i)
           \/ DeleteDone(i) \/ DeleteFailed(i)
    BY DEF Answer
  <1>2. CASE ListLoaded(i) \/ ListFailed(i)
    BY <1>2, ListLoadedStep, ListFailedStep
  <1>3. CASE MoreLoaded(i) \/ MoreFailed(i)
    BY <1>3, MoreLoadedStep, MoreFailedStep
  <1>4. CASE DetailLoaded(i)
    BY <1>4, DetailLoadedStep
  <1>5. CASE SaveDone(i) \/ SaveFailed(i)
    BY <1>5, SaveDoneStep, SaveFailedStep
  <1>6. CASE DeleteDone(i) \/ DeleteFailed(i)
    BY <1>6, DeleteDoneStep, DeleteFailedStep
  <1> QED BY <1>1, <1>2, <1>3, <1>4, <1>5, <1>6

LEMMA StutterStep == ASSUME IInv, UNCHANGED vars PROVE IInv'
  <1>1. /\ UNCHANGED toolbarVars /\ UNCHANGED <<listVars, flagVars, detailVars, wire, crashed, portalVars>>
    BY DEF vars
  <1>2. focus' \in Panes /\ zone' \in Zones /\ query' \in BOOLEAN
    BY <1>1, ItemsNow DEF toolbarVars
  <1> QED BY <1>1, <1>2, ToolbarStep

LEMMA Inductive == Spec => []IInv
  <1>1. IInv /\ [Next]_vars => IInv'
    BY KeyStep, AnswerStep, ArriveStep, StutterStep DEF Next
  <1> QED BY InitIInv, <1>1, PTL DEF Spec

\* Type correctness: in particular no request under way lacks its section, start
\* index or record (app.go:900-1001), and the cursor is a row's (table.go:186-194).
THEOREM TypeCorrect == Spec => []TypeOK
  <1>1. IInv => TypeOK
    <2> SUFFICES ASSUME IInv PROVE TypeOK
      OBVIOUS
    <2>1. wire \in Seq(Requests)
      <3>1. wire \in Seq(OwnRequests) /\ OwnRequests \subseteq Requests
        BY DEF IInv, Typed, WireTyped, OwnRequests
      <3> QED BY <3>1, SeqMonotonic
    <2> QED BY <2>1 DEF IInv, Typed, ListTyped, FlagsTyped, DetailTyped, PortalTyped,
                        TypeOK, Table
  <1> QED BY <1>1, Inductive, PTL

\* The display order names every row exactly once, for any lists, pages, sorts and
\* filters (table.go:94-231).
THEOREM OrderFits == Spec => []OrderIsPermutation
  <1>1. IInv => OrderIsPermutation
    BY DEF IInv, Fits, OrderIsPermutation
  <1> QED BY <1>1, Inductive, PTL

\* The rows drawn are the records the keys act on (app.go:252-264, 332-349, 757-770).
THEOREM RowsFit == Spec => []RowsAreItems
  <1>1. IInv => RowsAreItems
    BY DEF IInv, Fits, RowsAreItems
  <1> QED BY <1>1, Inductive, PTL

\* A save never sends one record's text to another, in whatever order details and
\* saves are answered (app.go:351-388, 982-1001).
THEOREM SavesAreTheirOwn == Spec => []SavesLandOnTheirRecord
  <1>1. IInv => SavesLandOnTheirRecord
    BY DEF IInv, Typed, PortalTyped, SavesLandOnTheirRecord
  <1> QED BY <1>1, Inductive, PTL

\* With nothing under way nothing is waited for (app.go:311-405, 943-958).
THEOREM IdleIsIdle == Spec => []IdleIsNotLoading
  <1>1. IInv => IdleIsNotLoading
    BY DEF IInv, Awaited, Has, IdleIsNotLoading
  <1> QED BY <1>1, Inductive, PTL
=============================================================================
