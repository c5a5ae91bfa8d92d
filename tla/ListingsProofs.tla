--------------------------- MODULE ListingsProofs ---------------------------
(***************************************************************************)
(* Proofs about Listings, for every number of rows, page size, query and   *)
(* length of a walk: what a page shows is worked out once, from the ranks  *)
(* of the rows, and then what a walk has shown by the token it has got to. *)
(***************************************************************************)
EXTENDS Listings, FiniteSetTheorems, SequenceTheorems, TLAPS

-----------------------------------------------------------------------------
(* The order of a list, and the rows of a set by their ranks.              *)

\* The order a list is kept in.
Before(x, y) ==
  CASE list = "audit" -> Newer(x, y)
    [] list = "queue" -> x > y
    [] OTHER -> x < y

RankOf(x, S) == Rank(x, S, Before)

\* S one after the other.
InOrder(S) == Ordered(S, Before)

\* All a proof about the order needs of the state.
Sorted == /\ list \in ListNames
          /\ events \in [Events -> EventRow]

LEMMA RowsAreFinite ==
  ASSUME Sorted
  PROVE  Rows \subseteq Nat \ {0} /\ IsFiniteSet(Rows)
<1>1. \A n \in Nat : 1 .. n \subseteq Nat \ {0} /\ IsFiniteSet(1 .. n)
  BY FS_Interval
<1>2. QED
  BY <1>1, FS_EmptySet, MaxEventsAssumption, QueueBoundsAssumption, CatalogAssumption
  DEF Sorted, Rows, ListNames, Events, Submissions, CatalogKits

\* The order is strict and total.
LEMMA OrderLaws ==
  ASSUME Sorted
  PROVE  /\ \A x \in Rows : ~Before(x, x)
         /\ \A x, y \in Rows : x = y \/ Before(x, y) \/ Before(y, x)
         /\ \A x, y, z \in Rows : Before(x, y) /\ Before(y, z) => Before(x, z)
<1>1. Rows \subseteq Nat
  BY RowsAreFinite
<1>2. CASE list = "audit"
  <2>1. Rows = Events /\ \A e \in Events : events[e].time \in Nat
    BY <1>2, MaxTimeAssumption DEF Rows, Sorted, EventRow
  <2>2. \A x, y \in Rows : Before(x, y) <=> Newer(x, y)
    BY <1>2 DEF Before
  <2>3. QED  BY <1>1, <2>1, <2>2 DEF Newer
<1>3. CASE list # "audit"
  BY <1>1, <1>3 DEF Before
<1>4. QED  BY <1>2, <1>3

\* One rank below the other is what coming before it means.
LEMMA RankLaws ==
  ASSUME Sorted, NEW S \in SUBSET Rows
  PROVE  /\ IsFiniteSet(S) /\ Cardinality(S) \in Nat
         /\ \A x \in S : RankOf(x, S) \in 0 .. Cardinality(S) - 1
         /\ \A x, y \in S : Before(x, y) <=> RankOf(x, S) < RankOf(y, S)
         /\ \A x, y \in S : RankOf(x, S) = RankOf(y, S) => x = y
<1> DEFINE Below(x) == {y \in S : Before(y, x)}
<1>1. IsFiniteSet(S) /\ Cardinality(S) \in Nat
  BY RowsAreFinite, FS_Subset, FS_CardinalityType
<1>2. \A x \in S : RankOf(x, S) = Cardinality(Below(x))
  BY DEF RankOf, Rank
<1>3. \A x \in S : IsFiniteSet(Below(x)) /\ Cardinality(Below(x)) \in Nat
  BY <1>1, FS_Subset, FS_CardinalityType
<1>4. ASSUME NEW x \in S
      PROVE  RankOf(x, S) \in 0 .. Cardinality(S) - 1
  <2>1. Below(x) \in SUBSET S /\ Below(x) # S
    BY OrderLaws
  <2>2. Cardinality(Below(x)) <= Cardinality(S) /\ Cardinality(Below(x)) # Cardinality(S)
    BY <1>1, <2>1, FS_Subset
  <2>3. QED  BY <1>1, <1>2, <1>3, <2>2
<1>5. ASSUME NEW x \in S, NEW y \in S, Before(x, y)
      PROVE  RankOf(x, S) < RankOf(y, S)
  <2>1. Below(x) \in SUBSET Below(y) /\ Below(x) # Below(y)
    BY <1>5, OrderLaws
  <2>2. /\ Cardinality(Below(x)) <= Cardinality(Below(y))
        /\ Cardinality(Below(x)) # Cardinality(Below(y))
    BY <1>3, <2>1, FS_Subset
  <2>3. QED  BY <1>2, <1>3, <2>2
<1>6. \A x \in S : RankOf(x, S) \in Int /\ ~Before(x, x)
  BY <1>1, <1>4, OrderLaws
<1>7. \A x, y \in S : x = y \/ Before(x, y) \/ Before(y, x)
  BY OrderLaws
<1>8. QED  BY <1>1, <1>4, <1>5, <1>6, <1>7

\* The row with a given rank is in its place.
LEMMA OrderedByRank ==
  ASSUME Sorted, NEW S \in SUBSET Rows
  PROVE  /\ InOrder(S) \in Seq(S)
         /\ Len(InOrder(S)) = Cardinality(S)
         /\ \A i \in 1 .. Cardinality(S) : RankOf(InOrder(S)[i], S) = i - 1
<1> DEFINE n == Cardinality(S)
           rank == [x \in S |-> RankOf(x, S)]
<1>1. /\ IsFiniteSet(S) /\ n \in Nat
      /\ rank \in [S -> 0 .. n - 1]
      /\ \A x, y \in S : rank[x] = rank[y] => x = y
  BY RankLaws
<1>2. IsFiniteSet(0 .. n - 1) /\ Cardinality(0 .. n - 1) = n
  BY <1>1, FS_Interval
<1>3. rank \in Injection(S, 0 .. n - 1)
  BY <1>1 DEF Injection, IsInjective
<1>4. rank \in Surjection(S, 0 .. n - 1)
  BY <1>1, <1>2, <1>3, FS_Injection
<1>5. \A i \in 1 .. n : \E x \in S : RankOf(x, S) = i - 1
  <2>1. \A m \in 0 .. n - 1 : \E x \in S : rank[x] = m
    BY <1>4 DEF Surjection
  <2>2. \A i \in 1 .. n : i - 1 \in 0 .. n - 1
    BY <1>1
  <2>3. QED  BY <2>1, <2>2
<1>6. InOrder(S) = [i \in 1 .. n |-> CHOOSE x \in S : RankOf(x, S) = i - 1]
  BY DEF InOrder, Ordered, RankOf
<1>7. \A i \in 1 .. n : InOrder(S)[i] \in S /\ RankOf(InOrder(S)[i], S) = i - 1
  BY <1>5, <1>6
<1>8. InOrder(S) \in [1 .. n -> S]
  BY <1>6, <1>7
<1>9. QED  BY <1>1, <1>7, <1>8, IsASeq, LenProperties

LEMMA InOrderHasAll ==
  ASSUME Sorted, NEW S \in SUBSET Rows
  PROVE  /\ ToSet(InOrder(S)) = S
         /\ \A i, j \in 1 .. Cardinality(S) :
              i < j => Before(InOrder(S)[i], InOrder(S)[j])
<1> DEFINE s == InOrder(S)
           n == Cardinality(S)
<1>1. /\ s \in Seq(S) /\ Len(s) = n /\ n \in Nat
      /\ \A i \in 1 .. n : s[i] \in S /\ RankOf(s[i], S) = i - 1
  BY OrderedByRank, RankLaws, ElementOfSeq
<1>2. DOMAIN s = 1 .. n
  BY <1>1
<1>3. \A x \in S : \E i \in 1 .. n : s[i] = x
  <2>1. TAKE x \in S
  <2>2. RankOf(x, S) + 1 \in 1 .. n
    BY <1>1, RankLaws
  <2>3. PICK i \in 1 .. n : i = RankOf(x, S) + 1
    BY <2>2
  <2>4. s[i] \in S /\ RankOf(s[i], S) = RankOf(x, S)
    <3>1. RankOf(x, S) \in Int
      BY RankLaws
    <3>2. QED  BY <1>1, <2>3, <3>1
  <2>5. s[i] = x
    BY <2>4, RankLaws
  <2>6. QED  BY <2>5
<1>4. ToSet(s) = S
  BY <1>1, <1>2, <1>3 DEF ToSet
<1>5. \A i, j \in 1 .. n : i < j => Before(s[i], s[j])
  <2>1. TAKE i, j \in 1 .. n
  <2>2. HAVE i < j
  <2>3. RankOf(s[i], S) < RankOf(s[j], S)
    BY <1>1, <2>2
  <2>4. QED  BY <1>1, <2>3, RankLaws
<1>6. QED  BY <1>4, <1>5

\* The rows of S after the first t, and the first n of these.
Rest(S, t) == After(InOrder(S), t)
Slice(S, t, n) == Upto(Rest(S, t), n)

LEMMA SliceByRank ==
  ASSUME Sorted, NEW S \in SUBSET Rows, NEW t \in Nat, NEW n \in Nat
  PROVE  /\ Rest(S, t) \in Seq(S)
         /\ Len(Rest(S, t)) = IF t < Cardinality(S) THEN Cardinality(S) - t ELSE 0
         /\ Slice(S, t, n) \in Seq(Rows)
         /\ Len(Slice(S, t, n)) =
              IF n < Len(Rest(S, t)) THEN n ELSE Len(Rest(S, t))
         /\ \A i, j \in DOMAIN Slice(S, t, n) :
              i < j => Before(Slice(S, t, n)[i], Slice(S, t, n)[j])
         /\ \A x : x \in ToSet(Slice(S, t, n)) <=>
                  x \in S /\ t <= RankOf(x, S) /\ RankOf(x, S) < t + n
<1> DEFINE s == InOrder(S)
           c == Cardinality(S)
           rest == Rest(S, t)
           k == IF n < Len(rest) THEN n ELSE Len(rest)
           page == Slice(S, t, n)
<1>1. /\ s \in Seq(S) /\ Len(s) = c /\ c \in Nat
      /\ \A i \in 1 .. c : s[i] \in S /\ RankOf(s[i], S) = i - 1
  BY OrderedByRank, RankLaws, ElementOfSeq
<1>2. rest = SubSeq(s, t + 1, c)
  BY <1>1 DEF After, Rest
<1>3. \A i \in t + 1 .. c : s[i] \in S
  BY <1>1
<1> HIDE DEF s, c, rest
<1>4. /\ rest \in Seq(S)
      /\ Len(rest) = IF t < c THEN c - t ELSE 0
      /\ \A i \in 1 .. c - t : rest[i] = s[t + i]
  <2>1. /\ SubSeq(s, t + 1, c) \in Seq(S)
        /\ Len(SubSeq(s, t + 1, c)) = IF t + 1 <= c THEN c - (t + 1) + 1 ELSE 0
        /\ \A i \in 1 .. c - (t + 1) + 1 : SubSeq(s, t + 1, c)[i] = s[t + 1 + i - 1]
    BY <1>1, <1>3, SubSeqProperties
  <2>2. QED  BY <1>1, <1>2, <2>1
<1>5. page = SubSeq(rest, 1, k) /\ k \in Nat /\ k <= Len(rest) /\ Len(rest) \in Nat
  BY <1>1, <1>4 DEF Upto, Slice, rest
<1> HIDE DEF page, k
<1>6. \A i \in 1 .. k : rest[i] \in S
  BY <1>4, <1>5, ElementOfSeq
<1>7. /\ page \in Seq(S) /\ Len(page) = k
      /\ \A i \in 1 .. k : page[i] = rest[i]
  <2>1. /\ SubSeq(rest, 1, k) \in Seq(S)
        /\ Len(SubSeq(rest, 1, k)) = IF 1 <= k THEN k - 1 + 1 ELSE 0
        /\ \A i \in 1 .. k - 1 + 1 : SubSeq(rest, 1, k)[i] = rest[1 + i - 1]
    BY <1>5, <1>6, SubSeqProperties
  <2>2. QED  BY <1>5, <2>1
<1>8. \A i \in 1 .. k : page[i] \in S /\ RankOf(page[i], S) = t + i - 1
  <2>1. TAKE i \in 1 .. k
  <2>2. i \in 1 .. c - t /\ t + i \in 1 .. c
    BY <1>1, <1>4, <1>5
  <2>3. page[i] = s[t + i]
    BY <1>4, <1>7, <2>2
  <2>4. s[t + i] \in S /\ RankOf(s[t + i], S) = t + i - 1
    BY <1>1, <2>2
  <2>5. QED  BY <2>3, <2>4
<1>9. \A x : x \in ToSet(page) <=>
              x \in S /\ t <= RankOf(x, S) /\ RankOf(x, S) < t + n
  <2>1. DOMAIN page = 1 .. k
    BY <1>7
  <2>2. \A x \in ToSet(page) : x \in S /\ t <= RankOf(x, S) /\ RankOf(x, S) < t + n
    BY <1>5, <1>8, <2>1 DEF ToSet, k
  <2>3. ASSUME NEW x \in S, t <= RankOf(x, S), RankOf(x, S) < t + n
        PROVE  x \in ToSet(page)
    <3>1. RankOf(x, S) \in 0 .. c - 1
      BY RankLaws DEF c
    <3>2. RankOf(x, S) - t + 1 \in 1 .. k
      BY <1>1, <1>4, <2>3, <3>1 DEF k
    <3>3. PICK i \in 1 .. k : i = RankOf(x, S) - t + 1
      BY <3>2
    <3>4. page[i] \in S /\ RankOf(page[i], S) = RankOf(x, S)
      BY <1>8, <3>1, <3>3
    <3>5. page[i] = x
      BY <3>4, RankLaws
    <3>6. QED  BY <2>1, <3>5 DEF ToSet
  <2>4. QED  BY <2>2, <2>3
<1>10. \A i, j \in DOMAIN page : i < j => Before(page[i], page[j])
  <2>1. TAKE i, j \in DOMAIN page
  <2>2. HAVE i < j
  <2>3. i \in 1 .. k /\ j \in 1 .. k
    BY <1>7
  <2>4. RankOf(page[i], S) < RankOf(page[j], S) /\ page[i] \in S /\ page[j] \in S
    BY <1>5, <1>8, <2>2, <2>3
  <2>5. QED  BY <2>4, RankLaws
<1>11. page \in Seq(Rows)
  BY <1>7, SeqMonotonic
<1>12. QED  BY <1>4, <1>7, <1>9, <1>10, <1>11 DEF s, c, rest, page, k

\* The same of the first n rows.
LEMMA FirstByRank ==
  ASSUME Sorted, NEW S \in SUBSET Rows, NEW n \in Nat
  PROVE  /\ Upto(InOrder(S), n) = Slice(S, 0, n)
         /\ Len(Slice(S, 0, n)) = IF n < Cardinality(S) THEN n ELSE Cardinality(S)
         /\ \A x : x \in ToSet(Slice(S, 0, n)) <=> x \in S /\ RankOf(x, S) < n
<1>1. /\ InOrder(S) \in Seq(S) /\ Len(InOrder(S)) = Cardinality(S)
      /\ Cardinality(S) \in Nat
  BY OrderedByRank, RankLaws
<1>2. Rest(S, 0) = InOrder(S)
  BY <1>1, SubSeqFull DEF After, Rest
<1>3. \A x \in S : 0 <= RankOf(x, S) /\ RankOf(x, S) \in Int
  BY RankLaws
<1>4. Len(Slice(S, 0, n)) = IF n < Len(Rest(S, 0)) THEN n ELSE Len(Rest(S, 0))
  <2>1. 0 \in Nat
    OBVIOUS
  <2>2. QED  BY <2>1, SliceByRank, Zenon
<1>5. \A x : x \in ToSet(Slice(S, 0, n)) <=> x \in S /\ RankOf(x, S) < n
  <2>1. 0 \in Nat /\ 0 + n = n
    OBVIOUS
  <2>2. \A x : x \in ToSet(Slice(S, 0, n)) <=>
                 x \in S /\ 0 <= RankOf(x, S) /\ RankOf(x, S) < 0 + n
    BY <2>1, SliceByRank, Zenon
  <2>3. QED  BY <1>3, <2>1, <2>2
<1>6. QED  BY <1>1, <1>2, <1>4, <1>5 DEF Slice

LEMMA SameOrder ==
  ASSUME NEW S
  PROVE  /\ list = "audit" => NewestFirst(S) = InOrder(S)
         /\ list = "queue" => LastCreatedFirst(S) = InOrder(S)
         /\ list = "catalog" => InKeyOrder(S) = InOrder(S)
<1> DEFINE n == Cardinality(S)
           rank(x) == Cardinality({y \in S : Before(y, x)})
<1>1. InOrder(S) = [i \in 1 .. n |-> CHOOSE x \in S : rank(x) = i - 1]
  BY DEF InOrder, Ordered, Rank
<1>2. ASSUME list = "audit" PROVE NewestFirst(S) = InOrder(S)
  <2> DEFINE other(x) == Cardinality({y \in S : Newer(y, x)})
  <2>1. NewestFirst(S) = [i \in 1 .. n |-> CHOOSE x \in S : other(x) = i - 1]
    BY DEF NewestFirst, Ordered, Rank
  <2>2. \A x \in S : {y \in S : Newer(y, x)} = {y \in S : Before(y, x)}
    <3>1. \A x, y \in S : (Newer(y, x)) = Before(y, x)
      BY <1>2 DEF Before
    <3>2. QED  BY <3>1, Zenon
  <2>3. \A x \in S : other(x) = rank(x)
    BY <2>2, Zenon
  <2> HIDE DEF other, rank, n
  <2>4. \A i : (CHOOSE x \in S : other(x) = i - 1) = (CHOOSE x \in S : rank(x) = i - 1)
    BY <2>3, Zenon
  <2>5. QED  BY <1>1, <2>1, <2>4, Zenon
<1>3. ASSUME list = "queue" PROVE LastCreatedFirst(S) = InOrder(S)
  <2> DEFINE other(x) == Cardinality({y \in S : y > x})
  <2>1. LastCreatedFirst(S) = [i \in 1 .. n |-> CHOOSE x \in S : other(x) = i - 1]
    BY DEF LastCreatedFirst, Ordered, Rank
  <2>2. \A x \in S : {y \in S : y > x} = {y \in S : Before(y, x)}
    <3>1. \A x, y \in S : (y > x) = Before(y, x)
      BY <1>3 DEF Before
    <3>2. QED  BY <3>1, Zenon
  <2>3. \A x \in S : other(x) = rank(x)
    BY <2>2, Zenon
  <2> HIDE DEF other, rank, n
  <2>4. \A i : (CHOOSE x \in S : other(x) = i - 1) = (CHOOSE x \in S : rank(x) = i - 1)
    BY <2>3, Zenon
  <2>5. QED  BY <1>1, <2>1, <2>4, Zenon
<1>4. ASSUME list = "catalog" PROVE InKeyOrder(S) = InOrder(S)
  <2> DEFINE other(x) == Cardinality({y \in S : y < x})
  <2>1. InKeyOrder(S) = [i \in 1 .. n |-> CHOOSE x \in S : other(x) = i - 1]
    BY DEF InKeyOrder, Ordered, Rank
  <2>2. \A x \in S : {y \in S : y < x} = {y \in S : Before(y, x)}
    <3>1. \A x, y \in S : (y < x) = Before(y, x)
      BY <1>4 DEF Before
    <3>2. QED  BY <3>1, Zenon
  <2>3. \A x \in S : other(x) = rank(x)
    BY <2>2, Zenon
  <2> HIDE DEF other, rank, n
  <2>4. \A i : (CHOOSE x \in S : other(x) = i - 1) = (CHOOSE x \in S : rank(x) = i - 1)
    BY <2>3, Zenon
  <2>5. QED  BY <1>1, <2>1, <2>4, Zenon
<1>5. QED  BY <1>2, <1>3, <1>4

-----------------------------------------------------------------------------
(* What one page shows.                                                    *)

\* A page cut by an offset out of S, of which W is shown.
OffsetAnswer(S, W, token, page) ==
  /\ page.items \in Seq(Rows)
  /\ \A i, j \in DOMAIN page.items :
       i < j => Before(page.items[i], page.items[j])
  /\ \A x : x \in ToSet(page.items) <=>
              x \in W /\ token <= RankOf(x, S) /\ RankOf(x, S) < token + Limit
  /\ \/ page.next = 0 /\ Cardinality(S) <= token + Limit
     \/ page.next = token + Limit /\ page.next <= Cardinality(S)

\* A page of the rows S after the row token, of which W is shown.
KeyAnswer(S, W, token, page) ==
  /\ page.items \in Seq(Rows)
  /\ \A i, j \in DOMAIN page.items :
       i < j => Before(page.items[i], page.items[j])
  /\ page.next \in S \cup {0}
  /\ page.next # 0 => token = 0 \/ Before(token, page.next)
  /\ \A x : x \in ToSet(page.items) <=>
              /\ x \in W
              /\ token = 0 \/ Before(token, x)
              /\ page.next = 0 \/ x = page.next \/ Before(x, page.next)

LEMMA InOrderIsOrdered ==
  ASSUME Sorted, NEW S \in SUBSET Rows
  PROVE  /\ InOrder(S) \in Seq(Rows)
         /\ \A i, j \in DOMAIN InOrder(S) :
              i < j => Before(InOrder(S)[i], InOrder(S)[j])
<1>1. InOrder(S) \in Seq(S) /\ Len(InOrder(S)) = Cardinality(S)
  BY OrderedByRank
<1>2. DOMAIN InOrder(S) = 1 .. Cardinality(S)
  BY <1>1
<1>3. InOrder(S) \in Seq(Rows)
  BY <1>1, SeqMonotonic
<1>4. QED  BY <1>2, <1>3, InOrderHasAll

\* Postgres asks for one row more than a page has.
LEMMA AuditOffset ==
  ASSUME Sorted, list = "audit", adapter = "postgres", NEW q, NEW token \in Nat
  PROVE  OffsetAnswer(AuditListed(q), AuditListed(q), token, AuditPage(q, token))
<1> DEFINE S == AuditListed(q)
           page == AuditPage(q, token)
<1>1. S \in SUBSET Rows
  BY DEF AuditListed, Recorded, Rows
<1>2. /\ page.items = Slice(S, token, Limit)
      /\ page.next = IF Len(Rest(S, token)) > Limit THEN token + Limit ELSE 0
  BY SameOrder DEF AuditPage, OffsetPage, AuditListed, Slice, Rest
<1>3. Limit \in Nat \ {0} /\ Cardinality(S) \in Nat
  BY <1>1, LimitAssumption, RankLaws
<1> HIDE DEF S, page
<1>4. /\ Len(Rest(S, token)) = IF token < Cardinality(S) THEN Cardinality(S) - token
                                                        ELSE 0
      /\ Slice(S, token, Limit) \in Seq(Rows)
      /\ \A i, j \in DOMAIN Slice(S, token, Limit) :
           i < j => Before(Slice(S, token, Limit)[i], Slice(S, token, Limit)[j])
      /\ \A x : x \in ToSet(Slice(S, token, Limit)) <=>
                  x \in S /\ token <= RankOf(x, S) /\ RankOf(x, S) < token + Limit
  BY <1>1, <1>3, SliceByRank, Zenon
<1>5. \/ page.next = 0 /\ Cardinality(S) <= token + Limit
      \/ page.next = token + Limit /\ page.next <= Cardinality(S)
  BY <1>2, <1>3, <1>4
<1>6. QED  BY <1>2, <1>4, <1>5, Zenon DEF OffsetAnswer, S, page

\* The review queue counts the rows of the list it read.
LEMMA QueueOffset ==
  ASSUME Sorted, list = "queue", NEW S \in SUBSET Submissions, NEW token \in Nat
  PROVE  OffsetAnswer(S, S, token, QueuePage(S, token))
<1> DEFINE page == QueuePage(S, token)
<1>1. S \in SUBSET Rows
  BY DEF Rows
<1>2. /\ page.items = Slice(S, token, Limit)
      /\ page.next = IF token + Len(Slice(S, token, Limit)) < Cardinality(S)
                       THEN token + Len(Slice(S, token, Limit)) ELSE 0
  BY SameOrder DEF QueuePage, Slice, Rest
<1>3. /\ Limit \in Nat \ {0} /\ Cardinality(S) \in Nat
      /\ Len(InOrder(S)) = Cardinality(S)
  BY <1>1, LimitAssumption, RankLaws, OrderedByRank
<1> HIDE DEF page
<1>4. /\ Len(Rest(S, token)) = IF token < Cardinality(S) THEN Cardinality(S) - token
                                                        ELSE 0
      /\ Slice(S, token, Limit) \in Seq(Rows)
      /\ Len(Slice(S, token, Limit)) = IF Limit < Len(Rest(S, token))
                                         THEN Limit ELSE Len(Rest(S, token))
      /\ \A i, j \in DOMAIN Slice(S, token, Limit) :
           i < j => Before(Slice(S, token, Limit)[i], Slice(S, token, Limit)[j])
      /\ \A x : x \in ToSet(Slice(S, token, Limit)) <=>
                  x \in S /\ token <= RankOf(x, S) /\ RankOf(x, S) < token + Limit
  BY <1>1, <1>3, SliceByRank, Zenon
<1>5. \/ page.next = 0 /\ Cardinality(S) <= token + Limit
      \/ page.next = token + Limit /\ page.next <= Cardinality(S)
  BY <1>2, <1>3, <1>4
<1>6. QED  BY <1>2, <1>4, <1>5, Zenon DEF OffsetAnswer, page

\* The catalog of Postgres filters the rows of a page, and counts them before.
LEMMA CatalogOffset ==
  ASSUME Sorted, list = "catalog", adapter = "postgres", NEW q \in SUBSET CatalogKits,
         NEW token \in Nat
  PROVE  OffsetAnswer(CatalogListed(CatalogKits), CatalogListed(q), token,
                      CatalogPage(q, token))
<1> DEFINE S == CatalogListed(CatalogKits)
           page == CatalogPage(q, token)
           shown == ToSet(Slice(S, token, Limit)) \cap q
<1>1. /\ S \in SUBSET Rows /\ CatalogListed(q) = S \cap q
      /\ S = {k \in CatalogKits : Public(k)}
  BY DEF CatalogListed, Rows
<1>2. /\ page.items = InOrder(shown)
      /\ page.next = IF Len(Slice(S, token, Limit)) = Limit
                       THEN token + Len(Slice(S, token, Limit)) ELSE 0
  BY <1>1, SameOrder DEF CatalogPage, ShelfOffsetPage, Slice, Rest
<1>3. Limit \in Nat \ {0} /\ Cardinality(S) \in Nat
  BY <1>1, LimitAssumption, RankLaws
<1> HIDE DEF S, page, shown
<1>4. /\ Len(Rest(S, token)) = IF token < Cardinality(S) THEN Cardinality(S) - token
                                                        ELSE 0
      /\ Len(Slice(S, token, Limit)) = IF Limit < Len(Rest(S, token))
                                         THEN Limit ELSE Len(Rest(S, token))
      /\ \A x : x \in ToSet(Slice(S, token, Limit)) <=>
                  x \in S /\ token <= RankOf(x, S) /\ RankOf(x, S) < token + Limit
  BY <1>1, <1>3, SliceByRank, Zenon
<1>5. \/ page.next = 0 /\ Cardinality(S) <= token + Limit
      \/ page.next = token + Limit /\ page.next <= Cardinality(S)
  BY <1>2, <1>3, <1>4
<1>6. shown \in SUBSET Rows
  BY <1>1, <1>4 DEF shown
<1>7. /\ InOrder(shown) \in Seq(Rows) /\ ToSet(InOrder(shown)) = shown
      /\ \A i, j \in DOMAIN InOrder(shown) :
           i < j => Before(InOrder(shown)[i], InOrder(shown)[j])
  BY <1>6, InOrderIsOrdered, InOrderHasAll, Zenon
<1>8. \A x : x \in ToSet(page.items) <=>
               /\ x \in CatalogListed(q)
               /\ token <= RankOf(x, S) /\ RankOf(x, S) < token + Limit
  BY <1>1, <1>2, <1>4, <1>7 DEF shown
<1>9. QED  BY <1>2, <1>5, <1>7, <1>8, Zenon DEF OffsetAnswer, S, page

\* DynamoDB: Limit rows after a key, of which those in W are shown.
LEMMA KeyPages ==
  ASSUME Sorted, NEW S \in SUBSET Rows, NEW W \in SUBSET S, NEW token, NEW page,
         NEW R, R = {x \in S : token = 0 \/ Before(token, x)},
         page.items = InOrder({x \in ToSet(Upto(InOrder(R), Limit)) : x \in W}),
         page.next = IF Len(InOrder(R)) >= Limit THEN InOrder(R)[Limit] ELSE 0
  PROVE  KeyAnswer(S, W, token, page)
<1> DEFINE shown == {x \in ToSet(Upto(InOrder(R), Limit)) : x \in W}
<1>1. /\ R \in SUBSET Rows /\ Limit \in Nat \ {0} /\ Cardinality(R) \in Nat
      /\ 0 \notin Rows
  BY LimitAssumption, RankLaws, RowsAreFinite
<1>2. \A x : x \in ToSet(Upto(InOrder(R), Limit)) <=> x \in R /\ RankOf(x, R) < Limit
  <2>1. Upto(InOrder(R), Limit) = Slice(R, 0, Limit)
    BY <1>1, FirstByRank
  <2>2. \A x : x \in ToSet(Slice(R, 0, Limit)) <=> x \in R /\ RankOf(x, R) < Limit
    BY <1>1, FirstByRank, Zenon
  <2>3. QED  BY <2>1, <2>2
<1>3. shown \in SUBSET Rows
  BY <1>1, <1>2
<1>4. /\ page.items \in Seq(Rows) /\ ToSet(page.items) = shown
      /\ \A i, j \in DOMAIN page.items :
           i < j => Before(page.items[i], page.items[j])
  BY <1>3, InOrderIsOrdered, InOrderHasAll, Zenon
<1>5. Len(InOrder(R)) = Cardinality(R)
  BY <1>1, OrderedByRank
<1>6. CASE Cardinality(R) >= Limit
  <2>1. Limit \in 1 .. Cardinality(R) /\ page.next = InOrder(R)[Limit]
    BY <1>1, <1>5, <1>6
  <2>2. page.next \in R /\ RankOf(page.next, R) = Limit - 1
    BY <1>1, <2>1, OrderedByRank, ElementOfSeq
  <2>3. \A x \in R : RankOf(x, R) < Limit <=> x = page.next \/ Before(x, page.next)
    <3>1. \A x \in R : RankOf(x, R) \in Int
      BY <1>1, RankLaws
    <3>2. \A x \in R : /\ Before(x, page.next) <=> RankOf(x, R) < Limit - 1
                       /\ RankOf(x, R) = Limit - 1 => x = page.next
      BY <1>1, <2>2, RankLaws
    <3>3. QED  BY <1>1, <2>2, <3>1, <3>2
  <2>4. page.next \in S /\ page.next # 0 /\ (token = 0 \/ Before(token, page.next))
    BY <1>1, <2>2
  <2>5. QED  BY <1>2, <1>4, <2>3, <2>4 DEF KeyAnswer
<1>7. CASE Cardinality(R) < Limit
  <2>1. page.next = 0
    BY <1>1, <1>5, <1>7
  <2>2. \A x \in R : RankOf(x, R) < Limit
    BY <1>1, <1>7, RankLaws
  <2>3. QED  BY <1>2, <1>4, <2>1, <2>2 DEF KeyAnswer
<1>8. QED  BY <1>1, <1>6, <1>7

\* The rows of an audit page that DynamoDB shows, among those of the index.
IndexRows(q) == {e \in Recorded : InIndex(e, q)}
Passing(q) == {e \in IndexRows(q) : PassesFilter(e, q)}

LEMMA AuditKey ==
  ASSUME Sorted, list = "audit", adapter # "postgres", NEW q, NEW token
  PROVE  KeyAnswer(IndexRows(q), Passing(q), token, AuditPage(q, token))
<1> DEFINE S == IndexRows(q)
           W == Passing(q)
           R == {x \in S : token = 0 \/ Before(token, x)}
           page == AuditPage(q, token)
<1>1. S \in SUBSET Rows /\ W \in SUBSET S
  BY DEF IndexRows, Passing, Recorded, Rows
<1>2. R = {e \in Recorded : InIndex(e, q) /\ (token = 0 \/ Newer(token, e))}
  BY DEF Before, IndexRows
<1>3. /\ page.items = InOrder({e \in ToSet(Upto(InOrder(R), Limit)) : PassesFilter(e, q)})
      /\ page.next = IF Len(InOrder(R)) >= Limit THEN InOrder(R)[Limit] ELSE 0
  BY <1>2, SameOrder DEF AuditPage, KeyPage
<1>4. ToSet(Upto(InOrder(R), Limit)) \subseteq R
  <2>1. R \in SUBSET Rows /\ Limit \in Nat
    BY <1>1, LimitAssumption
  <2> HIDE DEF R
  <2>2. QED  BY <2>1, FirstByRank
<1>5. {e \in ToSet(Upto(InOrder(R), Limit)) : PassesFilter(e, q)}
        = {e \in ToSet(Upto(InOrder(R), Limit)) : e \in W}
  BY <1>4 DEF Passing
<1> HIDE DEF S, W, page
<1>6. QED
  <2> HIDE DEF R
  <2>1. R = {x \in S : token = 0 \/ Before(token, x)}
    BY DEF R
  <2>2. KeyAnswer(S, W, token, page)
    BY <1>1, <1>3, <1>5, <2>1, KeyPages
  <2>3. QED  BY <2>2 DEF S, W, page

LEMMA CatalogKey ==
  ASSUME Sorted, list = "catalog", adapter # "postgres", NEW q \in SUBSET CatalogKits,
         NEW token \in Nat
  PROVE  KeyAnswer({k \in CatalogKits : InTable(k)}, CatalogListed(q), token,
                   CatalogPage(q, token))
<1> DEFINE S == {k \in CatalogKits : InTable(k)}
           W == CatalogListed(q)
           R == {x \in S : token = 0 \/ Before(token, x)}
           page == CatalogPage(q, token)
<1>1. S \in SUBSET Rows /\ W \in SUBSET S
  BY DEF CatalogListed, Rows, Public, InTable
<1>2. R = {k \in CatalogKits : InTable(k) /\ k > token}
  <2>1. \A k \in CatalogKits : k > token <=> token = 0 \/ Before(token, k)
    BY CatalogAssumption DEF CatalogKits, Before
  <2>2. QED  BY <2>1
<1>3. /\ page.items =
           InOrder({k \in ToSet(Upto(InOrder(R), Limit)) : Public(k) /\ k \in q})
      /\ page.next = IF Len(InOrder(R)) >= Limit THEN InOrder(R)[Limit] ELSE 0
  BY <1>2, SameOrder DEF CatalogPage, ShelfKeyPage
<1>4. {k \in ToSet(Upto(InOrder(R), Limit)) : Public(k) /\ k \in q}
        = {k \in ToSet(Upto(InOrder(R), Limit)) : k \in W}
  BY DEF CatalogListed
<1> HIDE DEF S, W, page
<1>5. QED
  <2> HIDE DEF R
  <2>1. R = {x \in S : token = 0 \/ Before(token, x)}
    BY DEF R
  <2>2. KeyAnswer(S, W, token, page)
    BY <1>1, <1>3, <1>4, <2>1, KeyPages
  <2>3. QED  BY <2>2 DEF S, W, page

-----------------------------------------------------------------------------
(* What a walk has shown.                                                  *)

\* A client that walks asks one of the queries of the list, and one that does
\* not has nothing.
Asked ==
  /\ walk.pc # "idle" => walk.query \in Queries
  /\ walk.pc = "idle" => walk.token = 0 /\ walk.seen = <<>>
  /\ walk.pc = "walking" => watch.still \subseteq Listed

\* The pairs of rows of which the first comes first.
Order == {p \in Rows \X Rows : Before(p[1], p[2])}

\* By keys: what was shown is in order, none of it after the token, and nothing
\* the client looks for was left out up to the token.
KeyWalk ==
  ~ByOffset =>
    /\ \A i, j \in DOMAIN walk.seen : i < j => <<walk.seen[i], walk.seen[j]>> \in Order
    /\ list = "audit" => Seen \subseteq Recorded /\ walk.token \in Recorded \cup {0}
    /\ walk.pc = "walking" /\ walk.token = 0 => walk.seen = <<>>
    /\ walk.pc = "walking" =>
         \A x \in Seen : x = walk.token \/ <<x, walk.token>> \in Order
    /\ walk.pc = "walking" /\ walk.token # 0 =>
         \A x \in watch.still :
           x = walk.token \/ <<x, walk.token>> \in Order => x \in Seen
    /\ walk.pc = "ended" => watch.still \subseteq Seen

\* By offsets: when no row entered, what was shown and is still there has a rank
\* below the token; when none left, what the client looks for below the token
\* was shown.
OffsetWalk ==
  ByOffset /\ ~watch.cut =>
    /\ ~watch.entered =>
         /\ \A i, j \in DOMAIN walk.seen : walk.seen[i] = walk.seen[j] => i = j
         /\ walk.pc = "walking" =>
              \A x \in Seen \cap Paged : RankOf(x, Paged) < walk.token
    /\ ~watch.left =>
         /\ walk.pc = "walking" =>
              \A x \in watch.still : RankOf(x, Paged) < walk.token => x \in Seen
         /\ walk.pc = "ended" => watch.still \subseteq Seen

LEMMA SortedTables ==
  ASSUME TypeOK
  PROVE  /\ Sorted
         /\ walk.token \in Nat /\ walk.seen \in Seq(Rows)
         /\ walk.pc \in {"idle", "walking", "ended"}
         /\ watch.left \in BOOLEAN /\ watch.entered \in BOOLEAN /\ watch.cut \in BOOLEAN
         /\ watch.still \in SUBSET Rows
<1>1. Sorted
  BY ListsAssumption DEF TypeOK, AuditTypeOK, Sorted
<1>2. QED  BY <1>1, RowsAreFinite DEF TypeOK, WalkState, WatchState

LEMMA ListedRows ==
  /\ Paged \subseteq Rows
  /\ walk.query \in Queries => Listed \subseteq Paged
<1>1. CASE list = "audit"
  BY <1>1 DEF Listed, Paged, Rows, AuditListed, Recorded
<1>2. CASE list = "queue"
  BY <1>2 DEF Listed, Paged, Rows, QueueListed, Filtered, Stored, Items
<1>3. CASE list = "catalog"
  BY <1>3, CatalogAssumption DEF Listed, Paged, Rows, CatalogListed, Queries
<1>4. CASE list \notin {"audit", "queue", "catalog"}
  BY <1>4 DEF Listed, Paged, Rows
<1>5. QED  BY <1>1, <1>2, <1>3, <1>4

\* What the next page of a walk by keys has.
LEMMA KeyTurn ==
  ASSUME TypeOK, Asked, ReadPage, ~ByOffset
  PROVE  \E S \in SUBSET Rows : \E page :
           /\ \E W \in SUBSET S :
                Listed \subseteq W /\ KeyAnswer(S, W, walk.token, page)
           /\ list = "audit" => S \subseteq Recorded
           /\ Turn(page)
<1> DEFINE q == walk.query
<1>1. Sorted /\ walk.token \in Nat
  BY SortedTables
<1>2. CASE list = "audit"
  <2>1. Turn(AuditPage(q, walk.token))
    BY <1>2 DEF ReadPage, Pages
  <2>2. KeyAnswer(IndexRows(q), Passing(q), walk.token, AuditPage(q, walk.token))
    BY <1>1, <1>2, AuditKey DEF ByOffset
  <2>3. /\ IndexRows(q) \subseteq Recorded /\ Passing(q) \subseteq IndexRows(q)
        /\ Recorded \subseteq Rows
    BY <1>2 DEF IndexRows, Passing, Recorded, Rows
  <2>4. Listed = AuditListed(q)
    BY <1>2 DEF Listed
  <2>5. \A e \in AuditListed(q) : e \in Passing(q)
    BY DEF AuditListed, Passing, IndexRows, Matches, InIndex, PassesFilter, Fields
  <2>6. QED  BY <2>1, <2>2, <2>3, <2>4, <2>5
<1>3. CASE list = "catalog"
  <2> DEFINE S == {k \in CatalogKits : InTable(k)}
  <2>1. Turn(CatalogPage(q, walk.token))
    BY <1>3 DEF ReadPage, Pages
  <2>2. q \in SUBSET CatalogKits
    BY <1>3, CatalogAssumption DEF Asked, ReadPage, Queries
  <2>3. KeyAnswer(S, CatalogListed(q), walk.token, CatalogPage(q, walk.token))
    BY <1>1, <1>3, <2>2, CatalogKey DEF ByOffset
  <2>4. S \subseteq Rows /\ CatalogListed(q) \subseteq S /\ Listed = CatalogListed(q)
    BY <1>3, <2>2 DEF Rows, Listed, CatalogListed, Public, InTable
  <2> HIDE DEF S, q
  <2>5. QED  BY <1>3, <2>1, <2>3, <2>4
<1>4. list \in {"audit", "queue", "catalog"}
  BY DEF ReadPage, Pages
<1>5. QED  BY <1>2, <1>3, <1>4 DEF ByOffset

\* One read returns the whole table when it is small enough.
LEMMA WholeTable ==
  ASSUME TypeOK, list = "queue", ~Cut, NEW rows \in Scans
  PROVE  rows = Items
<1>1. Items \in SUBSET Rows /\ IsFiniteSet(Items) /\ Cardinality(Items) \in Nat
  <2>1. Items \in SUBSET Rows
    BY DEF Items, Rows
  <2>2. QED  BY <2>1, SortedTables, RankLaws
<1>2. Cardinality(Items) <= ScanLimit
  BY <1>1, QueueBoundsAssumption DEF Cut
<1>3. rows \in SUBSET Items /\ Cardinality(rows) = Cardinality(Items)
  BY <1>1, <1>2, QueueBoundsAssumption DEF Scans, kSubset
<1>4. QED  BY <1>1, <1>3, FS_Subset

\* What the next page of a walk by offsets has.
LEMMA OffsetTurn ==
  ASSUME TypeOK, Asked, ReadPage, ByOffset
  PROVE  \E S \in SUBSET Rows : \E page :
           /\ \E W \in SUBSET S :
                /\ OffsetAnswer(S, W, walk.token, page)
                /\ ~Cut => S = Paged /\ W = Listed
           /\ Turn(page)
<1> DEFINE q == walk.query
<1>1. Sorted /\ walk.token \in Nat
  BY SortedTables
<1>2. CASE list = "audit"
  <2>1. Turn(AuditPage(q, walk.token))
    BY <1>2 DEF ReadPage, Pages
  <2>2. OffsetAnswer(AuditListed(q), AuditListed(q), walk.token,
                     AuditPage(q, walk.token))
    BY <1>1, <1>2, AuditOffset DEF ByOffset
  <2>3. Listed = AuditListed(q) /\ Paged = AuditListed(q)
    BY <1>2 DEF Listed, Paged
  <2>4. QED  BY <2>1, <2>2, <2>3, ListedRows
<1>3. CASE list = "catalog"
  <2>1. Turn(CatalogPage(q, walk.token))
    BY <1>3 DEF ReadPage, Pages
  <2>2. q \in SUBSET CatalogKits
    BY <1>3, CatalogAssumption DEF Asked, ReadPage, Queries
  <2>3. OffsetAnswer(CatalogListed(CatalogKits), CatalogListed(q), walk.token,
                     CatalogPage(q, walk.token))
    BY <1>1, <1>3, <2>2, CatalogOffset DEF ByOffset
  <2>4. Listed = CatalogListed(q) /\ Paged = CatalogListed(CatalogKits)
    BY <1>3 DEF Listed, Paged
  <2>5. Paged \in SUBSET Rows /\ Listed \in SUBSET Paged
    BY ListedRows DEF Asked, ReadPage
  <2> HIDE DEF q
  <2>6. QED  BY <2>1, <2>3, <2>4, <2>5
<1>4. CASE list = "queue"
  <2>1. PICK rows \in Scans : Turn(QueuePage(Filtered(rows, q), walk.token))
    BY <1>4 DEF ReadPage, Pages, Reads
  <2> DEFINE S == Filtered(rows, q)
  <2>2. S \subseteq Submissions /\ S \subseteq Rows
    BY <1>4 DEF Filtered, Stored, Items, Rows
  <2>3. ~Cut => S = QueueListed(q)
    <3>1. ~Cut => rows = Items
      BY <1>4, <2>1, WholeTable
    <3>2. Filtered(Items, q) = Filtered(Stored, q)
      BY DEF Filtered, Stored
    <3>3. QED  BY <3>1, <3>2 DEF QueueListed
  <2>4. ~Cut => S = Paged /\ S = Listed
    BY <1>4, <2>3 DEF Paged, Listed
  <2> HIDE DEF S, q
  <2>5. OffsetAnswer(S, S, walk.token, QueuePage(S, walk.token))
    BY <1>1, <1>4, <2>2, QueueOffset
  <2>6. QED  BY <2>1, <2>2, <2>4, <2>5 DEF S
<1>5. list \in {"audit", "queue", "catalog"}
  BY DEF ReadPage, Pages
<1>6. QED  BY <1>2, <1>3, <1>4, <1>5

\* Whole seconds: a time has as many as fit into it.
LEMMA WholeSeconds ==
  ASSUME NEW ticks \in Nat, NEW second \in Nat \ {0}
  PROVE  /\ ticks \div second \in Nat /\ ticks \div second <= ticks
         /\ \A e \in Nat : ticks \div second >= e => ticks >= e * second
OBVIOUS

-----------------------------------------------------------------------------
(* Types.                                                                  *)

LEMMA SetUp ==
  ASSUME [Next]_vars
  PROVE  list' = list /\ adapter' = adapter /\ Rows' = Rows /\ Queries' = Queries
<1>1. list' = list /\ adapter' = adapter
  BY DEF Next, vars, AuditTurn, QueueTurn, CatalogTurn, FavoritesTurn, TableStep,
         TimePasses, Tick, ClientBegins, ReadPage, ClientForgets, deploymentVars
<1>2. QED  BY <1>1 DEF Rows, Queries

LEMMA PageTyped ==
  ASSUME TypeOK, NEW S \in SUBSET Rows, NEW W, NEW page,
         \/ KeyAnswer(S, W, walk.token, page)
         \/ OffsetAnswer(S, W, walk.token, page)
  PROVE  page.items \in Seq(Rows) /\ page.next \in Rows \cup {0}
<1>1. CASE KeyAnswer(S, W, walk.token, page)
  BY <1>1 DEF KeyAnswer
<1>2. CASE OffsetAnswer(S, W, walk.token, page)
  <2>1. page.items \in Seq(Rows) /\ walk.token \in Nat /\ Limit \in Nat \ {0}
    BY <1>2, SortedTables, LimitAssumption DEF OffsetAnswer
  <2>2. /\ IsFiniteSet(Rows) /\ Cardinality(S) <= Cardinality(Rows)
        /\ Cardinality(S) \in Nat /\ Cardinality(Rows) \in Nat
    BY SortedTables, RowsAreFinite, RankLaws, FS_Subset, FS_CardinalityType
  <2>3. Rows = 1 .. Cardinality(Rows)
    <3>1. \A n \in Nat : Cardinality(1 .. n) = n
      BY FS_Interval
    <3>2. Rows = {} \/ \E n \in Nat : Rows = 1 .. n
      BY MaxEventsAssumption, QueueBoundsAssumption, CatalogAssumption
      DEF Rows, Events, Submissions, CatalogKits
    <3>3. Cardinality({}) = 0 /\ 1 .. 0 = {}
      BY FS_EmptySet
    <3>4. QED  BY <3>1, <3>2, <3>3
  <2>4. page.next = 0 \/ page.next \in 1 .. Cardinality(Rows)
    BY <1>2, <2>1, <2>2 DEF OffsetAnswer
  <2>5. QED  BY <2>1, <2>3, <2>4
<1>3. QED  BY <1>1, <1>2

\* What a page adds to what was shown.
LEMMA SeenGrows ==
  ASSUME TypeOK, NEW page, page.items \in Seq(Rows), Turn(page)
  PROVE  /\ walk'.seen \in Seq(Rows)
         /\ walk'.seen = walk.seen \o page.items
         /\ walk'.token = page.next /\ walk'.query = walk.query
         /\ walk'.pc = IF page.next = 0 THEN "ended" ELSE "walking"
         /\ walk.pc = "walking"
         /\ Seen' = Seen \cup ToSet(page.items)
<1>1. /\ walk'.seen = walk.seen \o page.items
      /\ walk'.token = page.next /\ walk'.query = walk.query
      /\ walk'.pc = IF page.next = 0 THEN "ended" ELSE "walking"
      /\ walk.pc = "walking"
  BY DEF Turn, TypeOK, WalkState
<1>2. walk.seen \in Seq(Rows)
  BY SortedTables
<1>3. walk'.seen \in Seq(Rows)
  BY <1>1, <1>2, ConcatProperties
<1>4. Seen' = Seen \cup ToSet(page.items)
  <2> DEFINE a == walk.seen
             b == page.items
  <2>1. /\ Len(a \o b) = Len(a) + Len(b)
        /\ \A i \in 1 .. Len(a) + Len(b) :
             (a \o b)[i] = IF i <= Len(a) THEN a[i] ELSE b[i - Len(a)]
    BY <1>2, ConcatProperties
  <2>2. /\ Len(a) \in Nat /\ Len(b) \in Nat
        /\ DOMAIN a = 1 .. Len(a) /\ DOMAIN b = 1 .. Len(b)
        /\ DOMAIN (a \o b) = 1 .. Len(a \o b)
    BY <1>1, <1>2, <1>3, LenProperties
  <2> HIDE DEF a, b
  <2>3. \A x : x \in ToSet(a \o b) => x \in ToSet(a) \/ x \in ToSet(b)
    BY <2>1, <2>2 DEF ToSet
  <2>4. \A i \in 1 .. Len(a) : (a \o b)[i] = a[i] /\ i \in DOMAIN (a \o b)
    BY <2>1, <2>2
  <2>5. \A i \in 1 .. Len(b) :
          (a \o b)[Len(a) + i] = b[i] /\ Len(a) + i \in DOMAIN (a \o b)
    BY <2>1, <2>2
  <2>6. \A x : x \in ToSet(a) \/ x \in ToSet(b) => x \in ToSet(a \o b)
    BY <2>2, <2>4, <2>5 DEF ToSet
  <2>7. ToSet(a \o b) = ToSet(a) \cup ToSet(b)
    BY <2>3, <2>6
  <2>8. QED  BY <1>1, <2>7 DEF Seen, a, b
<1>5. QED  BY <1>1, <1>3, <1>4

\* The client's part of the type invariant.
LEMMA WalkTypes ==
  ASSUME TypeOK, Asked, Next
  PROVE  /\ walk' \in WalkState(Rows, Queries \cup {Unset})
         /\ walk'.pc # "idle" => walk'.query \in Queries
         /\ walk'.pc = "idle" => walk'.token = 0 /\ walk'.seen = <<>>
<1>1. walk \in WalkState(Rows, Queries \cup {Unset})
  BY DEF TypeOK
<1>2. CASE UNCHANGED walk
  BY <1>1, <1>2 DEF Asked
<1>3. CASE ClientBegins
  <2>1. PICK q \in Queries : BeginWalk(q)
    BY <1>3 DEF ClientBegins
  <2>2. <<>> \in Seq(Rows)
    BY EmptySeq
  <2>3. QED  BY <2>1, <2>2 DEF BeginWalk, WalkState
<1>4. CASE ReadPage
  <2>0. PICK S \in SUBSET Rows : \E page :
          /\ Turn(page)
          /\ \E W : \/ KeyAnswer(S, W, walk.token, page)
                    \/ OffsetAnswer(S, W, walk.token, page)
    BY <1>4, KeyTurn, OffsetTurn
  <2>1. PICK page :
          /\ Turn(page)
          /\ \E W : \/ KeyAnswer(S, W, walk.token, page)
                    \/ OffsetAnswer(S, W, walk.token, page)
    BY <2>0
  <2>2. page.items \in Seq(Rows) /\ page.next \in Rows \cup {0}
    BY <2>1, PageTyped
  <2>3. walk.query \in Queries /\ walk.pc = "walking"
    BY <2>1 DEF Asked, Turn
  <2>4. walk'.seen \in Seq(Rows) /\ walk'.pc \in {"walking", "ended"}
    BY <2>1, <2>2, SeenGrows
  <2>5. walk' = [walk EXCEPT !.seen = walk'.seen, !.token = page.next,
                             !.pc = walk'.pc]
    BY <1>1, <2>1 DEF Turn, WalkState
  <2>6. QED  BY <1>1, <2>2, <2>3, <2>4, <2>5 DEF WalkState
<1>5. CASE ClientForgets
  <2>1. <<>> \in Seq(Rows)
    BY EmptySeq
  <2>2. QED  BY <1>1, <1>5, <2>1 DEF ClientForgets, EndWalk, WalkState
<1>6. QED
  BY <1>2, <1>3, <1>4, <1>5
  DEF Next, AuditTurn, QueueTurn, CatalogTurn, FavoritesTurn, TableStep, TimePasses

LEMMA WatchTypes ==
  ASSUME TypeOK, Asked, Next
  PROVE  watch' \in WatchState(Rows)
<1>1. Watch
  BY DEF Next, AuditTurn, QueueTurn, CatalogTurn, FavoritesTurn, TableStep, TimePasses,
         ClientBegins, ReadPage, ClientForgets
<1>2. /\ walk'.pc \in {"idle", "walking", "ended"} /\ walk.pc \in {"idle", "walking", "ended"}
      /\ walk'.pc # "idle" => walk'.query \in Queries
  BY WalkTypes, SortedTables DEF WalkState
<1>3. Cut' \in BOOLEAN
  BY DEF Cut
<1>4. walk'.pc # "idle" => Listed' \subseteq Rows
  <2>1. walk'.pc # "idle" => walk'.query \in Queries'
    BY <1>2, SetUp
  <2>2. (/\ Paged \subseteq Rows
         /\ walk.query \in Queries => Listed \subseteq Paged)'
    BY ListedRows, PTL
  <2>3. QED  BY <2>1, <2>2, SetUp
<1> HIDE DEF Listed, Paged, Cut
<1>5. QED
  BY <1>1, <1>2, <1>3, <1>4 DEF Watch, Observe, TypeOK, WatchState, NothingWatched

LEMMA TableTypes ==
  ASSUME TypeOK, Next
  PROVE  AuditTypeOK' /\ QueueTypeOK' /\ CatalogTypeOK' /\ FavoritesTypeOK' /\ now' \in Times
<1>1. AuditTypeOK /\ QueueTypeOK /\ CatalogTypeOK /\ FavoritesTypeOK /\ now \in Times
  BY DEF TypeOK
<1>2. Times \subseteq Nat /\ now \in Nat /\ Times \subseteq 0 .. MaxTime /\ 0 \in 0 .. MaxTime
  BY <1>1, MaxTimeAssumption DEF Times
<1>3. CASE AuditTurn
  <2>1. events' \in [Events -> EventRow]
    BY <1>1, <1>2, <1>3 DEF AuditTurn, AuditStep, Stamp, Record, AuditTypeOK, EventRow, EventState
  <2>2. QED
    BY <1>1, <1>3, <2>1
    DEF AuditTurn, TableStep, AuditTypeOK, QueueTypeOK, CatalogTypeOK, FavoritesTypeOK,
        favoriteVars, deploymentVars
<1>4. CASE QueueTurn
  <2>1. /\ now \in 0 .. MaxTime /\ 0 \in 0 .. MaxTime + Ttl
        /\ (now + Ttl) \div Second \in 0 .. MaxTime + Ttl
    <3>1. now \in 1 .. MaxTime /\ now + Ttl \in Nat /\ now + Ttl <= MaxTime + Ttl
      BY <1>1, MaxTimeAssumption, QueueBoundsAssumption DEF Times
    <3>2. /\ (now + Ttl) \div Second \in Nat
          /\ (now + Ttl) \div Second <= now + Ttl
      BY <3>1, WholeSeconds, QueueBoundsAssumption
    <3>3. QED  BY <3>1, <3>2, MaxTimeAssumption, QueueBoundsAssumption
  <2>2. queue \in [Submissions -> QueueRow]
    BY <1>1 DEF QueueTypeOK
  <2>3. PICK s \in Submissions :
          \/ Create(s) \/ HandIn(s) \/ Finish(s)
          \/ Approve(s) \/ Reject(s) \/ Withdraw(s) \/ Sweep(s)
    BY <1>4 DEF QueueTurn, QueueStep
  <2>4. queue' \in [Submissions -> QueueRow]
    <3> USE <2>1, <2>2 DEF QueueRow
    <3>1. CASE Create(s)
      BY <3>1 DEF Create
    <3>2. CASE HandIn(s)
      BY <1>2, <3>2 DEF HandIn, Updated, NoSubmission
    <3>3. CASE Finish(s)
      BY <1>2, <3>3 DEF Finish, Updated, NoSubmission
    <3>4. CASE Approve(s)
      BY <3>4 DEF Approve
    <3>5. CASE Reject(s)
      BY <1>2, <3>5 DEF Reject, Updated, NoSubmission
    <3>6. CASE Withdraw(s)
      BY <3>6 DEF Withdraw
    <3>7. CASE Sweep(s)
      BY <1>2, <3>7 DEF Sweep, NoSubmission
    <3>8. QED  BY <2>3, <3>1, <3>2, <3>3, <3>4, <3>5, <3>6, <3>7
  <2>5. QED
    BY <1>1, <1>4, <2>4
    DEF QueueTurn, TableStep, AuditTypeOK, QueueTypeOK, CatalogTypeOK, FavoritesTypeOK,
        favoriteVars, deploymentVars
<1>5. CASE CatalogTurn
  <2>1. shelf \in [CatalogKits -> ShelfRow]
    BY <1>1 DEF CatalogTypeOK
  <2>2. \A k \in CatalogKits : SlugsOf[k] \subseteq Slugs
    BY CatalogAssumption
  <2>3. shelf' \in [CatalogKits -> ShelfRow]
    <3>1. PICK k \in CatalogKits :
            \/ \E slug \in SlugsOf[k] : PublishKit(k, slug)
            \/ TakeDown(k, "hidden") \/ TakeDown(k, "removed")
            \/ Unhide(k) \/ SetPrivate(k)
      BY <1>5 DEF CatalogTurn, CatalogStep
    <3>2. CASE \E slug \in SlugsOf[k] : PublishKit(k, slug)
      BY <2>1, <2>2, <3>2 DEF PublishKit, ShelfRow
    <3>3. CASE TakeDown(k, "hidden") \/ TakeDown(k, "removed")
      BY <2>1, <3>3 DEF TakeDown, ShelfRow
    <3>4. CASE Unhide(k) \/ SetPrivate(k)
      BY <2>1, <3>4 DEF Unhide, SetPrivate, ShelfRow
    <3>5. QED  BY <3>1, <3>2, <3>3, <3>4
  <2>4. QED
    BY <1>1, <1>5, <2>3
    DEF CatalogTurn, TableStep, AuditTypeOK, QueueTypeOK, CatalogTypeOK, FavoritesTypeOK,
        favoriteVars, deploymentVars
<1>6. CASE FavoritesTurn
  <2>1. FavoritesTypeOK'
    <3>1. /\ favorites \in [Kits -> Favorite]
          /\ edition \in [Kits -> Editions]
          /\ handler \in [Handlers -> HandlerState]
      BY <1>1 DEF FavoritesTypeOK
    <3>2. NoFavorite \in Favorite
      BY <1>2, FavoritesAssumption DEF NoFavorite, Favorite
    <3>3. Idle \in HandlerState
      BY <3>2, FavoritesAssumption DEF Idle, HandlerState
    <3>4. ASSUME NEW row \in Favorite, NEW ed \in 0 .. MaxEdition
          PROVE  Upserted(row, now, ed) \in Favorite
      BY <1>1, <1>2 DEF Upserted, Favorite
    <3>5. CASE \E h \in Handlers, k \in Kits : BeginAdd(h, k)
      <4>1. PICK h \in Handlers, k \in Kits : BeginAdd(h, k)
        BY <3>5
      <4>2. edition[k] \in 0 .. MaxEdition
        BY <3>1, FavoritesAssumption DEF Editions
      <4>3. [Idle EXCEPT !.pc = "add", !.kit = k, !.edition = edition[k]] \in HandlerState
        BY <3>3, <4>2 DEF HandlerState
      <4>4. QED  BY <3>1, <4>1, <4>3 DEF BeginAdd, FavoritesTypeOK
    <3>6. CASE \E h \in Handlers : InsertFavorite(h) \/ GetFavorite(h) \/ PutFavorite(h)
      <4>1. PICK h \in Handlers : InsertFavorite(h) \/ GetFavorite(h) \/ PutFavorite(h)
        BY <3>6
      <4>2. /\ handler[h].kit \in Kits /\ handler[h].edition \in 0 .. MaxEdition
            /\ handler[h].item \in Favorite /\ handler[h] \in HandlerState
        BY <3>1 DEF HandlerState
      <4>3. Upserted(favorites[handler[h].kit], now, handler[h].edition) \in Favorite
        BY <3>1, <3>4, <4>2
      <4> DEFINE put == [handler[h] EXCEPT
                           !.pc = "put",
                           !.item = Upserted(favorites[handler[h].kit], now,
                                             handler[h].edition)]
      <4>4. put \in HandlerState
        BY <4>2, <4>3 DEF HandlerState
      <4>5. handler' = [handler EXCEPT ![h] = put] \/ handler' = [handler EXCEPT ![h] = Idle]
        BY <4>1, <3>1 DEF InsertFavorite, GetFavorite, PutFavorite
      <4>6. handler' \in [Handlers -> HandlerState]
        BY <3>1, <3>3, <4>4, <4>5
      <4>7. favorites' \in [Kits -> Favorite]
        BY <3>1, <4>1, <4>2, <4>3 DEF InsertFavorite, GetFavorite, PutFavorite
      <4>8. QED
        BY <3>1, <4>1, <4>6, <4>7
        DEF InsertFavorite, GetFavorite, PutFavorite, FavoritesTypeOK
    <3>7. CASE \E k \in Kits : RemoveFavorite(k) \/ Refresh(k)
      <4>1. \A n \in Editions : n < MaxEdition => n + 1 \in Editions
        BY FavoritesAssumption DEF Editions
      <4>2. QED
        BY <3>1, <3>2, <3>7, <4>1 DEF RemoveFavorite, Refresh, FavoritesTypeOK
    <3>8. QED  BY <1>6, <3>5, <3>6, <3>7 DEF FavoritesTurn, FavoritesStep
  <2>2. QED
    BY <1>1, <1>6, <2>1
    DEF FavoritesTurn, TableStep, AuditTypeOK, QueueTypeOK, CatalogTypeOK, deploymentVars
<1>7. CASE UNCHANGED tables /\ now' \in Times
  BY <1>1, <1>7
  DEF tables, AuditTypeOK, QueueTypeOK, CatalogTypeOK, FavoritesTypeOK, favoriteVars
<1>8. CASE TimePasses
  <2>1. now' \in Times /\ UNCHANGED tables
    BY <1>1, <1>8, MaxTimeAssumption DEF TimePasses, Tick, Times
  <2>2. QED  BY <1>7, <2>1
<1>9. CASE ClientBegins \/ ReadPage \/ ClientForgets
  BY <1>1, <1>7, <1>9 DEF ClientBegins, ReadPage, ClientForgets, deploymentVars
<1>10. QED  BY <1>3, <1>4, <1>5, <1>6, <1>8, <1>9 DEF Next

Typed == TypeOK /\ Asked

LEMMA InitTyped ==
  Init => Typed
<1> SUFFICES ASSUME Init PROVE Typed
  OBVIOUS
<1> DEFINE q0 == IF Queries = {} THEN Unset ELSE CHOOSE q \in Queries : TRUE
<1>1. /\ adapter \in Adapters /\ now = 1
      /\ list \in {l \in ListNames : <<l, adapter>> \in Lists}
      /\ walk = [pc |-> "idle", query |-> q0, token |-> 0, seen |-> <<>>]
      /\ watch = NothingWatched
  BY DEF Init, DeploymentInit, PagingInit
<1>2. <<list, adapter>> \in Lists /\ now \in Times
  BY <1>1, MaxTimeAssumption DEF Times
<1>3. AuditTypeOK
  <2>1. 0 \in 0 .. MaxTime
    BY MaxTimeAssumption
  <2>2. QED  BY <2>1 DEF Init, AuditInit, AuditTypeOK, EventRow, EventState
<1>4. QueueTypeOK
  <2>1. 0 \in 0 .. MaxTime /\ 0 \in 0 .. MaxTime + Ttl
    BY MaxTimeAssumption, QueueBoundsAssumption
  <2>2. QED  BY <2>1 DEF Init, QueueInit, QueueTypeOK, QueueRow, NoSubmission
<1>5. CatalogTypeOK
  <2>1. \A k \in CatalogKits : (CHOOSE slug \in SlugsOf[k] : TRUE) \in Slugs
    BY CatalogAssumption
  <2>2. QED  BY <2>1 DEF Init, CatalogInit, CatalogTypeOK, ShelfRow
<1>6. FavoritesTypeOK
  <2>1. NoFavorite \in Favorite /\ 0 \in 0 .. MaxEdition /\ 1 \in Editions
    BY MaxTimeAssumption, FavoritesAssumption DEF NoFavorite, Favorite, Editions
  <2>2. Idle \in HandlerState
    BY <2>1, FavoritesAssumption DEF Idle, HandlerState
  <2>3. QED  BY <2>1, <2>2 DEF Init, FavoritesInit, FavoritesTypeOK
<1>7. walk \in WalkState(Rows, Queries \cup {Unset})
  <2>1. q0 \in Queries \cup {Unset}
    OBVIOUS
  <2> HIDE DEF q0
  <2>2. QED  BY <1>1, <2>1, EmptySeq DEF WalkState
<1>8. watch \in WatchState(Rows)
  BY <1>1 DEF NothingWatched, WatchState
<1>9. Asked
  BY <1>1 DEF Asked
<1>10. QED  BY <1>2, <1>3, <1>4, <1>5, <1>6, <1>7, <1>8, <1>9 DEF Typed, TypeOK

LEMMA TypedStep ==
  ASSUME Typed, [Next]_vars
  PROVE  Typed'
<1>1. CASE Next
  <2>1. list' = list /\ adapter' = adapter /\ Rows' = Rows /\ Queries' = Queries
    BY <1>1, SetUp
  <2>2. TypeOK'
    <3>1. walk' \in WalkState(Rows, Queries \cup {Unset}) /\ watch' \in WatchState(Rows)
      BY <1>1, WalkTypes, WatchTypes DEF Typed
    <3>2. /\ AuditTypeOK' /\ QueueTypeOK' /\ CatalogTypeOK' /\ FavoritesTypeOK'
          /\ now' \in Times
      BY <1>1, TableTypes DEF Typed
    <3>3. walk' \in WalkState(Rows', Queries' \cup {Unset}) /\ watch' \in WatchState(Rows')
      BY <2>1, <3>1
    <3>4. QED
      BY <2>1, <3>2, <3>3 DEF Typed, TypeOK
  <2>3. Asked'
    <3>1. /\ walk'.pc # "idle" => walk'.query \in Queries
          /\ walk'.pc = "idle" => walk'.token = 0 /\ walk'.seen = <<>>
      BY <1>1, WalkTypes DEF Typed
    <3>2. Watch
      BY <1>1
      DEF Next, AuditTurn, QueueTurn, CatalogTurn, FavoritesTurn, TableStep, TimePasses,
          ClientBegins, ReadPage, ClientForgets
    <3>3. walk.pc = "ended" => walk'.pc # "walking"
      BY <1>1
      DEF Next, AuditTurn, QueueTurn, CatalogTurn, FavoritesTurn, TableStep, TimePasses,
          ClientBegins, BeginWalk, ReadPage, ClientForgets, EndWalk, Typed, TypeOK, WalkState
    <3>4. walk'.pc = "walking" => watch'.still \subseteq Listed'
      <4>1. walk.pc \in {"idle", "walking", "ended"}
        BY SortedTables DEF Typed
      <4> HIDE DEF Listed, Paged, Cut
      <4>2. QED  BY <3>2, <3>3, <4>1 DEF Watch, Observe, NothingWatched
    <3>5. QED  BY <2>1, <3>1, <3>4 DEF Asked
  <2>4. QED  BY <2>2, <2>3 DEF Typed
<1>2. CASE UNCHANGED vars
  <2>1. UNCHANGED <<list, adapter, now, walk, watch, events, queue, shelf, favorites,
                    edition, handler>>
    BY <1>2 DEF vars, deploymentVars, walkVars, favoriteVars
  <2>2. Rows' = Rows /\ Queries' = Queries /\ Listed' = Listed
    BY <2>1 DEF Rows, Queries, Listed, AuditListed, QueueListed, CatalogListed, Recorded,
                Matches, InRange, Has, Filtered, Stored, Items, Hidden, Expired,
                DecidedLongAgo, Public
  <2>3. QED
    BY <2>1, <2>2
    DEF Typed, TypeOK, Asked, AuditTypeOK, QueueTypeOK, CatalogTypeOK, FavoritesTypeOK
<1>3. QED  BY <1>1, <1>2

LEMMA TypedAlways == Spec => []Typed
<1>1. Typed /\ [Next]_vars => Typed'
  BY TypedStep
<1>2. QED  BY InitTyped, <1>1, PTL DEF Spec

\* The lists, the tables under them and the client keep their types: a token is
\* always 0 or within the rows, whatever left the list since the page before.
THEOREM ListingsTypeCorrect == Spec => []TypeOK
<1>1. Typed => TypeOK
  BY DEF Typed
<1>2. QED  BY TypedAlways, <1>1, PTL

-----------------------------------------------------------------------------
(* The kits table: the slug index of Postgres.                             *)

\* No two rows of Postgres have one slug.
UniqueSlugs ==
  adapter = "postgres" =>
    \A k, l \in CatalogKits :
      InTable(k) /\ InTable(l) /\ shelf[k].slug = shelf[l].slug => k = l

LEMMA SlugsStep ==
  ASSUME Typed, UniqueSlugs, [Next]_vars
  PROVE  UniqueSlugs'
<1> SUFFICES ASSUME adapter' = "postgres",
                    NEW k \in CatalogKits, NEW l \in CatalogKits,
                    InTable(k)', InTable(l)', (shelf[k].slug)' = (shelf[l].slug)'
             PROVE  k = l
  BY DEF UniqueSlugs
<1>1. adapter = "postgres" /\ shelf \in [CatalogKits -> ShelfRow]
  BY SetUp DEF Typed, TypeOK, CatalogTypeOK
<1>2. ASSUME NEW m \in CatalogKits, \E slug \in SlugsOf[m] : PublishKit(m, slug)
      PROVE  k = l
  <2>1. PICK slug \in SlugsOf[m] : PublishKit(m, slug)
    BY <1>2
  <2>2. \A j \in CatalogKits \ {m} : InTable(j) => shelf[j].slug # slug
    BY <1>1, <2>1 DEF PublishKit, SlugTaken
  <2>3. /\ \A j \in CatalogKits \ {m} : shelf'[j] = shelf[j]
        /\ shelf'[m].slug = slug
    BY <1>1, <2>1 DEF PublishKit, ShelfRow
  <2>4. QED  BY <1>1, <2>2, <2>3 DEF UniqueSlugs, InTable
<1>3. ASSUME \A j \in CatalogKits : /\ InTable(j)' => InTable(j)
                                    /\ shelf'[j].slug = shelf[j].slug
      PROVE  k = l
  BY <1>1, <1>3 DEF UniqueSlugs
<1>4. CASE CatalogTurn
  <2>1. PICK m \in CatalogKits :
          \/ \E slug \in SlugsOf[m] : PublishKit(m, slug)
          \/ TakeDown(m, "hidden") \/ TakeDown(m, "removed")
          \/ Unhide(m) \/ SetPrivate(m)
    BY <1>4 DEF CatalogTurn, CatalogStep
  <2>2. CASE TakeDown(m, "hidden") \/ TakeDown(m, "removed") \/ Unhide(m) \/ SetPrivate(m)
    <3>1. \A j \in CatalogKits : /\ InTable(j)' => InTable(j)
                                 /\ shelf'[j].slug = shelf[j].slug
      BY <1>1, <2>2 DEF TakeDown, Unhide, SetPrivate, InTable, ShelfRow
    <3>2. QED  BY <1>3, <3>1
  <2>3. QED  BY <1>2, <2>1, <2>2
<1>5. CASE UNCHANGED shelf
  BY <1>3, <1>5 DEF InTable
<1>6. QED
  BY <1>4, <1>5
  DEF Next, vars, AuditTurn, QueueTurn, FavoritesTurn, TimePasses, ClientBegins, ReadPage,
      ClientForgets, tables

\* Whoever asks for the slug of a public kit gets that kit, and nothing else,
\* whatever was published, renamed or taken down under the same name (Postgres).
THEOREM CatalogAnswersItsKits == Spec => []PublicKitIsFound
<1>1. Init => UniqueSlugs
  BY DEF Init, CatalogInit, UniqueSlugs, InTable
<1>2. Typed /\ UniqueSlugs /\ [Next]_vars => UniqueSlugs'
  BY SlugsStep
<1>3. UniqueSlugs => PublicKitIsFound
  <2>1. SUFFICES ASSUME UniqueSlugs, adapter = "postgres",
                        NEW k \in CatalogKits, Public(k)
                 PROVE  Answers(shelf[k].slug) = {k}
    BY DEF PublicKitIsFound
  <2>2. {l \in CatalogKits : InTable(l) /\ shelf[l].slug = shelf[k].slug} = {k}
    BY <2>1 DEF UniqueSlugs, Public, InTable
  <2>3. QED  BY <2>1, <2>2 DEF Answers
<1>4. QED  BY TypedAlways, <1>1, <1>2, <1>3, PTL DEF Spec

-----------------------------------------------------------------------------
(* The review queue: what the TTL may find.                                *)

\* A submission that is marked as handed in has no expiresAt.
Retained ==
  \A s \in Submissions :
    /\ queue[s].status = "none" => ~queue[s].handedIn
    /\ s \in Stored /\ queue[s].handedIn => queue[s].expiresAt = 0

LEMMA RetainedStep ==
  ASSUME Typed, Retained, [Next]_vars
  PROVE  Retained'
<1>1. queue \in [Submissions -> QueueRow]
  BY DEF Typed, TypeOK, QueueTypeOK
<1>2. CASE QueueTurn
  <2>1. PICK s \in Submissions :
          \/ Create(s) \/ HandIn(s) \/ Finish(s)
          \/ Approve(s) \/ Reject(s) \/ Withdraw(s) \/ Sweep(s)
    BY <1>2 DEF QueueTurn, QueueStep
  <2>2. \A r \in Submissions \ {s} : queue'[r] = queue[r]
    BY <1>1, <2>1 DEF Create, HandIn, Finish, Approve, Reject, Withdraw, Sweep
  <2>3. queue'[s].status # "none"
    BY <1>1, <2>1
    DEF Create, HandIn, Finish, Approve, Reject, Withdraw, Sweep, Stored, Items, QueueRow,
        Updated, NoSubmission
  <2>4. queue'[s].status # "stub" /\ queue'[s].handedIn => queue'[s].expiresAt = 0
    <3>1. CASE Create(s)
      BY <1>1, <3>1 DEF Create, Retained, QueueRow
    <3>2. CASE HandIn(s)
      BY <1>1, <3>2 DEF HandIn, Updated, NoSubmission, QueueRow
    <3>3. CASE Finish(s) \/ Reject(s)
      BY <1>1, <3>3 DEF Finish, Reject, Updated, NoSubmission, Retained, Stored, Items,
                        QueueRow
    <3>4. CASE Approve(s) \/ Withdraw(s)
      BY <1>1, <3>4 DEF Approve, Withdraw, Retained, Stored, Items, QueueRow
    <3>5. CASE Sweep(s)
      BY <1>1, <3>5 DEF Sweep, NoSubmission, QueueRow
    <3>6. QED  BY <2>1, <3>1, <3>2, <3>3, <3>4, <3>5
  <2>5. \A r \in Submissions : r \in Stored' =>
          queue'[r].status # "stub" /\ (r # s => r \in Stored)
    BY <2>2 DEF Stored, Items
  <2>6. QED  BY <2>2, <2>3, <2>4, <2>5 DEF Retained
<1>3. CASE UNCHANGED queue
  BY <1>3 DEF Retained, Stored, Items
<1>4. QED
  BY <1>2, <1>3
  DEF Next, vars, AuditTurn, CatalogTurn, FavoritesTurn, TimePasses, ClientBegins,
      ReadPage, ClientForgets, tables

\* What the TTL takes out of the table was never marked as handed in, and if it
\* still waits for its upload the default queue does not show it any more: a row
\* whose second has come is expired in milliseconds too.
THEOREM TtlSparesHandedIn == Spec => SweepSparesHandedIn
<1>1. Init => Retained
  BY DEF Init, QueueInit, NoSubmission, Retained, Stored, Items
<1>2. Typed /\ Retained /\ [Next]_vars => Retained'
  BY RetainedStep
<1>3. Typed /\ Retained /\ [Next]_vars =>
        [\A s \in Stored : queue'[s].status = "swept" =>
             /\ ~queue[s].handedIn
             /\ queue[s].status = "awaiting_upload" => Hidden(s)]_queue
  <2> SUFFICES ASSUME Typed, Retained, [Next]_vars, queue' # queue,
                      NEW s \in Stored, queue'[s].status = "swept"
               PROVE  ~queue[s].handedIn /\ Expired(s)
    BY DEF Hidden
  <2>1. /\ queue \in [Submissions -> QueueRow] /\ s \in Submissions
        /\ queue[s] \in QueueRow /\ now \in Nat
    BY MaxTimeAssumption DEF Typed, TypeOK, QueueTypeOK, Stored, Items, Times
  <2>2. QueueTurn
    BY DEF Next, vars, AuditTurn, CatalogTurn, FavoritesTurn, TimePasses, ClientBegins,
           ReadPage, ClientForgets, tables
  <2>3. PICK r \in Submissions :
          \/ Create(r) \/ HandIn(r) \/ Finish(r)
          \/ Approve(r) \/ Reject(r) \/ Withdraw(r) \/ Sweep(r)
    BY <2>2 DEF QueueTurn, QueueStep
  <2>4. s = r /\ Sweep(s)
    <3>1. queue[s].status \notin {"swept", "stub"}
      BY DEF Stored, Items
    <3>2. CASE r # s
      BY <2>1, <2>3, <3>1, <3>2
      DEF Create, HandIn, Finish, Approve, Reject, Withdraw, Sweep
    <3>3. ~(HandIn(s) \/ Finish(s) \/ Reject(s))
      BY <2>1, <3>1 DEF HandIn, Finish, Reject, Updated, QueueRow
    <3>4. ~(Create(s) \/ Approve(s) \/ Withdraw(s))
      BY <2>1, <3>1 DEF Create, Approve, Withdraw, QueueRow
    <3>5. QED  BY <2>3, <3>2, <3>3, <3>4
  <2>5. queue[s].expiresAt # 0 /\ now \div Second >= queue[s].expiresAt
    BY <2>4 DEF Sweep
  <2>6. queue[s].expiresAt \in Nat
    BY <2>1, MaxTimeAssumption, QueueBoundsAssumption DEF QueueRow
  <2>7. now >= queue[s].expiresAt * Second
    <3>1. Second \in Nat \ {0}
      BY QueueBoundsAssumption
    <3>2. \A e \in Nat : now \div Second >= e => now >= e * Second
      BY <2>1, <3>1, WholeSeconds
    <3>3. QED  BY <2>5, <2>6, <3>2
  <2>8. ~queue[s].handedIn
    BY <2>1, <2>5 DEF Retained
  <2>9. QED  BY <2>5, <2>7, <2>8 DEF Expired
<1>4. QED
  BY TypedAlways, <1>1, <1>2, <1>3, PTL DEF Spec, SweepSparesHandedIn

-----------------------------------------------------------------------------
(* Favorites, where the requests of DynamoDB follow one another.           *)

OneAtATime ==
  adapter \notin Overlapping =>
    \A g, h \in Handlers : handler[g].pc # "idle" /\ handler[h].pc # "idle" => g = h

\* The item of a Put has the time of the row it replaces.
ItemKeepsDate ==
  \A h \in Handlers : handler[h].pc = "put" =>
    /\ adapter = "dynamodb"
    /\ LET row == favorites[handler[h].kit] IN
       row.addedAt # 0 => handler[h].item.addedAt = row.addedAt

LEMMA FavoriteSteps ==
  ASSUME [Next]_vars
  PROVE  \/ \E h \in Handlers : \/ \E k \in Kits : BeginAdd(h, k)
                                \/ InsertFavorite(h) \/ GetFavorite(h) \/ PutFavorite(h)
         \/ \E k \in Kits : RemoveFavorite(k)
         \/ UNCHANGED <<favorites, handler>>
BY DEF Next, vars, FavoritesTurn, FavoritesStep, Refresh, AuditTurn, QueueTurn, CatalogTurn,
       TimePasses, ClientBegins, ReadPage, ClientForgets, tables, favoriteVars

LEMMA FavoritesSafe ==
  ASSUME "dynamodb" \notin Overlapping, Typed, OneAtATime, ItemKeepsDate, [Next]_vars
  PROVE  /\ OneAtATime' /\ ItemKeepsDate'
         /\ \A k \in Kits : favorites[k].addedAt # 0 /\ favorites'[k].addedAt # 0
              => favorites'[k].addedAt = favorites[k].addedAt
<1>1. /\ favorites \in [Kits -> Favorite] /\ handler \in [Handlers -> HandlerState]
      /\ now # 0 /\ adapter' = adapter
  BY MaxTimeAssumption, SetUp DEF Typed, TypeOK, FavoritesTypeOK, Times
<1>2. CASE UNCHANGED <<favorites, handler>>
  BY <1>1, <1>2 DEF OneAtATime, ItemKeepsDate
<1>3. ASSUME NEW k \in Kits, RemoveFavorite(k) PROVE /\ OneAtATime' /\ ItemKeepsDate'
         /\ \A j \in Kits : favorites[j].addedAt # 0 /\ favorites'[j].addedAt # 0
              => favorites'[j].addedAt = favorites[j].addedAt
  <2>1. /\ handler' = handler /\ favorites'[k].addedAt = 0
        /\ \A j \in Kits \ {k} : favorites'[j] = favorites[j]
    BY <1>1, <1>3 DEF RemoveFavorite, NoFavorite
  <2>2. \A h \in Handlers : handler[h].kit \in Kits
    BY <1>1 DEF HandlerState
  <2>3. QED  BY <1>1, <2>1, <2>2 DEF OneAtATime, ItemKeepsDate
<1>4. ASSUME NEW h \in Handlers, NEW k \in Kits, BeginAdd(h, k)
      PROVE  OneAtATime' /\ ItemKeepsDate' /\ favorites' = favorites
  <2>1. /\ favorites' = favorites /\ handler'[h].pc = "add"
        /\ \A g \in Handlers \ {h} : handler'[g] = handler[g]
        /\ adapter \in Overlapping \/ \A g \in Handlers : handler[g].pc = "idle"
    BY <1>1, <1>4 DEF BeginAdd, Idle
  <2>2. QED  BY <1>1, <2>1 DEF OneAtATime, ItemKeepsDate
<1>5. ASSUME NEW h \in Handlers, InsertFavorite(h)
      PROVE  /\ OneAtATime' /\ ItemKeepsDate'
             /\ \A j \in Kits : favorites[j].addedAt # 0 /\ favorites'[j].addedAt # 0
                  => favorites'[j].addedAt = favorites[j].addedAt
  <2>1. /\ adapter = "postgres" /\ handler'[h].pc = "idle"
        /\ \A g \in Handlers \ {h} : handler'[g] = handler[g]
    BY <1>1, <1>5 DEF InsertFavorite, Idle
  <2>2. \A g \in Handlers : handler'[g].pc # "put"
    BY <2>1 DEF ItemKeepsDate
  <2>3. \A j \in Kits : favorites[j].addedAt # 0
          => favorites'[j].addedAt = favorites[j].addedAt
    BY <1>1, <1>5 DEF InsertFavorite, Upserted
  <2>4. QED  BY <1>1, <2>1, <2>2, <2>3 DEF OneAtATime, ItemKeepsDate
<1>6. ASSUME NEW h \in Handlers, GetFavorite(h)
      PROVE  OneAtATime' /\ ItemKeepsDate' /\ favorites' = favorites
  <2>1. /\ adapter = "dynamodb" /\ favorites' = favorites
        /\ handler'[h].pc = "put" /\ handler'[h].kit = handler[h].kit
        /\ handler'[h].item = Upserted(favorites[handler[h].kit], now, handler[h].edition)
        /\ \A g \in Handlers \ {h} : handler'[g] = handler[g]
        /\ handler[h].pc # "idle"
    BY <1>1, <1>6 DEF GetFavorite, HandlerState
  <2>2. QED  BY <1>1, <2>1 DEF OneAtATime, ItemKeepsDate, Upserted
<1>7. ASSUME NEW h \in Handlers, PutFavorite(h)
      PROVE  /\ OneAtATime' /\ ItemKeepsDate'
             /\ \A j \in Kits : favorites[j].addedAt # 0 /\ favorites'[j].addedAt # 0
                  => favorites'[j].addedAt = favorites[j].addedAt
  <2>1. /\ handler[h].pc = "put" /\ handler'[h].pc = "idle" /\ handler[h].kit \in Kits
        /\ \A g \in Handlers \ {h} : handler'[g] = handler[g]
        /\ favorites'[handler[h].kit] = handler[h].item
        /\ \A j \in Kits \ {handler[h].kit} : favorites'[j] = favorites[j]
    BY <1>1, <1>7 DEF PutFavorite, Idle, HandlerState
  <2>2. adapter = "dynamodb"
    BY <2>1 DEF ItemKeepsDate
  <2>3. \A g \in Handlers : handler'[g].pc = "idle"
    BY <2>1, <2>2 DEF OneAtATime
  <2>4. QED  BY <1>1, <2>1, <2>3 DEF OneAtATime, ItemKeepsDate
<1>8. QED  BY <1>2, <1>3, <1>4, <1>5, <1>6, <1>7, FavoriteSteps

\* "addedAt is preserved": adding a favorite again leaves the date it was added,
\* in Postgres however many requests are served at the same time, in DynamoDB,
\* whose add is a Get and a Put, when they follow one another.
THEOREM FavoriteKeepsItsDate ==
  ASSUME "dynamodb" \notin Overlapping
  PROVE  Spec => AddedAtIsPreserved
<1> DEFINE Kept == \A k \in Kits : favorites[k].addedAt # 0 /\ favorites'[k].addedAt # 0
                     => favorites'[k].addedAt = favorites[k].addedAt
<1>1. Init => OneAtATime /\ ItemKeepsDate
  BY DEF Init, FavoritesInit, Idle, OneAtATime, ItemKeepsDate
<1>2. Typed /\ OneAtATime /\ ItemKeepsDate /\ [Next]_vars
        => OneAtATime' /\ ItemKeepsDate' /\ [Kept]_favorites
  BY FavoritesSafe
<1>3. QED
  BY TypedAlways, <1>1, <1>2, PTL DEF Spec, AddedAtIsPreserved

-----------------------------------------------------------------------------
(* The walks.                                                              *)

\* The rows whose place in the order is settled: an event, once it is recorded.
Settled == IF list = "audit" THEN Recorded ELSE Rows

LEMMA OrderKept ==
  ASSUME Typed, [Next]_vars
  PROVE  /\ Sorted /\ Sorted' /\ Rows' = Rows
         /\ Settled \subseteq Rows /\ Settled \subseteq Settled'
         /\ \A x, y \in Settled : Before(x, y)' <=> Before(x, y)
<1>1. Sorted /\ Sorted' /\ list' = list /\ Rows' = Rows
  <2>1. TypeOK /\ TypeOK'
    BY TypedStep DEF Typed
  <2>2. QED
    BY <2>1, ListsAssumption, SetUp DEF TypeOK, AuditTypeOK, Sorted
<1>2. Settled \subseteq Rows
  BY DEF Settled, Rows, Recorded
<1>3. CASE list = "audit"
  <2>1. \A e \in Recorded : events'[e] = events[e]
    <3>1. events \in [Events -> EventRow]
      BY <1>1 DEF Sorted
    <3>2. CASE AuditTurn
      BY <3>1, <3>2 DEF AuditTurn, AuditStep, Stamp, Record, Recorded
    <3>3. CASE UNCHANGED events
      BY <3>3
    <3>4. QED
      BY <3>2, <3>3
      DEF Next, vars, QueueTurn, CatalogTurn, FavoritesTurn, TimePasses, ClientBegins,
          ReadPage, ClientForgets, tables
  <2>2. Recorded \subseteq Recorded'
    BY <2>1 DEF Recorded
  <2>3. \A x, y \in Recorded : Newer(x, y)' <=> Newer(x, y)
    BY <2>1 DEF Newer
  <2>4. QED  BY <1>1, <1>2, <1>3, <2>2, <2>3 DEF Settled, Before
<1>4. CASE list # "audit"
  BY <1>1, <1>2, <1>4 DEF Settled, Before
<1>5. QED  BY <1>3, <1>4

LEMMA OrderPairs ==
  ASSUME Typed, [Next]_vars
  PROVE  /\ \A x, y \in Rows : <<x, y>> \in Order <=> Before(x, y)
         /\ \A x, y \in Settled : <<x, y>> \in Order' <=> <<x, y>> \in Order
<1>1. \A x, y : <<x, y>> \in Order <=> x \in Rows /\ y \in Rows /\ Before(x, y)
  BY DEF Order
<1>2. \A x, y : <<x, y>> \in Order' <=> x \in Rows' /\ y \in Rows' /\ Before(x, y)'
  BY DEF Order
<1>3. QED  BY <1>1, <1>2, OrderKept

LEMMA PagedIsSettled == Paged \subseteq Settled
<1>1. CASE list = "audit"
  BY <1>1 DEF Paged, Listed, Settled, AuditListed
<1>2. CASE list # "audit"
  BY <1>2, ListedRows DEF Settled
<1>3. QED  BY <1>1, <1>2

\* A row that stays has no more rows before it when no row entered, and no fewer
\* when none left.
LEMMA RankMoves ==
  ASSUME Typed, [Next]_vars
  PROVE  /\ Paged' \subseteq Paged =>
              \A x \in Paged' : /\ RankOf(x, Paged)' \in Nat /\ RankOf(x, Paged) \in Nat
                                /\ RankOf(x, Paged)' <= RankOf(x, Paged)
         /\ Paged \subseteq Paged' =>
              \A x \in Paged : /\ RankOf(x, Paged)' \in Nat /\ RankOf(x, Paged) \in Nat
                               /\ RankOf(x, Paged) <= RankOf(x, Paged)'
<1>1. /\ Sorted /\ Rows' = Rows /\ Settled \subseteq Rows
      /\ \A x, y \in Settled : Before(x, y)' <=> Before(x, y)
  BY OrderKept
<1>2. Paged \subseteq Settled /\ Paged \subseteq Rows /\ Paged' \subseteq Rows
  <2>1. (/\ Paged \subseteq Rows
         /\ walk.query \in Queries => Listed \subseteq Paged)'
    BY ListedRows, PTL
  <2>2. QED  BY <1>1, <2>1, PagedIsSettled
<1>3. \A S \in SUBSET Rows : IsFiniteSet(S) /\ Cardinality(S) \in Nat
  BY <1>1, RankLaws
<1>4. \A S \in SUBSET Rows : \A T \in SUBSET S : Cardinality(T) <= Cardinality(S)
  BY <1>3, FS_Subset
<1> DEFINE Below(x) == {y \in Paged : Before(y, x)}
           Then(x) == {y \in Paged' : Before(y, x)'}
<1>5. \A x : RankOf(x, Paged) = Cardinality(Below(x)) /\ Below(x) \in SUBSET Rows
  BY <1>2 DEF RankOf, Rank
<1>6. \A x : RankOf(x, Paged)' = Cardinality(Then(x)) /\ Then(x) \in SUBSET Rows
  BY <1>2 DEF RankOf, Rank
<1>7. ASSUME Paged' \subseteq Paged, NEW x \in Paged'
      PROVE  Then(x) \subseteq Below(x)
  BY <1>1, <1>2, <1>7
<1>8. ASSUME Paged \subseteq Paged', NEW x \in Paged
      PROVE  Below(x) \subseteq Then(x)
  BY <1>1, <1>2, <1>8
<1> HIDE DEF Below, Then
<1>9. \A x : Cardinality(Below(x)) \in Nat /\ Cardinality(Then(x)) \in Nat
  BY <1>3, <1>5, <1>6
<1>10. QED  BY <1>4, <1>5, <1>6, <1>7, <1>8, <1>9

LEMMA ReadKeepsTables ==
  ASSUME TypeOK, ReadPage
  PROVE  /\ walk'.query = walk.query
         /\ Listed' = Listed /\ Paged' = Paged /\ Cut' = Cut /\ Recorded' = Recorded
<1>1. UNCHANGED <<list, adapter, now, events, queue, shelf>>
  BY DEF ReadPage, tables, deploymentVars
<1>2. walk'.query = walk.query
  BY DEF ReadPage, Turn, TypeOK, WalkState
<1>3. QED
  BY <1>1, <1>2
  DEF Listed, Paged, Cut, AuditListed, QueueListed, CatalogListed, Recorded, Matches,
      InRange, Has, Filtered, Stored, Items, Hidden, Expired, DecidedLongAgo, Public

\* What the history of a walk says of a step of it.
LEMMA Watching ==
  ASSUME Typed, Next, walk.pc = "walking"
  PROVE  /\ watch'.still \subseteq watch.still
         /\ ~watch'.left => ~watch.left /\ Paged \subseteq Paged'
         /\ ~watch'.entered => ~watch.entered /\ Paged' \subseteq Paged
         /\ ~watch'.cut => ~watch.cut /\ ~Cut'
<1>1. Watch
  BY DEF Next, AuditTurn, QueueTurn, CatalogTurn, FavoritesTurn, TableStep, TimePasses,
         ClientBegins, ReadPage, ClientForgets
<1>2. walk'.pc # "idle"
  <2>1. ~ClientBegins /\ ~ClientForgets
    BY DEF ClientBegins, BeginWalk, ClientForgets, EndWalk
  <2>2. ASSUME ReadPage PROVE walk'.pc # "idle"
    BY <2>2 DEF ReadPage, Turn, Typed, TypeOK, WalkState
  <2>3. QED
    BY <2>1, <2>2
    DEF Next, AuditTurn, QueueTurn, CatalogTurn, FavoritesTurn, TableStep, TimePasses
<1>3. watch' = [still |-> watch.still \cap Listed',
                left |-> watch.left \/ ~(Paged \subseteq Paged'),
                entered |-> watch.entered \/ ~(Paged' \subseteq Paged),
                cut |-> watch.cut \/ Cut']
  BY <1>1, <1>2, Zenon DEF Watch, Observe
<1> HIDE DEF Listed, Paged, Cut
<1>4. QED  BY <1>3

\* What can become of a walk in one step.
LEMMA WalkCases ==
  ASSUME Typed, [Next]_vars
  PROVE  \/ walk'.pc = "idle"
         \/ walk'.pc = "walking" /\ walk'.token = 0 /\ walk'.seen = <<>>
         \/ Next /\ ReadPage /\ walk.pc = "walking"
         \/ Next /\ walk' = walk /\ walk.pc = "walking"
         \/ UNCHANGED vars
<1>1. walk.pc \in {"idle", "walking", "ended"}
  BY SortedTables DEF Typed
<1>2. CASE ReadPage
  BY <1>2 DEF ReadPage, Next
<1>3. CASE ClientBegins
  BY <1>3 DEF ClientBegins, BeginWalk
<1>4. CASE ClientForgets
  BY <1>4 DEF ClientForgets, EndWalk, Typed, TypeOK, WalkState
<1>5. CASE AuditTurn \/ QueueTurn \/ CatalogTurn \/ FavoritesTurn \/ TimePasses
  BY <1>1, <1>5
  DEF AuditTurn, QueueTurn, CatalogTurn, FavoritesTurn, TableStep, TimePasses, Next
<1>6. QED  BY <1>2, <1>3, <1>4, <1>5 DEF Next

\* One sequence after the other.
LEMMA ConcatIndices ==
  ASSUME NEW T, NEW a \in Seq(T), NEW b \in Seq(T)
  PROVE  \A i \in DOMAIN (a \o b) :
           \/ i \in DOMAIN a /\ (a \o b)[i] = a[i] /\ i <= Len(a)
           \/ i - Len(a) \in DOMAIN b /\ (a \o b)[i] = b[i - Len(a)] /\ i > Len(a)
<1>1. /\ a \o b \in Seq(T) /\ Len(a \o b) = Len(a) + Len(b)
      /\ \A i \in 1 .. Len(a) + Len(b) :
           (a \o b)[i] = IF i <= Len(a) THEN a[i] ELSE b[i - Len(a)]
  BY ConcatProperties
<1>2. /\ Len(a) \in Nat /\ Len(b) \in Nat
      /\ DOMAIN a = 1 .. Len(a) /\ DOMAIN b = 1 .. Len(b)
      /\ DOMAIN (a \o b) = 1 .. Len(a) + Len(b)
  BY <1>1, LenProperties
<1>3. QED  BY <1>1, <1>2

LEMMA KeyReads ==
  ASSUME Typed, KeyWalk, Next, ReadPage, walk.pc = "walking", ~ByOffset
  PROVE  KeyWalk'
<1>1. /\ Sorted /\ Rows' = Rows /\ Settled \subseteq Rows
      /\ \A x, y \in Rows : <<x, y>> \in Order <=> Before(x, y)
      /\ \A x, y \in Settled : <<x, y>> \in Order' <=> <<x, y>> \in Order
  BY OrderKept, OrderPairs
<1>2. list' = list /\ adapter' = adapter /\ Listed' = Listed /\ Recorded' = Recorded
  BY SetUp, ReadKeepsTables DEF Typed
<1>3. PICK S \in SUBSET Rows : \E page :
        /\ \E W \in SUBSET S :
             Listed \subseteq W /\ KeyAnswer(S, W, walk.token, page)
        /\ list = "audit" => S \subseteq Recorded
        /\ Turn(page)
  BY KeyTurn DEF Typed
<1>4. PICK page :
        /\ \E W \in SUBSET S :
             Listed \subseteq W /\ KeyAnswer(S, W, walk.token, page)
        /\ list = "audit" => S \subseteq Recorded
        /\ Turn(page)
  BY <1>3
<1>5. PICK W \in SUBSET S : Listed \subseteq W /\ KeyAnswer(S, W, walk.token, page)
  BY <1>4
<1>6. PICK token, next, items, seen :
        token = walk.token /\ next = page.next /\ items = page.items /\ seen = walk.seen
  OBVIOUS
<1>7. /\ seen \in Seq(Rows) /\ ToSet(seen) \subseteq Rows /\ token \in Rows \cup {0}
      /\ Seen = ToSet(seen)
  <2>1. seen \in Seq(Rows) /\ token \in Rows \cup {0}
    BY <1>6 DEF Typed, TypeOK, WalkState
  <2>2. \A i \in DOMAIN seen : seen[i] \in Rows
    BY <2>1, ElementOfSeq, LenProperties
  <2>3. QED  BY <1>6, <2>1, <2>2 DEF Seen, ToSet
<1>8. /\ items \in Seq(Rows) /\ next \in S \cup {0}
      /\ \A i, j \in DOMAIN items : i < j => Before(items[i], items[j])
      /\ next # 0 => token = 0 \/ Before(token, next)
      /\ \A x : x \in ToSet(items) <=>
                  /\ x \in W
                  /\ token = 0 \/ Before(token, x)
                  /\ next = 0 \/ x = next \/ Before(x, next)
  BY <1>5, <1>6 DEF KeyAnswer
<1>9. /\ walk'.seen = seen \o items
      /\ walk'.token = next
      /\ walk'.pc = IF next = 0 THEN "ended" ELSE "walking"
      /\ Seen' = ToSet(seen) \cup ToSet(items)
  BY <1>4, <1>6, <1>7, <1>8, SeenGrows DEF Typed
<1>10. /\ \A i, j \in DOMAIN seen : i < j => <<seen[i], seen[j]>> \in Order
       /\ list = "audit" => ToSet(seen) \subseteq Recorded /\ token \in Recorded \cup {0}
       /\ token = 0 => ToSet(seen) = {}
       /\ \A x \in ToSet(seen) : x = token \/ <<x, token>> \in Order
       /\ token # 0 =>
            \A x \in watch.still : x = token \/ <<x, token>> \in Order => x \in ToSet(seen)
  <2>1. <<>> \in Seq(Rows) /\ ToSet(<<>>) = {}
    BY DEF ToSet
  <2>2. QED  BY <1>6, <1>7, <2>1 DEF KeyWalk
<1>11. watch'.still \subseteq watch.still /\ watch.still \subseteq Listed
  BY Watching DEF Typed, Asked
<1>12. S \subseteq Settled /\ ToSet(seen) \subseteq Settled
  BY <1>4, <1>7, <1>10 DEF Settled
<1>13. /\ \A x, y, z \in Rows :
            <<x, y>> \in Order /\ <<y, z>> \in Order => <<x, z>> \in Order
       /\ \A x, y \in Rows : x = y \/ <<x, y>> \in Order \/ <<y, x>> \in Order
  BY <1>1, OrderLaws
<1>14. /\ ToSet(items) \subseteq Settled
       /\ next # 0 => next \in Settled
       /\ next # 0 => token = 0 \/ <<token, next>> \in Order
       /\ \A i, j \in DOMAIN items : i < j => <<items[i], items[j]>> \in Order
       /\ \A x \in Rows : x \in ToSet(items) <=>
            /\ x \in W
            /\ token = 0 \/ <<token, x>> \in Order
            /\ next = 0 \/ x = next \/ <<x, next>> \in Order
  <2>1. ToSet(items) \subseteq Settled /\ (next # 0 => next \in Settled)
    BY <1>8, <1>12
  <2>2. \A i \in DOMAIN items : items[i] \in Rows
    BY <1>8, ElementOfSeq, LenProperties
  <2>3. /\ next # 0 => token = 0 \/ <<token, next>> \in Order
        /\ \A i, j \in DOMAIN items : i < j => <<items[i], items[j]>> \in Order
    BY <1>1, <1>7, <1>8, <2>1, <2>2
  <2>4. ASSUME NEW x \in Rows
        PROVE  x \in ToSet(items) <=>
                 /\ x \in W
                 /\ token = 0 \/ <<token, x>> \in Order
                 /\ next = 0 \/ x = next \/ <<x, next>> \in Order
    <3>1. token # 0 => (Before(token, x) <=> <<token, x>> \in Order)
      BY <1>1, <1>7
    <3>2. next # 0 => (Before(x, next) <=> <<x, next>> \in Order)
      BY <1>1, <2>1
    <3>3. QED  BY <1>8, <3>1, <3>2
  <2>5. QED  BY <2>1, <2>3, <2>4
<1>15. \A x \in ToSet(seen), y \in ToSet(items) : <<x, y>> \in Order
  <2> TAKE x \in ToSet(seen), y \in ToSet(items)
  <2>1. x \in Rows /\ y \in Rows /\ token # 0 /\ token \in Rows
    BY <1>1, <1>7, <1>10, <1>14
  <2>2. <<token, y>> \in Order /\ (x = token \/ <<x, token>> \in Order)
    BY <1>10, <1>14, <2>1
  <2>3. QED  BY <1>13, <2>1, <2>2
<1>16. \A i, j \in DOMAIN (seen \o items) :
         i < j => <<(seen \o items)[i], (seen \o items)[j]>> \in Order'
  <2> DEFINE both == seen \o items
             n == Len(seen)
  <2> SUFFICES ASSUME NEW i \in DOMAIN both, NEW j \in DOMAIN both, i < j
               PROVE  <<both[i], both[j]>> \in Order'
    OBVIOUS
  <2>1. /\ \A k \in DOMAIN both :
             \/ k \in DOMAIN seen /\ both[k] = seen[k] /\ k <= n
             \/ k - n \in DOMAIN items /\ both[k] = items[k - n] /\ k > n
        /\ n \in Nat /\ DOMAIN both \subseteq Nat
    <3>1. both \in Seq(Rows) /\ n \in Nat
      BY <1>7, <1>8, ConcatProperties, LenProperties
    <3>2. DOMAIN both \subseteq Nat
      BY <3>1, LenProperties
    <3>3. QED  BY <1>7, <1>8, <3>1, <3>2, ConcatIndices
  <2>2. /\ \A k \in DOMAIN seen : seen[k] \in ToSet(seen)
        /\ \A k \in DOMAIN items : items[k] \in ToSet(items)
    BY DEF ToSet
  <2> HIDE DEF both, n
  <2>3. both[i] \in Settled /\ both[j] \in Settled
    BY <1>12, <1>14, <2>1, <2>2
  <2>4. <<both[i], both[j]>> \in Order
    <3>1. CASE j <= n
      BY <1>10, <2>1, <3>1
    <3>2. CASE i <= n /\ j > n
      <4>1. both[i] \in ToSet(seen) /\ both[j] \in ToSet(items)
        BY <2>1, <2>2, <3>2
      <4>2. QED  BY <1>15, <4>1
    <3>3. CASE i > n
      BY <1>14, <2>1, <3>3
    <3>4. QED  BY <2>1, <3>1, <3>2, <3>3
  <2>5. QED  BY <1>1, <2>3, <2>4
<1>17. list = "audit" => Seen' \subseteq Recorded /\ next \in Recorded \cup {0}
  BY <1>4, <1>8, <1>9, <1>10
<1>18. next # 0 => \A x \in Seen' : x = next \/ <<x, next>> \in Order'
  <2> SUFFICES ASSUME next # 0, NEW x \in Seen' PROVE x = next \/ <<x, next>> \in Order'
    OBVIOUS
  <2>1. x \in Settled /\ next \in Settled /\ x \in Rows /\ next \in Rows
    BY <1>1, <1>9, <1>12, <1>14
  <2>2. x = next \/ <<x, next>> \in Order
    BY <1>7, <1>9, <1>10, <1>13, <1>14, <2>1
  <2>3. QED  BY <1>1, <2>1, <2>2
<1>19. \A x \in watch.still :
         next = 0 \/ x = next \/ <<x, next>> \in Order => x \in Seen'
  <2> SUFFICES ASSUME NEW x \in watch.still, next = 0 \/ x = next \/ <<x, next>> \in Order
               PROVE  x \in Seen'
    OBVIOUS
  <2>1. x \in W /\ x \in Rows
    BY <1>5, <1>11
  <2>2. CASE token = 0 \/ <<token, x>> \in Order
    BY <1>9, <1>14, <2>1, <2>2
  <2>3. CASE token # 0 /\ (x = token \/ <<x, token>> \in Order)
    BY <1>9, <1>10, <2>3
  <2>4. QED  BY <1>7, <1>13, <2>1, <2>2, <2>3
<1>20. next # 0 => \A x \in watch'.still : x = next \/ <<x, next>> \in Order' => x \in Seen'
  <2>1. watch'.still \subseteq Settled
    BY <1>5, <1>11, <1>12
  <2>2. QED  BY <1>1, <1>11, <1>14, <1>19, <2>1
<1>21. next = 0 => watch'.still \subseteq Seen'
  BY <1>11, <1>19
<1>22. QED
  BY <1>2, <1>9, <1>16, <1>17, <1>18, <1>20, <1>21 DEF KeyWalk

\* Nothing moves but the tables and the clock, or nothing at all.
LEMMA KeyWaits ==
  ASSUME Typed, KeyWalk, [Next]_vars, walk' = walk, watch'.still \subseteq watch.still,
         ~ByOffset
  PROVE  KeyWalk'
<1>1. /\ Settled \subseteq Rows /\ Settled \subseteq Settled' /\ list' = list
      /\ \A x, y \in Settled : <<x, y>> \in Order' <=> <<x, y>> \in Order
  BY OrderKept, OrderPairs, SetUp
<1>2. PICK token, seen : token = walk.token /\ seen = walk.seen
  OBVIOUS
<1>3. walk'.token = token /\ walk'.seen = seen /\ Seen = ToSet(seen) /\ Seen' = ToSet(seen)
  BY <1>2 DEF Seen
<1>4. /\ token # 0 => token \in Settled
      /\ ToSet(seen) \subseteq Settled
      /\ \A i \in DOMAIN seen : seen[i] \in ToSet(seen)
  <2>1. seen \in Seq(Rows) /\ token \in Rows \cup {0}
    BY <1>2 DEF Typed, TypeOK, WalkState
  <2>2. \A i \in DOMAIN seen : seen[i] \in Rows
    BY <2>1, ElementOfSeq, LenProperties
  <2>3. ToSet(seen) \subseteq Rows /\ \A i \in DOMAIN seen : seen[i] \in ToSet(seen)
    BY <2>2 DEF ToSet
  <2>4. list = "audit" => ToSet(seen) \subseteq Recorded /\ token \in Recorded \cup {0}
    BY <1>2, <1>3 DEF KeyWalk
  <2>5. QED  BY <2>1, <2>3, <2>4 DEF Settled
<1>5. walk.pc = "walking" => watch.still \subseteq Settled
  BY PagedIsSettled, ListedRows DEF Typed, Asked
<1>6. list = "audit" => Recorded \subseteq Recorded'
  BY <1>1 DEF Settled
<1>7. \A i, j \in DOMAIN seen : i < j => <<seen[i], seen[j]>> \in Order'
  BY <1>1, <1>2, <1>4 DEF KeyWalk
<1>8. walk.pc = "walking" =>
        \A x \in ToSet(seen) : x = token \/ <<x, token>> \in Order'
  <2> SUFFICES ASSUME walk.pc = "walking", NEW x \in ToSet(seen), x # token
               PROVE  <<x, token>> \in Order'
    OBVIOUS
  <2>1. <<x, token>> \in Order
    BY <1>2, <1>3 DEF KeyWalk
  <2>2. token # 0
    BY <2>1, RowsAreFinite, SortedTables DEF Order, Typed
  <2>3. QED  BY <1>1, <1>4, <2>1, <2>2
<1>9. walk.pc = "walking" /\ token # 0 =>
        \A x \in watch'.still : x = token \/ <<x, token>> \in Order' => x \in ToSet(seen)
  BY <1>1, <1>2, <1>3, <1>4, <1>5 DEF KeyWalk
<1>10. /\ list = "audit" => ToSet(seen) \subseteq Recorded' /\ token \in Recorded' \cup {0}
       /\ walk.pc = "walking" /\ token = 0 => seen = <<>>
       /\ walk.pc = "ended" => watch'.still \subseteq ToSet(seen)
  BY <1>2, <1>3, <1>6 DEF KeyWalk
<1>11. QED
  BY <1>1, <1>3, <1>7, <1>8, <1>9, <1>10 DEF KeyWalk

LEMMA KeyStep ==
  ASSUME Typed, KeyWalk, [Next]_vars
  PROVE  KeyWalk'
<1>1. Typed' /\ list' = list /\ adapter' = adapter
  BY TypedStep, SetUp
<1>2. ByOffset' = ByOffset
  BY <1>1 DEF ByOffset
<1>3. ASSUME walk'.token = 0, walk'.seen = <<>>, walk'.pc # "ended"
      PROVE  KeyWalk'
  <2>1. Seen' = {} /\ DOMAIN walk'.seen = {}
    BY <1>3 DEF Seen, ToSet
  <2>2. QED  BY <1>3, <2>1 DEF KeyWalk
<1>4. CASE walk'.pc = "idle"
  BY <1>1, <1>3, <1>4 DEF Typed, Asked
<1>5. CASE walk'.pc = "walking" /\ walk'.token = 0 /\ walk'.seen = <<>>
  BY <1>3, <1>5
<1>6. CASE ByOffset
  BY <1>2, <1>6 DEF KeyWalk
<1>7. CASE Next /\ ReadPage /\ walk.pc = "walking" /\ ~ByOffset
  BY <1>7, KeyReads
<1>8. CASE Next /\ walk' = walk /\ walk.pc = "walking" /\ ~ByOffset
  BY <1>8, Watching, KeyWaits
<1>9. CASE UNCHANGED vars /\ ~ByOffset
  <2>1. walk' = walk /\ watch' = watch
    BY <1>9 DEF vars, walkVars
  <2>2. QED  BY <1>9, <2>1, KeyWaits
<1>10. QED  BY <1>4, <1>5, <1>6, <1>7, <1>8, <1>9, WalkCases

LEMMA KeyAlways == Spec => []KeyWalk
<1>1. Init => KeyWalk
  <2> SUFFICES ASSUME Init PROVE KeyWalk
    OBVIOUS
  <2>1. walk.token = 0 /\ walk.seen = <<>> /\ walk.pc = "idle"
    BY DEF Init, PagingInit
  <2>2. Seen = {} /\ DOMAIN walk.seen = {}
    BY <2>1 DEF Seen, ToSet
  <2>3. QED  BY <2>1, <2>2 DEF KeyWalk
<1>2. Typed /\ KeyWalk /\ [Next]_vars => KeyWalk'
  BY KeyStep
<1>3. QED  BY TypedAlways, <1>1, <1>2, PTL DEF Spec

\* "Newest first": what DynamoDB shows in a whole walk over the audit log, and
\* not only in one page, is in strictly decreasing order, whatever is recorded
\* meanwhile.
THEOREM WalkComesInOrder == Spec => []WalkIsOrdered
<1>1. Typed /\ KeyWalk => WalkIsOrdered
  <2> SUFFICES ASSUME Typed, KeyWalk, list = "audit", adapter = "dynamodb",
                      NEW i \in DOMAIN walk.seen, NEW j \in DOMAIN walk.seen, i < j
               PROVE  Newer(walk.seen[i], walk.seen[j])
    BY DEF WalkIsOrdered
  <2>1. <<walk.seen[i], walk.seen[j]>> \in Order
    BY DEF KeyWalk, ByOffset
  <2>2. Before(walk.seen[i], walk.seen[j])
    BY <2>1 DEF Order
  <2>3. QED  BY <2>2 DEF Before
<1>2. QED  BY TypedAlways, KeyAlways, <1>1, PTL

LEMMA OffsetWaits ==
  ASSUME Typed, OffsetWalk, [Next]_vars, walk' = walk, ByOffset,
         watch'.still \subseteq watch.still,
         ~watch'.left => ~watch.left /\ Paged \subseteq Paged',
         ~watch'.entered => ~watch.entered /\ Paged' \subseteq Paged,
         ~watch'.cut => ~watch.cut
  PROVE  OffsetWalk'
<1>1. PICK token, seen : token = walk.token /\ seen = walk.seen
  OBVIOUS
<1>2. walk'.token = token /\ walk'.seen = seen /\ Seen = ToSet(seen) /\ Seen' = ToSet(seen)
  BY <1>1 DEF Seen
<1>3. token \in Nat
  BY <1>1, SortedTables DEF Typed
<1>4. ASSUME ~watch'.cut, ~watch'.entered
      PROVE  /\ \A i, j \in DOMAIN seen : seen[i] = seen[j] => i = j
             /\ walk.pc = "walking" =>
                  \A x \in ToSet(seen) \cap Paged' : RankOf(x, Paged)' < token
  <2>1. /\ \A i, j \in DOMAIN seen : seen[i] = seen[j] => i = j
        /\ walk.pc = "walking" =>
             \A x \in ToSet(seen) \cap Paged : RankOf(x, Paged) < token
    BY <1>1, <1>2, <1>4 DEF OffsetWalk
  <2>2. \A x \in Paged' :
          /\ x \in Paged /\ RankOf(x, Paged)' <= RankOf(x, Paged)
          /\ RankOf(x, Paged)' \in Nat /\ RankOf(x, Paged) \in Nat
    BY <1>4, RankMoves
  <2>3. QED  BY <1>3, <2>1, <2>2
<1>5. ASSUME ~watch'.cut, ~watch'.left, walk.pc = "walking", NEW x \in watch'.still,
             RankOf(x, Paged)' < token
      PROVE  x \in ToSet(seen)
  <2>1. x \in watch.still /\ x \in Paged
    BY <1>5, ListedRows DEF Typed, Asked
  <2>2. /\ RankOf(x, Paged) <= RankOf(x, Paged)'
        /\ RankOf(x, Paged)' \in Nat /\ RankOf(x, Paged) \in Nat
    BY <1>5, <2>1, RankMoves
  <2>3. RankOf(x, Paged) < token
    BY <1>3, <1>5, <2>2
  <2>4. QED  BY <1>1, <1>2, <1>5, <2>1, <2>3 DEF OffsetWalk
<1>6. ~watch'.cut /\ ~watch'.left /\ walk.pc = "ended" => watch'.still \subseteq ToSet(seen)
  BY <1>1, <1>2 DEF OffsetWalk
<1>7. QED
  BY <1>2, <1>4, <1>5, <1>6 DEF OffsetWalk

LEMMA OffsetReads ==
  ASSUME Typed, OffsetWalk, Next, ReadPage, walk.pc = "walking", ByOffset, ~watch'.cut
  PROVE  OffsetWalk'
<1>1. /\ Sorted /\ walk.query \in Queries
      /\ Listed \subseteq Paged /\ Paged \in SUBSET Rows /\ Paged' = Paged
      /\ ~watch.cut /\ ~Cut
  BY SortedTables, ListedRows, ReadKeepsTables, Watching DEF Typed, Asked
<1>2. PICK page : OffsetAnswer(Paged, Listed, walk.token, page) /\ Turn(page)
  BY <1>1, OffsetTurn DEF Typed
<1>3. PICK token, next, items, seen, n :
        /\ token = walk.token /\ next = page.next /\ items = page.items
        /\ seen = walk.seen /\ n = Cardinality(Paged)
  OBVIOUS
<1>4. /\ seen \in Seq(Rows) /\ items \in Seq(Rows)
      /\ token \in Nat /\ Limit \in Nat \ {0} /\ Seen = ToSet(seen)
  BY <1>2, <1>3, SortedTables, LimitAssumption DEF Typed, OffsetAnswer, Seen
<1>5. /\ walk'.seen = seen \o items /\ walk'.token = next
      /\ walk'.pc = IF next = 0 THEN "ended" ELSE "walking"
      /\ Seen' = ToSet(seen) \cup ToSet(items)
  BY <1>2, <1>3, <1>4, SeenGrows DEF Typed
<1>6. \A x \in Paged : /\ RankOf(x, Paged) \in 0 .. n - 1 /\ n \in Nat
                        /\ RankOf(x, Paged)' = RankOf(x, Paged)
  <2>1. \A x \in Paged : RankOf(x, Paged) \in 0 .. n - 1 /\ n \in Nat
    BY <1>1, <1>3, RankLaws
  <2>2. \A x \in Paged : /\ RankOf(x, Paged)' \in Nat
                          /\ RankOf(x, Paged)' <= RankOf(x, Paged)
                          /\ RankOf(x, Paged) <= RankOf(x, Paged)'
    BY <1>1, RankMoves
  <2>3. QED  BY <2>1, <2>2
<1>7. \A x : x \in ToSet(items) <=>
              x \in Listed /\ token <= RankOf(x, Paged) /\ RankOf(x, Paged) < token + Limit
  BY <1>2, <1>3 DEF OffsetAnswer
<1>8. \/ next = 0 /\ n <= token + Limit
      \/ next = token + Limit /\ next # 0
  BY <1>2, <1>3, <1>4 DEF OffsetAnswer
<1>9. \A i, j \in DOMAIN items : items[i] = items[j] => i = j
  <2>1. \A i, j \in DOMAIN items : i < j => Before(items[i], items[j])
    BY <1>2, <1>3 DEF OffsetAnswer
  <2>2. DOMAIN items \subseteq Nat /\ \A i \in DOMAIN items : items[i] \in Rows
    BY <1>4, ElementOfSeq, LenProperties
  <2>3. \A x \in Rows : ~Before(x, x)
    BY <1>1, OrderLaws
  <2>4. QED  BY <2>1, <2>2, <2>3
<1>10. ASSUME ~watch'.entered
       PROVE  /\ \A i, j \in DOMAIN (seen \o items) :
                   (seen \o items)[i] = (seen \o items)[j] => i = j
              /\ next # 0 => \A x \in Seen' \cap Paged' : RankOf(x, Paged)' < next
  <2>1. /\ \A i, j \in DOMAIN seen : seen[i] = seen[j] => i = j
        /\ \A x \in ToSet(seen) \cap Paged : RankOf(x, Paged) < token
    BY <1>1, <1>3, <1>4, <1>10, Watching DEF OffsetWalk
  <2>2. \A x \in ToSet(items) : x \notin ToSet(seen)
    BY <1>1, <1>4, <1>6, <1>7, <2>1
  <2>3. \A i, j \in DOMAIN (seen \o items) :
          (seen \o items)[i] = (seen \o items)[j] => i = j
    <3> DEFINE both == seen \o items
               m == Len(seen)
    <3>1. /\ \A k \in DOMAIN both :
               \/ k \in DOMAIN seen /\ both[k] = seen[k]
               \/ k - m \in DOMAIN items /\ both[k] = items[k - m]
          /\ m \in Nat /\ DOMAIN both \subseteq Nat
      <4>1. both \in Seq(Rows) /\ m \in Nat
        BY <1>4, ConcatProperties, LenProperties
      <4>2. DOMAIN both \subseteq Nat
        BY <4>1, LenProperties
      <4>3. QED  BY <1>4, <4>1, <4>2, ConcatIndices
    <3>2. /\ \A k \in DOMAIN seen : seen[k] \in ToSet(seen)
          /\ \A k \in DOMAIN items : items[k] \in ToSet(items)
      BY DEF ToSet
    <3> HIDE DEF both, m
    <3>3. \A i, j \in DOMAIN both : both[i] = both[j] => i = j
      <4> SUFFICES ASSUME NEW i \in DOMAIN both, NEW j \in DOMAIN both, both[i] = both[j]
                   PROVE  i = j
        OBVIOUS
      <4>1. CASE i \in DOMAIN seen /\ both[i] = seen[i]
        <5>1. both[j] \notin ToSet(items)
          BY <2>2, <3>2, <4>1
        <5>2. j \in DOMAIN seen /\ both[j] = seen[j]
          BY <3>1, <3>2, <5>1
        <5>3. QED  BY <2>1, <4>1, <5>2
      <4>2. CASE i - m \in DOMAIN items /\ both[i] = items[i - m]
        <5>1. both[j] \notin ToSet(seen)
          BY <2>2, <3>2, <4>2
        <5>2. j - m \in DOMAIN items /\ both[j] = items[j - m]
          BY <3>1, <3>2, <5>1
        <5>3. i - m = j - m
          BY <1>9, <4>2, <5>2
        <5>4. QED  BY <3>1, <5>3
      <4>3. QED  BY <3>1, <4>1, <4>2
    <3>4. QED  BY <3>3 DEF both
  <2>4. next # 0 => \A x \in (ToSet(seen) \cup ToSet(items)) \cap Paged :
                      RankOf(x, Paged) < next
    BY <1>4, <1>6, <1>7, <1>8, <2>1
  <2>5. QED  BY <1>1, <1>5, <1>6, <2>3, <2>4
<1>11. ASSUME ~watch'.left, NEW x \in watch'.still, next = 0 \/ RankOf(x, Paged)' < next
       PROVE  x \in Seen'
  <2>1. x \in watch.still /\ x \in Listed /\ x \in Paged
    BY <1>1, <1>11, Watching DEF Typed, Asked
  <2>2. RankOf(x, Paged) < token + Limit /\ RankOf(x, Paged) \in Nat
    BY <1>4, <1>6, <1>8, <1>11, <2>1
  <2>3. CASE RankOf(x, Paged) < token
    <3>1. x \in ToSet(seen)
      BY <1>1, <1>3, <1>4, <1>11, <2>1, <2>3, Watching DEF OffsetWalk
    <3>2. QED  BY <1>5, <3>1
  <2>4. CASE token <= RankOf(x, Paged)
    BY <1>5, <1>7, <2>1, <2>2, <2>4
  <2>5. QED  BY <1>4, <2>2, <2>3, <2>4
<1>12. QED
  BY <1>5, <1>10, <1>11 DEF OffsetWalk

LEMMA StillRanked ==
  Typed /\ walk.pc = "walking" => \A x \in watch.still : RankOf(x, Paged) \in Nat
<1> SUFFICES ASSUME Typed, walk.pc = "walking", NEW x \in watch.still
             PROVE  RankOf(x, Paged) \in Nat
  OBVIOUS
<1>1. Sorted /\ x \in Paged /\ Paged \in SUBSET Rows
  BY SortedTables, ListedRows DEF Typed, Asked
<1>2. QED  BY <1>1, RankLaws

LEMMA OffsetStep ==
  ASSUME Typed, OffsetWalk, [Next]_vars
  PROVE  OffsetWalk'
<1>1. Typed' /\ list' = list /\ adapter' = adapter
  BY TypedStep, SetUp
<1>2. ByOffset' = ByOffset
  BY <1>1 DEF ByOffset
<1>3. ASSUME walk'.token = 0, walk'.seen = <<>>, walk'.pc # "ended"
      PROVE  OffsetWalk'
  <2>1. Seen' = {} /\ DOMAIN walk'.seen = {}
    BY <1>3 DEF Seen, ToSet
  <2>2. walk'.pc = "walking" => \A x \in watch'.still : RankOf(x, Paged)' \in Nat
    <3>1. (Typed /\ walk.pc = "walking" =>
             \A x \in watch.still : RankOf(x, Paged) \in Nat)'
      BY StillRanked, PTL
    <3>2. QED  BY <1>1, <3>1
  <2>3. QED  BY <1>3, <2>1, <2>2 DEF OffsetWalk
<1>4. CASE walk'.pc = "idle"
  BY <1>1, <1>3, <1>4 DEF Typed, Asked
<1>5. CASE walk'.pc = "walking" /\ walk'.token = 0 /\ walk'.seen = <<>>
  BY <1>3, <1>5
<1>6. CASE ~ByOffset \/ watch'.cut
  BY <1>2, <1>6 DEF OffsetWalk
<1>7. CASE Next /\ ReadPage /\ walk.pc = "walking" /\ ByOffset /\ ~watch'.cut
  BY <1>7, OffsetReads
<1>8. CASE Next /\ walk' = walk /\ walk.pc = "walking" /\ ByOffset
  BY <1>8, Watching, OffsetWaits
<1>9. CASE UNCHANGED vars /\ ByOffset
  <2>1. walk' = walk /\ watch' = watch
    BY <1>9 DEF vars, walkVars
  <2>2. Paged' = Paged
    BY <1>9
    DEF vars, walkVars, deploymentVars, Listed, Paged, AuditListed, QueueListed,
        CatalogListed, Recorded, Matches, InRange, Has, Filtered, Stored, Items, Hidden,
        Expired, DecidedLongAgo, Public
  <2>3. QED  BY <1>9, <2>1, <2>2, OffsetWaits
<1>10. QED  BY <1>4, <1>5, <1>6, <1>7, <1>8, <1>9, WalkCases

LEMMA OffsetAlways == Spec => []OffsetWalk
<1>1. Init => OffsetWalk
  <2> SUFFICES ASSUME Init PROVE OffsetWalk
    OBVIOUS
  <2>1. walk.token = 0 /\ walk.seen = <<>> /\ walk.pc = "idle"
    BY DEF Init, PagingInit
  <2>2. Seen = {} /\ DOMAIN walk.seen = {}
    BY <2>1 DEF Seen, ToSet
  <2>3. QED  BY <2>1, <2>2 DEF OffsetWalk
<1>2. Typed /\ OffsetWalk /\ [Next]_vars => OffsetWalk'
  BY OffsetStep
<1>3. QED  BY TypedAlways, <1>1, <1>2, PTL DEF Spec

\* A walk to the last page has shown every row that was in its list all the time,
\* in whatever order rows come and go and whatever the page size; by offsets, as
\* long as none of the rows that are cut into pages goes out.
THEOREM NothingMissed == Spec => []WalkIsComplete
<1>1. KeyWalk /\ OffsetWalk => WalkIsComplete
  BY DEF KeyWalk, OffsetWalk, WalkIsComplete
<1>2. QED  BY KeyAlways, OffsetAlways, <1>1, PTL

\* A walk shows no row twice; by offsets, as long as no row comes in.
THEOREM NothingShownTwice == Spec => []WalkDoesNotRepeat
<1>1. Typed /\ KeyWalk /\ OffsetWalk => WalkDoesNotRepeat
  <2> SUFFICES ASSUME Typed, KeyWalk, OffsetWalk, ~watch.cut, ByOffset => ~watch.entered
               PROVE  Cardinality(Seen) = Len(walk.seen)
    BY DEF WalkDoesNotRepeat
  <2> DEFINE seen == walk.seen
  <2>1. seen \in Seq(Rows) /\ Sorted
    BY SortedTables DEF Typed
  <2>2. /\ DOMAIN seen = 1 .. Len(seen) /\ Len(seen) \in Nat
        /\ \A i \in DOMAIN seen : seen[i] \in Rows
    BY <2>1, LenProperties, ElementOfSeq
  <2>3. \A i, j \in DOMAIN seen : seen[i] = seen[j] => i = j
    <3>1. CASE ByOffset
      BY <3>1 DEF OffsetWalk
    <3>2. CASE ~ByOffset
      <4>1. \A i, j \in DOMAIN seen : i < j => Before(seen[i], seen[j])
        BY <3>2 DEF KeyWalk, Order
      <4>2. \A x \in Rows : ~Before(x, x)
        BY <2>1, OrderLaws
      <4>3. QED  BY <2>2, <4>1, <4>2
    <3>3. QED  BY <3>1, <3>2
  <2>4. seen \in Bijection(1 .. Len(seen), Seen)
    <3>1. seen \in [1 .. Len(seen) -> Seen] /\ Seen = {seen[i] : i \in 1 .. Len(seen)}
      BY <2>1, <2>2 DEF Seen, ToSet
    <3>2. QED  BY <2>2, <2>3, <3>1 DEF Bijection, Injection, Surjection, IsInjective
  <2>5. IsFiniteSet(1 .. Len(seen)) /\ Cardinality(1 .. Len(seen)) = Len(seen)
    BY <2>2, FS_Interval
  <2>6. ExistsBijection(1 .. Len(seen), Seen)
    BY <2>4 DEF ExistsBijection
  <2>7. QED  BY <2>5, <2>6, FS_Bijection
<1>2. QED  BY TypedAlways, KeyAlways, OffsetAlways, <1>1, PTL

=============================================================================
