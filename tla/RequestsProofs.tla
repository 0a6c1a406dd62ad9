--------------------------- MODULE RequestsProofs ---------------------------
(***************************************************************************)
(* Theorems about what the client asks of lnd and what its callers learn,  *)
(* for any number of callers and of maps, any units of time, any width of  *)
(* lnd's integers, any list of lnd's and any size of its pages, whatever    *)
(* the callers ask and whatever lnd lacks.  They are theorems of AllSpec,  *)
(* the specification of the simple and the unary calls together.           *)
(***************************************************************************)
EXTENDS UnaryCalls, FiniteSetTheorems, SequenceTheorems, WellFoundedInduction, TLAPS

(***************************************************************************)
(* Induction, and what a fold computes.                                    *)
(***************************************************************************)

\* The order of the natural numbers, which has no infinite descent.
Less == OpToRel(<, Nat)

\* It is the order of the library's theorem.
LEMMA LessThan ==
    /\ IsWellFoundedOn(Less, Nat)
    /\ \A x, y \in Nat : <<x, y>> \in Less <=> x < y
<1>1. Less = {ss \in Nat \X Nat : ss[1] < ss[2]}
  BY Zenon DEF Less, OpToRel
<1>2. IsWellFoundedOn(Less, Nat)
  BY NatLessThanWellFounded, Zenon DEF Less
<1>3. QED
  BY <1>1, <1>2

\* A set of numbers has a least one.
LEMMA Least ==
    ASSUME NEW S \in SUBSET Nat, S # {}
    PROVE  \E n \in S : \A m \in S : n <= m
<1>1. IsWellFoundedOn(Less, Nat)
  BY LessThan
<1>2. \E n \in S : \A m \in S : ~ (<<m, n>> \in Less)
  BY <1>1, WFMin
<1>3. PICK n \in S : \A m \in S : ~ (<<m, n>> \in Less)
  BY <1>2
<1>4. \A m \in S : ~ (m < n)
  BY <1>3, LessThan
<1>5. QED
  BY <1>4

\* So a set that has zero and the successor of each of its numbers has all numbers.
LEMMA Induction ==
    ASSUME NEW S, 0 \in S, \A n \in Nat : n \in S => n + 1 \in S
    PROVE  Nat \subseteq S
<1>1. SUFFICES ASSUME Nat \ S # {} PROVE FALSE
  OBVIOUS
<1>2. PICK n \in Nat \ S : \A m \in Nat \ S : n <= m
  BY <1>1, Least
<1>3. n - 1 \in Nat /\ n - 1 \in S
  BY <1>2
<1>4. QED
  BY <1>3

\* A nonempty set of numbers that are at most n has a greatest one.
LEMMA Greatest ==
    ASSUME NEW n \in Nat, NEW S \in SUBSET (1 .. n), S # {}
    PROVE  /\ Sequence!Max(S) \in S
           /\ \A m \in S : m <= Sequence!Max(S)
<1> DEFINE T == {n - m : m \in S}
<1>0. \A m \in S : m \in Int /\ 1 <= m /\ m <= n
  OBVIOUS
<1>1. T \in SUBSET Nat /\ T # {}
  <2>1. \A m \in S : n - m \in Nat
    BY <1>0
  <2>2. QED
    BY <2>1
<1>2. PICK k \in T : \A m \in T : k <= m
  BY <1>1, Least
<1>3. PICK m \in S : k = n - m
  OBVIOUS
<1>4. \A i \in S : m >= i
  <2>1. \A i \in S : n - i \in T
    OBVIOUS
  <2>2. \A i \in S : n - m <= n - i
    BY <1>2, <1>3, <2>1
  <2>3. QED
    BY <1>0, <2>2
<1>5. QED
  BY <1>0, <1>4 DEF Sequence!Max

-----------------------------------------------------------------------------
(***************************************************************************)
(* Lists of numbers and of entries, for the pages below.                   *)
(***************************************************************************)

\* The numbers up to n are n.
LEMMA Count ==
    ASSUME NEW n \in Nat
    PROVE  IsFiniteSet(1 .. n) /\ Cardinality(1 .. n) = n
<1>1. 1 \in Int /\ n \in Int
  OBVIOUS
<1>2. IsFiniteSet(1 .. n) /\ Cardinality(1 .. n) = IF 1 > n THEN 0 ELSE n - 1 + 1
  BY <1>1, FS_Interval
<1>3. QED
  BY <1>2

\* A finite set of numbers has an enumeration in their order: that of a number is the
\* count of those that are not greater.
LEMMA Enumerations ==
    ASSUME NEW n \in Nat, NEW S \in SUBSET (1 .. n)
    PROVE  /\ IsFiniteSet(S) /\ Cardinality(S) \in Nat
           /\ \E s \in [1 .. Cardinality(S) -> S] :
                  \A j, k \in DOMAIN s : j < k => s[j] < s[k]
<1>1. IsFiniteSet(1 .. n)
  BY Count
<1>2. /\ IsFiniteSet(S) /\ Cardinality(S) \in Nat
      /\ \A T \in SUBSET S : /\ IsFiniteSet(T) /\ Cardinality(T) \in Nat
                             /\ Cardinality(T) <= Cardinality(S)
  BY <1>1, FS_Subset, FS_CardinalityType
<1> DEFINE upTo(i) == {j \in S : j <= i}
           rank == [i \in S |-> Cardinality(upTo(i))]
<1>3. ASSUME NEW i \in S
      PROVE  rank[i] \in 1 .. Cardinality(S)
  <2>1. upTo(i) \in SUBSET S /\ i \in upTo(i)
    OBVIOUS
  <2>2. Cardinality(upTo(i)) # 0
    BY <1>2, <2>1, FS_EmptySet
  <2>3. QED
    BY <1>2, <2>1, <2>2
<1>4. ASSUME NEW i \in S, NEW j \in S, i < j
      PROVE  rank[i] < rank[j]
  <2>1. /\ upTo(i) \in SUBSET upTo(j) /\ upTo(j) \in SUBSET S
        /\ j \in upTo(j) /\ j \notin upTo(i)
    <3>1. S \subseteq Int
      OBVIOUS
    <3>2. \A x \in Int : x <= i => x <= j
      BY <1>4, <3>1
    <3>3. j <= j /\ ~ j <= i
      BY <1>4, <3>1
    <3>4. QED
      BY <3>1, <3>2, <3>3
  <2>2. /\ Cardinality(upTo(i)) <= Cardinality(upTo(j))
        /\ Cardinality(upTo(i)) # Cardinality(upTo(j))
    BY <1>2, <2>1, FS_Subset
  <2>3. rank[i] \in Nat /\ rank[j] \in Nat
    BY <1>2, <2>1
  <2>4. QED
    BY <2>2, <2>3
<1>5. /\ rank \in [S -> 1 .. Cardinality(S)]
      /\ \A i, j \in S : i < j => rank[i] < rank[j]
  BY <1>3, <1>4
<1> HIDE DEF rank
<1>6. \A k \in 1 .. Cardinality(S) : \E i \in S : rank[i] = k
  <2>1. \A i, j \in S : rank[i] = rank[j] => i = j
    <3>1. \A i, j \in S : i = j \/ i < j \/ j < i
      OBVIOUS
    <3>2. \A i \in S : rank[i] \in Nat
      BY <1>2, <1>5
    <3>3. \A i, j \in S : i < j => rank[i] # rank[j]
      BY <1>5, <3>2
    <3>4. QED
      BY <3>1, <3>3
  <2>2. rank \in Injection(S, 1 .. Cardinality(S))
    BY <1>5, <2>1 DEF Injection, IsInjective
  <2>3. IsFiniteSet(1 .. Cardinality(S)) /\ Cardinality(1 .. Cardinality(S)) = Cardinality(S)
    BY <1>2, Count
  <2>4. rank \in Surjection(S, 1 .. Cardinality(S))
    BY <2>2, <2>3, FS_Injection
  <2>5. QED
    BY <2>4 DEF Surjection
<1>7. PICK s : s = [k \in 1 .. Cardinality(S) |-> CHOOSE i \in S : rank[i] = k]
  OBVIOUS
<1>8. \A k \in 1 .. Cardinality(S) : s[k] \in S /\ rank[s[k]] = k
  BY <1>6, <1>7
<1>9. s \in [1 .. Cardinality(S) -> S]
  BY <1>7, <1>8
<1>10. ASSUME NEW j \in 1 .. Cardinality(S), NEW k \in 1 .. Cardinality(S), j < k
       PROVE  s[j] < s[k]
  <2>1. s[j] \in S /\ s[k] \in S /\ rank[s[j]] = j /\ rank[s[k]] = k
    BY <1>8
  <2>2. s[j] < s[k] \/ s[j] = s[k] \/ s[k] < s[j]
    <3>1. S \subseteq Int
      OBVIOUS
    <3>2. s[j] \in Int /\ s[k] \in Int
      BY <2>1, <3>1
    <3>3. QED
      BY <3>2
  <2>3. s[j] # s[k]
    BY <1>10, <2>1
  <2>4. ~ s[k] < s[j]
    <3>1. s[k] < s[j] => k < j
      BY <1>5, <2>1
    <3>2. QED
      BY <1>10, <3>1
  <2>5. QED
    BY <2>2, <2>3, <2>4
<1>11. QED
  BY <1>2, <1>9, <1>10

\* So Ascending enumerates the whole set in order.
LEMMA AscendingIsInOrder ==
    ASSUME NEW n \in Nat, NEW S \in SUBSET (1 .. n)
    PROVE  LET s == Ascending(S)
           IN  /\ s \in Seq(S) /\ Len(s) = Cardinality(S) /\ Len(s) \in Nat
               /\ \A j, k \in 1 .. Len(s) : j < k => s[j] < s[k]
               /\ \A i \in S : \E k \in 1 .. Len(s) : s[k] = i
<1> DEFINE s == Ascending(S)
<1>1. IsFiniteSet(S) /\ Cardinality(S) \in Nat
  BY Enumerations
<1>2. /\ s \in [1 .. Cardinality(S) -> S]
      /\ \A j, k \in DOMAIN s : j < k => s[j] < s[k]
  BY Enumerations DEF Ascending
<1> HIDE DEF s
<1>3. s \in Seq(S) /\ Len(s) = Cardinality(S)
  BY <1>1, <1>2
<1>4. \A j, k \in 1 .. Cardinality(S) : j < k => s[j] < s[k]
  BY <1>2
<1>5. \A j, k \in 1 .. Cardinality(S) : s[j] = s[k] => j = k
  <2>1. \A j, k \in 1 .. Cardinality(S) : j = k \/ j < k \/ k < j
    BY <1>1
  <2>2. \A j \in 1 .. Cardinality(S) : s[j] \in Nat
    <3>1. S \subseteq Nat
      OBVIOUS
    <3>2. QED
      BY <1>2, <3>1
  <2>3. \A j, k \in 1 .. Cardinality(S) : j < k => s[j] # s[k]
    BY <1>4, <2>2
  <2>4. QED
    BY <2>1, <2>3
<1>6. s \in Injection(1 .. Cardinality(S), S)
  BY <1>2, <1>5 DEF Injection, IsInjective
<1>7. Cardinality(1 .. Cardinality(S)) = Cardinality(S)
  BY <1>1, Count
<1>8. s \in Surjection(1 .. Cardinality(S), S)
  BY <1>1, <1>6, <1>7, FS_Injection
<1>9. \A i \in S : \E k \in 1 .. Cardinality(S) : s[k] = i
  BY <1>8 DEF Surjection
<1>10. QED
  BY <1>1, <1>3, <1>4, <1>9 DEF s

\* The entries of a list are in the order of their indices.
InOrder(list) ==
    \A j, k \in DOMAIN list : j < k => list[j].index < list[k].index

\* What is left of a sequence when it is cut at its beginning or its end.
Cut(s, rest, back) ==
    IF back THEN SubSeq(s, rest + 1, Len(s)) ELSE SubSeq(s, 1, Len(s) - rest)

\* A sequence of numbers in their order.
Increasing(s) == \A j, k \in 1 .. Len(s) : j < k => s[j] < s[k]

\* A part of a sequence of numbers has all that is not beyond it at one end.
IsAnEnd(part, s, back) ==
    /\ Increasing(part) /\ (Len(s) > 0 => Len(part) > 0)
    /\ \A k \in 1 .. Len(s) :
           (IF back THEN s[k] >= part[1] ELSE s[k] <= part[Len(part)])
               => \E j \in 1 .. Len(part) : part[j] = s[k]

\* So has what is left when something is cut off an increasing sequence.
LEMMA Cuts ==
    ASSUME NEW S \in SUBSET Nat, NEW found \in Seq(S), Increasing(found),
           NEW rest \in 0 .. Len(found), Len(found) > 0 => rest < Len(found),
           NEW back \in BOOLEAN
    PROVE  /\ Cut(found, rest, back) \in Seq(S)
           /\ IsAnEnd(Cut(found, rest, back), found, back)
<1>0. PICK page : page = Cut(found, rest, back)
  OBVIOUS
<1>1. PICK n \in Nat : n = Len(found) /\ page = Cut(found, rest, back)
  BY <1>0, LenProperties
<1>2. PICK lo \in 1 .. n + 1, hi \in 0 .. n :
          /\ page = SubSeq(found, lo, hi) /\ lo <= hi + 1 /\ (n > 0 => lo <= hi)
          /\ IF back THEN hi = n ELSE lo = 1
  <2>1. CASE back
    <3>1. rest + 1 \in 1 .. n + 1 /\ rest + 1 <= n + 1 /\ (n > 0 => rest + 1 <= n)
      BY <1>1
    <3>2. page = SubSeq(found, rest + 1, n) /\ n \in 0 .. n
      BY <1>1, <2>1 DEF Cut
    <3>3. QED
      BY <2>1, <3>1, <3>2
  <2>2. CASE ~ back
    <3>1. n - rest \in 0 .. n /\ 1 <= n - rest + 1 /\ (n > 0 => 1 <= n - rest)
      BY <1>1
    <3>2. page = SubSeq(found, 1, n - rest) /\ 1 \in 1 .. n + 1
      BY <1>1, <2>2 DEF Cut
    <3>3. QED
      BY <2>2, <3>1, <3>2
  <2>3. QED
    BY <2>1, <2>2
<1>3. /\ lo \in Int /\ hi \in Int /\ 1 <= lo /\ lo <= n + 1 /\ 0 <= hi /\ hi <= n
      /\ \A k \in 1 .. n : found[k] \in S
  <2>1. \A k \in 1 .. n : found[k] \in S
    BY <1>1, LenProperties
  <2>2. QED
    BY <2>1
<1>4. /\ page \in Seq(S) /\ Len(page) = IF lo <= hi THEN hi - lo + 1 ELSE 0
      /\ \A k \in 1 .. hi - lo + 1 : page[k] = found[lo + k - 1]
  <2>1. \A k \in lo .. hi : found[k] \in S
    BY <1>3
  <2>2. SubSeq(found, lo, hi) \in Seq(S)
    BY <1>1, <1>3, <2>1
  <2>3. Len(SubSeq(found, lo, hi)) = IF lo <= hi THEN hi - lo + 1 ELSE 0
    BY <1>1, <1>3
  <2>4. \A k \in 1 .. hi - lo + 1 : SubSeq(found, lo, hi)[k] = found[lo + k - 1]
    BY <1>1, <1>3
  <2>5. QED
    BY <1>2, <2>2, <2>3, <2>4
<1>5. Len(page) = hi - lo + 1 /\ Len(page) \in Nat
  <2>1. lo <= hi + 1
    BY <1>2
  <2>2. lo <= hi \/ (lo = hi + 1 /\ hi - lo + 1 = 0)
    BY <1>3, <2>1
  <2>3. Len(page) = hi - lo + 1
    BY <1>4, <2>2
  <2>4. QED
    BY <1>3, <2>1, <2>3
<1>6. \A k \in 1 .. Len(page) : page[k] = found[lo + k - 1] /\ lo + k - 1 \in 1 .. n
  BY <1>3, <1>4, <1>5
<1>7. ASSUME NEW j \in 1 .. Len(page), NEW k \in 1 .. Len(page), j < k
      PROVE  page[j] < page[k]
  <2>1. lo + j - 1 < lo + k - 1
    BY <1>3, <1>5, <1>7
  <2>2. QED
    BY <1>1, <1>6, <2>1 DEF Increasing
<1>8. ASSUME NEW k \in 1 .. n,
             IF back THEN found[k] >= page[1] ELSE found[k] <= page[Len(page)]
      PROVE  \E j \in 1 .. Len(page) : page[j] = found[k]
  <2>1. lo <= hi /\ Len(page) >= 1 /\ 1 \in 1 .. Len(page) /\ Len(page) \in 1 .. Len(page)
    BY <1>2, <1>3, <1>5
  <2>2. page[1] = found[lo] /\ page[Len(page)] = found[hi]
    <3>1. lo + 1 - 1 = lo /\ lo + Len(page) - 1 = hi
      BY <1>3, <1>5
    <3>2. QED
      BY <1>6, <2>1, <3>1
  <2>3. lo \in 1 .. n /\ hi \in 1 .. n
    BY <1>3, <2>1
  <2>4. k \in lo .. hi
    <3>1. CASE back
      <4>1. ~ k < lo
        <5>1. k < lo => found[k] < found[lo]
          BY <1>1, <2>3 DEF Increasing
        <5>2. found[k] >= found[lo]
          BY <1>8, <2>2, <3>1
        <5>3. found[k] \in Nat /\ found[lo] \in Nat
          BY <1>3, <2>3
        <5>4. QED
          BY <5>1, <5>2, <5>3
      <4>2. QED
        BY <1>2, <2>3, <3>1, <4>1
    <3>2. CASE ~ back
      <4>1. ~ k > hi
        <5>1. k > hi => found[hi] < found[k]
          BY <1>1, <2>3 DEF Increasing
        <5>2. found[k] <= found[hi]
          BY <1>8, <2>2, <3>2
        <5>3. found[k] \in Nat /\ found[hi] \in Nat
          BY <1>3, <2>3
        <5>4. QED
          BY <5>1, <5>2, <5>3
      <4>2. QED
        BY <1>2, <2>3, <3>2, <4>1
    <3>3. QED
      BY <3>1, <3>2
  <2>5. k - lo + 1 \in 1 .. Len(page) /\ lo + (k - lo + 1) - 1 = k
    BY <1>3, <1>5, <2>4
  <2>6. page[k - lo + 1] = found[k]
    BY <1>6, <2>5
  <2>7. QED
    BY <2>5, <2>6
<1>9. n > 0 => Len(page) > 0
  BY <1>2, <1>3, <1>5
<1>10. QED
  BY <1>1, <1>4, <1>7, <1>8, <1>9 DEF IsAnEnd, Increasing

\* What lnd's pages are made of.
Entries == [index : Nat, record : Records]

\* A page for a request is of the list, in its order, has only wanted records that are
\* beyond the offset, and all of them up to its own end.
IsPageOf(rpc, beyond, page) ==
    /\ page.list \in Seq(Entries)
    /\ InOrder(page.list)
    /\ \A k \in DOMAIN page.list :
           /\ page.list[k].index \in DOMAIN records
           /\ beyond[page.list[k].index]
           /\ page.list[k].record = records[page.list[k].index]
    /\ page.list # <<>> =>
           /\ page.first = page.list[1].index
           /\ page.last = page.list[Len(page.list)].index
    /\ \A i \in DOMAIN records :
           /\ Wanted(rpc, records[i]) /\ beyond[i]
           /\ page.list # <<>> =>
                  IF rpc.reversed THEN i >= page.first ELSE i <= page.last
           => \E k \in DOMAIN page.list : page.list[k].index = i

\* lnd's page is the first of the wanted records that are beyond the offset, or the last
\* of them if it goes backwards, and empty only if there are none.
LEMMA PageIsRight ==
    ASSUME records \in Seq(Records), NEW rpc, rpc.max \in Nat \ {0},
           rpc.reversed \in BOOLEAN, NEW beyond,
           beyond = [i \in DOMAIN records |->
                        IF rpc.reversed THEN rpc.offset = 0 \/ i < rpc.offset
                                        ELSE i > rpc.offset]
    PROVE  IsPageOf(rpc, beyond, Page(rpc))
<1>1. PICK S : S = {i \in DOMAIN records : Wanted(rpc, records[i]) /\ beyond[i]}
  OBVIOUS
<1>2. S = {i \in DOMAIN records :
              /\ Wanted(rpc, records[i])
              /\ IF rpc.reversed THEN rpc.offset = 0 \/ i < rpc.offset
                                 ELSE i > rpc.offset}
  BY <1>1
<1>3. /\ Len(records) \in Nat /\ DOMAIN records = 1 .. Len(records)
      /\ \A i \in DOMAIN records : records[i] \in Records
  BY LenProperties
<1>4. S \in SUBSET (1 .. Len(records)) /\ S \in SUBSET Nat
  BY <1>1, <1>3
<1>5. PICK found : found = Ascending(S)
  OBVIOUS
<1>6. /\ found \in Seq(S) /\ Len(found) \in Nat
      /\ \A j, k \in 1 .. Len(found) : j < k => found[j] < found[k]
      /\ \A i \in S : \E k \in 1 .. Len(found) : found[k] = i
  BY <1>3, <1>4, <1>5, AscendingIsInOrder
<1>7. PICK rest : rest = IF Len(found) > rpc.max THEN Len(found) - rpc.max ELSE 0
  OBVIOUS
<1>8. rest \in 0 .. Len(found) /\ (Len(found) > 0 => rest < Len(found))
  <2>1. PICK n \in Nat, max \in Nat \ {0} : n = Len(found) /\ max = rpc.max
    BY <1>6
  <2>2. rest = IF n > max THEN n - max ELSE 0
    BY <1>7, <2>1
  <2>3. rest \in 0 .. n /\ (n > 0 => rest < n)
    BY <2>2
  <2>4. QED
    BY <2>1, <2>3
<1>9. PICK page : page = Cut(found, rest, rpc.reversed)
  OBVIOUS
<1>10. PICK list : list = [k \in DOMAIN page |->
                              [index |-> page[k], record |-> records[page[k]]]]
  OBVIOUS
<1>11. Page(rpc) = [list |-> list,
                    first |-> IF page = <<>> THEN 0 ELSE Head(page),
                    last |-> IF page = <<>> THEN 0 ELSE page[Len(page)]]
  BY <1>2, <1>5, <1>7, <1>9, <1>10 DEF Page, Cut
<1>12. page \in Seq(S) /\ IsAnEnd(page, found, rpc.reversed)
  <2>1. Increasing(found)
    BY <1>6 DEF Increasing
  <2>2. QED
    BY <1>4, <1>6, <1>8, <1>9, <2>1, Cuts
<1>13. /\ Len(page) \in Nat /\ DOMAIN page = 1 .. Len(page)
       /\ \A k \in 1 .. Len(page) : page[k] \in S
  BY <1>12, LenProperties
<1>14. \A k \in 1 .. Len(page) : /\ page[k] \in Nat /\ page[k] \in DOMAIN records
                                 /\ records[page[k]] \in Records
  BY <1>3, <1>4, <1>13
<1>15. /\ list \in Seq(Entries) /\ Len(list) = Len(page)
       /\ DOMAIN list = 1 .. Len(page)
  BY <1>10, <1>13, <1>14 DEF Entries
<1>16. \A k \in 1 .. Len(page) : /\ list[k].index = page[k]
                                 /\ list[k].record = records[page[k]]
  BY <1>10, <1>13
<1>17. list # <<>> => /\ Page(rpc).first = list[1].index
                      /\ Page(rpc).last = list[Len(list)].index
                      /\ Page(rpc).first = page[1] /\ Page(rpc).last = page[Len(page)]
  <2> SUFFICES ASSUME list # <<>>
               PROVE  /\ Page(rpc).first = list[1].index
                      /\ Page(rpc).last = list[Len(list)].index
                      /\ Page(rpc).first = page[1] /\ Page(rpc).last = page[Len(page)]
    OBVIOUS
  <2>1. Len(page) # 0 /\ page # <<>>
    BY <1>15
  <2>2. Head(page) = page[1] /\ 1 \in 1 .. Len(page) /\ Len(page) \in 1 .. Len(page)
    BY <1>12, <1>13, <2>1
  <2>3. Page(rpc).first = page[1] /\ Page(rpc).last = page[Len(page)]
    BY <1>11, <2>1, <2>2
  <2>4. QED
    BY <1>15, <1>16, <2>2, <2>3
<1>18. ASSUME NEW i \in DOMAIN records, Wanted(rpc, records[i]), beyond[i],
              list # <<>> => IF rpc.reversed THEN i >= Page(rpc).first
                                             ELSE i <= Page(rpc).last
       PROVE  \E k \in DOMAIN list : list[k].index = i
  <2>1. PICK k \in 1 .. Len(found) : found[k] = i
    BY <1>1, <1>6, <1>18
  <2>2. list # <<>>
    <3>1. Len(found) > 0
      BY <1>6, <2>1
    <3>2. Len(list) > 0
      BY <1>12, <1>15, <3>1 DEF IsAnEnd
    <3>3. QED
      BY <3>2
  <2>3. IF rpc.reversed THEN found[k] >= page[1] ELSE found[k] <= page[Len(page)]
    BY <1>17, <1>18, <2>1, <2>2
  <2>4. \E j \in 1 .. Len(page) : page[j] = found[k]
    BY <1>12, <2>1, <2>3 DEF IsAnEnd
  <2>5. QED
    BY <1>15, <1>16, <2>1, <2>4
<1>19. Page(rpc).list = list
  BY <1>11
<1>20. InOrder(list)
  BY <1>12, <1>15, <1>16 DEF InOrder, IsAnEnd, Increasing
<1>21. \A k \in DOMAIN list : /\ list[k].index \in DOMAIN records /\ beyond[list[k].index]
                              /\ list[k].record = records[list[k].index]
  BY <1>1, <1>13, <1>15, <1>16
<1>22. QED
  BY <1>15, <1>17, <1>18, <1>19, <1>20, <1>21 DEF IsPageOf

\* What a caller is shown of a record.
States == {"open", "done", "canceled", "strange"}
Details ==
    {"forwarded"} \cup [state : States, preimage : BOOLEAN]
        \cup [status : [state : States, preimage : BOOLEAN], preimage : BOOLEAN]
Shown == [index : Nat, is : Details]

\* The preimages that were shown of a record fit with it.
Fits(method, record, shown) ==
    method # "ForwardingHistory" => PreimageFits(method, record, shown)

\* What becomes of a record: one that is done stays as it is.
Becomes(record, later) ==
    (record.state = "done" => later = record) /\ later.amp = record.amp

LEMMA StaysFit ==
    ASSUME NEW method, NEW record, NEW later, NEW shown,
           Fits(method, record, shown), Becomes(record, later)
    PROVE  Fits(method, later, shown)
BY DEF Fits, Becomes, PreimageFits

LEMMA BecomesOnAndOn ==
    ASSUME NEW first, NEW next, NEW last, Becomes(first, next), Becomes(next, last)
    PROVE  Becomes(first, last)
BY DEF Becomes

\* A list has the entries of two others.
HasBoth(u, s, t) ==
    /\ \A k \in DOMAIN u : \/ \E j \in DOMAIN s : u[k] = s[j]
                           \/ \E j \in DOMAIN t : u[k] = t[j]
    /\ \A j \in DOMAIN s : \E k \in DOMAIN u : u[k] = s[j]
    /\ \A j \in DOMAIN t : \E k \in DOMAIN u : u[k] = t[j]

\* All of the first list is before all of the second.
AllBefore(s, t) == \A j \in DOMAIN s, k \in DOMAIN t : s[j].index < t[k].index

\* Two lists one after the other have the entries of both, and are in order if the second
\* begins after the end of the first.
LEMMA InOrderTogether ==
    ASSUME NEW S, \A x \in S : x.index \in Nat, NEW s \in Seq(S), NEW t \in Seq(S),
           InOrder(s), InOrder(t), AllBefore(s, t), NEW u, u = s \o t
    PROVE  u \in Seq(S) /\ InOrder(u) /\ HasBoth(u, s, t)
<1>1. PICK m \in Nat, n \in Nat : m = Len(s) /\ n = Len(t)
  BY LenProperties
<1>3. DOMAIN s = 1 .. m /\ DOMAIN t = 1 .. n
  BY <1>1, LenProperties
<1>4. /\ u \in Seq(S) /\ Len(u) = m + n
      /\ \A k \in 1 .. m + n : u[k] = IF k <= m THEN s[k] ELSE t[k - m]
  BY <1>1, ConcatProperties
<1>5. DOMAIN u = 1 .. m + n
  BY <1>4, LenProperties
<1>6. /\ \A k \in 1 .. m : k \in 1 .. m + n /\ u[k] = s[k]
      /\ \A k \in 1 .. n : m + k \in 1 .. m + n /\ u[m + k] = t[k]
  <2>1. ASSUME NEW k \in 1 .. m
        PROVE  k \in 1 .. m + n /\ u[k] = s[k]
    BY <1>4
  <2>2. ASSUME NEW k \in 1 .. n
        PROVE  m + k \in 1 .. m + n /\ u[m + k] = t[k]
    <3>1. m + k \in 1 .. m + n /\ ~ m + k <= m /\ m + k - m = k
      OBVIOUS
    <3>2. QED
      BY <1>4, <3>1
  <2>3. QED
    BY <2>1, <2>2
<1>7. ASSUME NEW k \in 1 .. m + n
      PROVE  \/ k \in 1 .. m /\ u[k] = s[k]
             \/ k - m \in 1 .. n /\ u[k] = t[k - m]
  <2>1. CASE k <= m
    BY <1>4, <2>1
  <2>2. CASE ~ k <= m
    BY <1>4, <2>2
  <2>3. QED
    BY <2>1, <2>2
<1>8. ASSUME NEW j \in 1 .. m + n, NEW k \in 1 .. m + n, j < k
      PROVE  u[j].index < u[k].index
  <2>1. CASE j \in 1 .. m /\ k \in 1 .. m
    BY <1>3, <1>6, <1>8, <2>1 DEF InOrder
  <2>2. CASE j \in 1 .. m /\ k - m \in 1 .. n
    <3>1. u[j] = s[j]
      BY <1>6, <2>2
    <3>2. u[k] = t[k - m]
      <4>1. u[m + (k - m)] = t[k - m]
        BY <1>6, <2>2
      <4>2. m + (k - m) = k
        BY <1>8
      <4>3. QED
        BY <4>1, <4>2
    <3>3. QED
      BY <1>3, <2>2, <3>1, <3>2 DEF AllBefore
  <2>3. CASE j - m \in 1 .. n /\ k - m \in 1 .. n
    <3>1. ~ j <= m /\ ~ k <= m /\ j - m < k - m
      <4>1. j \in Int /\ k \in Int /\ j < k
        BY <1>8
      <4>2. j - m >= 1 /\ k - m >= 1
        BY <2>3
      <4>3. QED
        BY <4>1, <4>2
    <3>2. u[j] = t[j - m] /\ u[k] = t[k - m]
      BY <1>4, <3>1
    <3>3. QED
      BY <1>3, <2>3, <3>1, <3>2 DEF InOrder
  <2>4. (j \in 1 .. m \/ j - m \in 1 .. n) /\ (k \in 1 .. m \/ k - m \in 1 .. n)
    BY <1>7
  <2>5. ~ (j - m \in 1 .. n /\ k \in 1 .. m)
    BY <1>8
  <2>6. QED
    BY <2>1, <2>2, <2>3, <2>4, <2>5
<1>9. InOrder(u)
  BY <1>5, <1>8 DEF InOrder
<1>10. \A k \in DOMAIN u : \/ \E j \in DOMAIN s : u[k] = s[j]
                           \/ \E j \in DOMAIN t : u[k] = t[j]
  BY <1>3, <1>5, <1>7
<1>11. /\ \A j \in DOMAIN s : \E k \in DOMAIN u : u[k] = s[j]
       /\ \A j \in DOMAIN t : \E k \in DOMAIN u : u[k] = t[j]
  BY <1>3, <1>5, <1>6
<1>12. QED
  BY <1>4, <1>9, <1>10, <1>11 DEF HasBoth

\* What is shown of a page is the page, and of its preimages what fits.
ShowsAll(method, result, list) ==
    /\ result \in Seq(Shown) /\ Len(result) = Len(list) /\ DOMAIN result = DOMAIN list
    /\ \A k \in DOMAIN list :
           /\ result[k].index = list[k].index
           /\ Fits(method, list[k].record, result[k].is)

\* A result that shows each entry of a page shows all of it.
LEMMA ShowingAll ==
    ASSUME NEW method, NEW list \in Seq(Entries), NEW is, NEW result,
           result = [k \in DOMAIN list |-> [index |-> list[k].index, is |-> is[k]]],
           \A k \in DOMAIN list : /\ is[k] \in Details
                                  /\ Fits(method, list[k].record, is[k])
    PROVE  ShowsAll(method, result, list)
<1>1. PICK n \in Nat : n = Len(list)
  BY LenProperties
<1>2. DOMAIN list = 1 .. n /\ \A k \in 1 .. n : list[k] \in Entries
  BY <1>1, LenProperties
<1>3. /\ DOMAIN result = 1 .. n
      /\ \A k \in 1 .. n : result[k] = [index |-> list[k].index, is |-> is[k]]
  BY <1>1, <1>2
<1>4. \A k \in 1 .. n : [index |-> list[k].index, is |-> is[k]] \in Shown
  BY <1>2 DEF Shown, Entries
<1>5. result \in Seq(Shown) /\ Len(result) = n
  BY <1>1, <1>2, <1>4
<1>6. \A k \in 1 .. n : result[k].index = list[k].index /\ result[k].is = is[k]
  BY <1>2, <1>3
<1>7. \A k \in 1 .. n : Fits(method, list[k].record, result[k].is)
  BY <1>2, <1>6
<1>8. QED
  BY <1>1, <1>2, <1>3, <1>5, <1>6, <1>7 DEF ShowsAll

\* So do the results of the three methods that list pages.
LEMMA ResultsOfPages ==
    ASSUME NEW page, NEW list \in Seq(Entries), list = page.list
    PROVE  /\ /\ ShowsAll("ForwardingHistory", ForwardingHistoryResult(page).list, list)
              /\ ForwardingHistoryResult(page).last = page.last
           /\ /\ ShowsAll("ListInvoices", ListInvoicesResult(page).list, list)
              /\ ListInvoicesResult(page).first = page.first
              /\ ListInvoicesResult(page).last = page.last
           /\ /\ ShowsAll("ListPayments", ListPaymentsResult(page).list, list)
              /\ ListPaymentsResult(page).first = page.first
              /\ ListPaymentsResult(page).last = page.last
<1>1. \A k \in DOMAIN list : list[k].record \in Records
  <2>1. \A k \in DOMAIN list : list[k] \in Entries
    BY LenProperties
  <2>2. QED
    BY <2>1 DEF Entries
<1>2. ShowsAll("ForwardingHistory", ForwardingHistoryResult(page).list, list)
  <2>1. PICK is : is = [k \in DOMAIN list |-> "forwarded"]
    OBVIOUS
  <2>2. \A k \in DOMAIN list :
            is[k] \in Details /\ Fits("ForwardingHistory", list[k].record, is[k])
    BY <2>1 DEF Details, Fits
  <2>3. ForwardingHistoryResult(page).list =
            [k \in DOMAIN list |-> [index |-> list[k].index, is |-> is[k]]]
    BY <2>1 DEF ForwardingHistoryResult
  <2>4. QED
    BY <2>2, <2>3, ShowingAll
<1>3. ShowsAll("ListInvoices", ListInvoicesResult(page).list, list)
  <2>1. PICK is : is = [k \in DOMAIN list |-> UnmarshalInvoice(list[k].record)]
    OBVIOUS
  <2>2. ASSUME NEW k \in DOMAIN list
        PROVE  is[k] \in Details /\ Fits("ListInvoices", list[k].record, is[k])
    <3>1. PICK r \in Records, preimage \in BOOLEAN :
              /\ r = list[k].record
              /\ preimage = (r.state = "done" /\ ~ r.amp)
              /\ preimage <=> r.state = "done" /\ ~ r.amp
      BY <1>1
    <3>2. is[k] = [state |-> r.state, preimage |-> preimage]
      BY <2>1, <3>1 DEF UnmarshalInvoice
    <3>3. is[k] \in Details
      BY <3>1, <3>2 DEF Details, Records, States
    <3>4. is[k].state = r.state /\ (is[k].preimage <=> preimage)
      BY <3>2
    <3>5. QED
      BY <3>1, <3>3, <3>4 DEF Fits, PreimageFits
  <2>3. ListInvoicesResult(page).list =
            [k \in DOMAIN list |-> [index |-> list[k].index, is |-> is[k]]]
    BY <2>1 DEF ListInvoicesResult, Unmarshal
  <2>4. QED
    BY <2>2, <2>3, ShowingAll
<1>4. ShowsAll("ListPayments", ListPaymentsResult(page).list, list)
  <2>1. PICK is : is = [k \in DOMAIN list |-> UnmarshalPayment(list[k].record)]
    OBVIOUS
  <2>2. ASSUME NEW k \in DOMAIN list
        PROVE  is[k] \in Details /\ Fits("ListPayments", list[k].record, is[k])
    <3>1. PICK r \in Records, sent \in BOOLEAN, preimage \in BOOLEAN :
              /\ r = list[k].record
              /\ sent = r.preimage
              /\ preimage = (r.state = "done" /\ r.preimage)
              /\ preimage <=> r.state = "done" /\ r.preimage
      BY <1>1 DEF Records
    <3>2. is[k] = [status |-> [state |-> r.state, preimage |-> preimage],
                   preimage |-> sent]
      BY <2>1, <3>1 DEF UnmarshalPayment, UnmarshallPaymentStatus
    <3>3. is[k] \in Details
      BY <3>1, <3>2 DEF Details, Records, States
    <3>4. /\ is[k].status.state = r.state /\ (is[k].status.preimage <=> preimage)
          /\ is[k].preimage <=> r.preimage
      BY <3>1, <3>2
    <3>5. QED
      BY <3>1, <3>3, <3>4 DEF Fits, PreimageFits
  <2>3. ListPaymentsResult(page).list =
            [k \in DOMAIN list |-> [index |-> list[k].index, is |-> is[k]]]
    BY <2>1 DEF ListPaymentsResult, Unmarshal
  <2>4. QED
    BY <2>2, <2>3, ShowingAll
<1>5. /\ ForwardingHistoryResult(page).last = page.last
      /\ ListInvoicesResult(page).first = page.first
      /\ ListInvoicesResult(page).last = page.last
      /\ ListPaymentsResult(page).first = page.first
      /\ ListPaymentsResult(page).last = page.last
  BY DEF ForwardingHistoryResult, ListInvoicesResult, ListPaymentsResult, Unmarshal
<1>6. QED
  BY <1>2, <1>3, <1>4, <1>5

\* What is beyond an offset: behind it, or before it for one who goes backwards.
Past(reversed, offset, i) ==
    IF reversed THEN offset = 0 \/ i < offset ELSE i > offset

\* All of a list is beyond an offset, or none of it is.
AreBeyond(reversed, offset, list) ==
    \A k \in DOMAIN list : list[k].index > 0 /\ Past(reversed, offset, list[k].index)

ArePassed(reversed, offset, list) ==
    \A k \in DOMAIN list : ~ Past(reversed, offset, list[k].index)

\* Where a page ends, and what has been seen with it.
End(reversed, list) == IF reversed THEN list[1].index ELSE list[Len(list)].index
Added(reversed, seen, list) == IF reversed THEN list \o seen ELSE seen \o list

\* Who adds a page that is beyond its offset to what it has seen, and goes on from the
\* end of the page, has seen what is not beyond the new offset, in order.
LEMMA PageIsAdded ==
    ASSUME NEW reversed \in BOOLEAN, NEW offset \in Nat, NEW seen \in Seq(Shown),
           NEW list \in Seq(Shown), list # <<>>, InOrder(seen), InOrder(list),
           AreBeyond(reversed, offset, list), ArePassed(reversed, offset, seen)
    PROVE  /\ End(reversed, list) \in Nat \ {0}
           /\ Added(reversed, seen, list) \in Seq(Shown)
           /\ InOrder(Added(reversed, seen, list))
           /\ HasBoth(Added(reversed, seen, list), seen, list)
           /\ ArePassed(reversed, End(reversed, list), Added(reversed, seen, list))
<1>0. PICK end, all : /\ end = End(reversed, list) /\ all = Added(reversed, seen, list)
                      /\ end = IF reversed THEN list[1].index ELSE list[Len(list)].index
                      /\ all = IF reversed THEN list \o seen ELSE seen \o list
  BY DEF End, Added
<1>1. PICK m \in Nat, n \in Nat : m = Len(list) /\ n = Len(seen)
  BY LenProperties
<1>2. /\ DOMAIN list = 1 .. m /\ DOMAIN seen = 1 .. n
      /\ \A k \in 1 .. m : list[k] \in Shown
      /\ \A k \in 1 .. n : seen[k] \in Shown
  BY <1>1, LenProperties
<1>3. /\ \A x \in Shown : x.index \in Nat
      /\ \A k \in 1 .. m : list[k].index \in Nat
      /\ \A k \in 1 .. n : seen[k].index \in Nat
  BY <1>2 DEF Shown
<1>4. m > 0 /\ 1 \in 1 .. m /\ m \in 1 .. m
  <2>1. m # 0
    BY <1>1
  <2>2. QED
    BY <2>1
<1>5. end = IF reversed THEN list[1].index ELSE list[m].index
  BY <1>0, <1>1
<1>6. end \in Nat \ {0}
  <2>1. list[1].index > 0 /\ list[m].index > 0
    BY <1>2, <1>4 DEF AreBeyond
  <2>2. list[1].index \in Nat \ {0} /\ list[m].index \in Nat \ {0}
    BY <1>3, <1>4, <2>1
  <2>3. QED
    BY <1>5, <2>2
<1>7. CASE reversed
  <2>1. \A j \in 1 .. m, k \in 1 .. n : list[j].index < seen[k].index
    <3>1. \A j \in 1 .. m, k \in 1 .. n :
              list[j].index < offset /\ ~ seen[k].index < offset
      BY <1>2, <1>7 DEF Past, AreBeyond, ArePassed
    <3>2. QED
      BY <1>3, <3>1
  <2>2. all = list \o seen /\ AllBefore(list, seen)
    BY <1>0, <1>2, <1>7, <2>1 DEF AllBefore
  <2>3. all \in Seq(Shown) /\ InOrder(all) /\ HasBoth(all, list, seen)
    BY <1>3, <2>2, InOrderTogether
  <2>4. \A j \in 1 .. m : ~ list[j].index < end
    <3>1. ASSUME NEW j \in 1 .. m
          PROVE  list[1].index < list[j].index \/ j = 1
      <4>1. j = 1 \/ 1 < j
        OBVIOUS
      <4>2. QED
        BY <1>2, <1>4, <4>1 DEF InOrder
    <3>2. end = list[1].index
      BY <1>5, <1>7
    <3>3. QED
      BY <1>3, <1>4, <3>1, <3>2
  <2>5. \A j \in 1 .. n : ~ seen[j].index < end
    <3>1. end = list[1].index
      BY <1>5, <1>7
    <3>2. QED
      BY <1>3, <1>4, <2>1, <3>1
  <2>6. ArePassed(reversed, end, all)
    <3>1. end # 0
      BY <1>6
    <3>2. QED
      BY <1>2, <1>7, <2>3, <2>4, <2>5, <3>1 DEF Past, ArePassed, HasBoth
  <2>7. QED
    BY ZenonT(60), <1>0, <1>6, <2>3, <2>6 DEF HasBoth
<1>8. CASE ~ reversed
  <2>1. \A j \in 1 .. n, k \in 1 .. m : seen[j].index < list[k].index
    <3>1. \A j \in 1 .. m, k \in 1 .. n :
              list[j].index > offset /\ ~ seen[k].index > offset
      BY <1>2, <1>8 DEF Past, AreBeyond, ArePassed
    <3>2. QED
      BY <1>3, <3>1
  <2>2. all = seen \o list /\ AllBefore(seen, list)
    BY <1>0, <1>2, <1>8, <2>1 DEF AllBefore
  <2>3. all \in Seq(Shown) /\ InOrder(all) /\ HasBoth(all, seen, list)
    BY <1>3, <2>2, InOrderTogether
  <2>4. \A j \in 1 .. m : ~ list[j].index > end
    <3>1. ASSUME NEW j \in 1 .. m
          PROVE  list[j].index < list[m].index \/ j = m
      <4>1. j = m \/ j < m
        OBVIOUS
      <4>2. QED
        BY <1>2, <1>4, <4>1 DEF InOrder
    <3>2. end = list[m].index
      BY <1>5, <1>8
    <3>3. QED
      BY <1>3, <1>4, <3>1, <3>2
  <2>5. \A j \in 1 .. n : ~ seen[j].index > end
    <3>1. end = list[m].index
      BY <1>5, <1>8
    <3>2. QED
      BY <1>3, <1>4, <2>1, <3>1
  <2>6. ArePassed(reversed, end, all)
    BY <1>2, <1>8, <2>3, <2>4, <2>5 DEF Past, ArePassed, HasBoth
  <2>7. QED
    BY ZenonT(60), <1>0, <1>6, <2>3, <2>6 DEF HasBoth
<1>9. QED
  BY <1>7, <1>8

-----------------------------------------------------------------------------
USE CallersAssumption, NoMapAssumption, UnitsAssumption, PowerAssumption,
    NoValueAssumption, AskedAssumption, UnaryAssumption

\* The methods of the calls that Requests models.
SimpleMethods ==
    {"SendPayment", "EstimateRouteFeeWithProbe", "MacaroonRecipe", "SignOutputRaw",
     "SignOutputRawKeyLocator", "NewBasicConn", "none"}

\* The types of what the calls are made of.
TypeOK ==
    /\ req \in Asked
    /\ at \in [Callers -> {"idle", "built", "keyed", "waiting", "sent", "refused",
                           "failed"}]
    /\ keySent \in [Maps -> Callers \cup {NoValue}]
    /\ own \in [Callers -> Callers \cup {NoValue}]
    /\ DOMAIN wire = Callers

\* Nothing simple waits for lnd.
WaitsForLnd(c) == at[c] = "waiting" => req[c].method \notin SimpleMethods

(***************************************************************************)
(* What a step does to a caller.                                           *)
(***************************************************************************)

\* A request with a simple method is one of its kind.
LEMMA KindsOfRequests ==
    ASSUME req \in Asked, NEW c \in Callers
    PROVE  /\ req[c].method = "SendPayment" => req[c] \in SendRequests
           /\ req[c].method = "EstimateRouteFeeWithProbe" => req[c] \in ProbeRequests
           /\ req[c].method \in {"SignOutputRaw", "SignOutputRawKeyLocator"} =>
                  req[c] \in SignRequests
           /\ req[c].method = "NewBasicConn" => req[c] \in ConnRequests
<1>1. req[c] \in SimpleRequests \cup UnaryRequests
  OBVIOUS
<1>2. req[c] \in UnaryRequests => req[c].method \notin SimpleMethods
  BY DEF UnaryRequests, PageRequests, ChannelRequests, LeaseRequests, SessionRequests,
         ListMethods, SimpleMethods
<1>3. req[c] \in SendRequests => req[c].method = "SendPayment"
  BY DEF SendRequests
<1>4. req[c] \in ProbeRequests => req[c].method = "EstimateRouteFeeWithProbe"
  BY DEF ProbeRequests
<1>5. req[c] \in RecipeRequests => req[c].method = "MacaroonRecipe"
  BY DEF RecipeRequests
<1>6. req[c] \in SignRequests =>
          req[c].method \in {"SignOutputRaw", "SignOutputRawKeyLocator"}
  BY DEF SignRequests
<1>7. req[c] \in ConnRequests => req[c].method = "NewBasicConn"
  BY DEF ConnRequests
<1>8. req[c] = NoRequest => req[c].method = "none"
  BY DEF NoRequest
<1>9. QED
  BY <1>1, <1>2, <1>3, <1>4, <1>5, <1>6, <1>7, <1>8 DEF SimpleRequests, SimpleMethods

\* The steps of a simple call, and those of a unary one, which only moves its caller
\* between making calls and waiting for them.
SimpleStep(c) ==
    \/ BuildRequest(c) \/ RefusePresetHash(c) \/ AddPreimage(c)
    \/ SendPaymentV2(c) \/ SendPaymentV2Fails(c)
    \/ EstimateRouteFeeWithProbe(c) \/ RefuseProbeTimeout(c)
    \/ MacaroonRecipe(c) \/ RefuseRecipe(c) \/ RecipeFails(c)
    \/ SignOutputRaw(c)
    \/ NewBasicConn(c) \/ RefuseBasicConn(c) \/ BasicConnFails(c)

UnaryStep(c) ==
    /\ req[c].method \notin SimpleMethods /\ at[c] \in {"idle", "waiting"}
    /\ \E place \in {"idle", "waiting"} : \E rpc :
          at' = [at EXCEPT ![c] = place] /\ wire' = [wire EXCEPT ![c] = rpc]
    /\ UNCHANGED <<req, keySent, own, listed>>

\* What asks lnd by a unary call touches no payment.
LEMMA AskIsUnary ==
    ASSUME NEW c \in Callers, Ask(c)
    PROVE  UnaryStep(c)
<1> USE DEF Call, UnaryStep, SimpleMethods
<1>1. CASE AskPage(c)
  BY <1>1 DEF AskPage, ListMethods
<1>2. CASE AskChannels(c)
  BY <1>2 DEF AskChannels, Looks
<1>3. CASE AskLease(c)
  BY <1>3 DEF AskLease
<1>4. CASE AskFunds(c)
  BY <1>4 DEF AskFunds
<1>5. CASE AskRelease(c)
  BY <1>5 DEF AskRelease, LeaseMethods
<1>6. CASE AskLeases(c)
  BY <1>6 DEF AskLeases, LeaseMethods
<1>7. CASE AskSession(c)
  BY <1>7 DEF AskSession
<1>8. ASSUME NEW method, NEW mayEnd, UseSession(c, method, mayEnd)
      PROVE  UnaryStep(c)
  BY <1>8 DEF UseSession
<1>9. QED
  BY <1>1, <1>2, <1>3, <1>4, <1>5, <1>6, <1>7, <1>8
     DEF Ask, MuSig2RegisterNonces, MuSig2Sign, MuSig2CombineSig, MuSig2Cleanup

\* Nor does the return of such a call.
LEMMA ReturnIsUnary ==
    ASSUME NEW c \in Callers, WaitsForLnd(c), Return(c) \/ GiveUp(c)
    PROVE  UnaryStep(c)
<1>1. at[c] = "waiting" /\ Returns(c)
  BY DEF Return, GiveUp, Answered, ReturnError, ReturnPage, PageDoesNotConvert,
         ReturnChannels, ChannelsDoNotConvert, ReturnLease, ReturnFunds,
         FundsDoNotConvert, ReturnRelease, ReturnLeases, ReturnSession,
         SessionDoesNotConvert, ReturnUse
<1>2. QED
  BY <1>1 DEF Returns, UnaryStep, WaitsForLnd

\* lnd changes nothing on the side of the client.
LEMMA LndIsApart ==
    ASSUME NEW m, Lnd(m)
    PROVE  UNCHANGED vars
BY DEF Lnd, Done, LndLists, LndListsChannels, LndLeases, LndFunds, LndReleases,
       LndListsLeases, LndCreates, LndUses, LndFails

\* So a step is one of these of some caller, or none at all.
LEMMA Steps ==
    ASSUME \A c \in Callers : WaitsForLnd(c), [AllNext]_allVars
    PROVE  UNCHANGED vars \/ \E c \in Callers : SimpleStep(c) \/ UnaryStep(c)
<1>1. CASE \E c \in Callers : Ask(c) \/ Return(c) \/ GiveUp(c)
  BY <1>1, AskIsUnary, ReturnIsUnary
<1>2. CASE \E m \in flight : Lnd(m)
  BY <1>2, LndIsApart
<1>3. CASE Next
  BY <1>3 DEF Next, SimpleStep
<1>4. CASE NewRecord \/ RecordEnds \/ ChannelOpens \/ ChannelCloses \/ Tick
  BY <1>4 DEF NewRecord, RecordEnds, ChannelOpens, ChannelCloses, Tick
<1>5. CASE UNCHANGED allVars
  BY <1>5 DEF allVars
<1>6. QED
  BY <1>1, <1>2, <1>3, <1>4, <1>5 DEF AllNext

\* Who is not the one to move has its place and what it has sent; nobody moves
\* lnd's list or the requests.
LEMMA Frame ==
    ASSUME TypeOK, NEW c \in Callers, SimpleStep(c) \/ UnaryStep(c)
    PROVE  /\ UNCHANGED <<req, listed>>
           /\ DOMAIN wire' = Callers
           /\ \A d \in Callers \ {c} : at'[d] = at[d] /\ wire'[d] = wire[d]
<1> USE DEF TypeOK
<1>1. CASE UnaryStep(c)
  BY <1>1 DEF UnaryStep
<1>2. CASE BuildRequest(c) \/ RefusePresetHash(c) \/ AddPreimage(c) \/ SendPaymentV2Fails(c)
  BY <1>2 DEF BuildRequest, RefusePresetHash, AddPreimage, SendPaymentV2Fails
<1>3. CASE SendPaymentV2(c)
  BY <1>3 DEF SendPaymentV2
<1>4. CASE EstimateRouteFeeWithProbe(c) \/ RefuseProbeTimeout(c)
  BY <1>4 DEF EstimateRouteFeeWithProbe, RefuseProbeTimeout
<1>5. CASE MacaroonRecipe(c) \/ RefuseRecipe(c) \/ RecipeFails(c)
  BY <1>5 DEF MacaroonRecipe, RefuseRecipe, RecipeFails
<1>6. CASE SignOutputRaw(c)
  BY <1>6 DEF SignOutputRaw
<1>7. CASE NewBasicConn(c)
  BY <1>7 DEF NewBasicConn
<1>8. CASE RefuseBasicConn(c) \/ BasicConnFails(c)
  BY <1>8 DEF RefuseBasicConn, BasicConnFails
<1>9. QED
  BY <1>1, <1>2, <1>3, <1>4, <1>5, <1>6, <1>7, <1>8 DEF SimpleStep

\* Every step of a caller keeps the types.
LEMMA TypeIsKept ==
    ASSUME TypeOK, NEW c \in Callers, SimpleStep(c) \/ UnaryStep(c)
    PROVE  TypeOK'
<1>1. req' = req /\ DOMAIN wire' = Callers
  BY Frame
<1>2. at' \in [Callers -> {"idle", "built", "keyed", "waiting", "sent", "refused",
                           "failed"}]
  BY DEF TypeOK, UnaryStep, SimpleStep, BuildRequest, RefusePresetHash, AddPreimage,
         SendPaymentV2, SendPaymentV2Fails, EstimateRouteFeeWithProbe,
         RefuseProbeTimeout, MacaroonRecipe, RefuseRecipe, RecipeFails, SignOutputRaw,
         NewBasicConn, RefuseBasicConn, BasicConnFails
<1>3. /\ keySent' \in [Maps -> Callers \cup {NoValue}]
      /\ own' \in [Callers -> Callers \cup {NoValue}]
  <2>1. CASE AddPreimage(c)
    BY <2>1 DEF TypeOK, AddPreimage
  <2>2. CASE UNCHANGED <<keySent, own>>
    BY <2>2 DEF TypeOK
  <2>3. QED
    BY <2>1, <2>2
       DEF UnaryStep, SimpleStep, BuildRequest, RefusePresetHash, SendPaymentV2,
           SendPaymentV2Fails, EstimateRouteFeeWithProbe, RefuseProbeTimeout,
           MacaroonRecipe, RefuseRecipe, RecipeFails, SignOutputRaw, NewBasicConn,
           RefuseBasicConn, BasicConnFails
<1>4. QED
  BY <1>1, <1>2, <1>3 DEF TypeOK

\* Only a caller of unary calls waits for lnd, after every step.
LEMMA WaitsIsKept ==
    ASSUME TypeOK, NEW c \in Callers, SimpleStep(c) \/ UnaryStep(c),
           \A d \in Callers : WaitsForLnd(d)
    PROVE  \A d \in Callers : WaitsForLnd(d)'
<1> SUFFICES ASSUME NEW d \in Callers
             PROVE  WaitsForLnd(d)'
  OBVIOUS
<1>1. req' = req /\ (d # c => at'[d] = at[d])
  BY Frame
<1>2. CASE d # c
  BY <1>1, <1>2 DEF WaitsForLnd
<1>3. CASE UnaryStep(c) /\ d = c
  BY <1>1, <1>3 DEF WaitsForLnd, UnaryStep
<1>4. CASE SimpleStep(c) /\ d = c
  <2>1. at'[c] # "waiting"
    BY <1>4 DEF TypeOK, SimpleStep, BuildRequest, RefusePresetHash, AddPreimage,
           SendPaymentV2, SendPaymentV2Fails, EstimateRouteFeeWithProbe,
           RefuseProbeTimeout, MacaroonRecipe, RefuseRecipe, RecipeFails, SignOutputRaw,
           NewBasicConn, RefuseBasicConn, BasicConnFails
  <2>2. QED
    BY <1>4, <2>1 DEF WaitsForLnd
<1>5. QED
  BY <1>2, <1>3, <1>4

-----------------------------------------------------------------------------
(* Keysend payments. *)

\* The value of the key that lnd will read for a payment.
Preimage(c) == IF req[c].records = NoMap THEN own[c] ELSE keySent[req[c].records]

\* A caller does not pass a map that a call of its own or another's is using.
Exclusive(c) ==
    InSend(c) /\ req[c].records \in Maps =>
        \A d \in Callers \ {c} : InSend(d) => req[d].records # req[c].records

\* From when its preimage is written until it is read a payment has its own.
HasItsPreimage(c) ==
    at[c] = "keyed" => /\ req[c].method = "SendPayment"
                       /\ req[c].keySend /\ ~ req[c].preset /\ Preimage(c) = c

\* A payment that was sent with key send has its own caller's preimage and hash.
SentItsPreimage(c) ==
    Sent(c, "SendPayment") /\ req[c].keySend /\ ~ req[c].invoice =>
        wire[c].preimage = c /\ wire[c].hash = c

\* A caller's preimage is in a map because its payment went ahead.
LeftByPayments(c) ==
    (\E m \in Maps : keySent[m] = c) => at[c] \in {"keyed", "sent", "failed"}

KeyInv(c) ==
    Exclusive(c) /\ HasItsPreimage(c) /\ SentItsPreimage(c) /\ LeftByPayments(c)

\* A caller uses the map that it was given.
LEMMA RecordsOfPayments ==
    ASSUME TypeOK, NEW c \in Callers, req[c].method = "SendPayment"
    PROVE  /\ req[c].records \in Maps \cup {NoMap}
           /\ req[c].keySend \in BOOLEAN /\ req[c].preset \in BOOLEAN
           /\ req[c].invoice \in BOOLEAN /\ req[c].timeout \in Int
BY KindsOfRequests DEF TypeOK, SendRequests

\* The steps that neither write to a map nor begin a payment.
LEMMA KeyedByOthers ==
    ASSUME TypeOK, NEW c \in Callers, NEW d \in Callers, UNCHANGED <<req, keySent, own>>,
           at'[d] = at[d] /\ wire'[d] = wire[d], KeyInv(d),
           \A e \in Callers : InSend(e)' => InSend(e)
    PROVE  KeyInv(d)'
<1>1. Exclusive(d)'
  BY DEF KeyInv, Exclusive
<1>2. HasItsPreimage(d)' /\ SentItsPreimage(d)' /\ LeftByPayments(d)'
  BY DEF KeyInv, HasItsPreimage, SentItsPreimage, LeftByPayments, Preimage, Sent
<1>3. QED
  BY <1>1, <1>2 DEF KeyInv

\* The step that puts a preimage into a map of records keeps what is said of
\* the keys of all callers, of those whose map it is, too.
LEMMA BuildKeepsKeys ==
    ASSUME TypeOK, NEW c \in Callers, BuildRequest(c), NEW d \in Callers,
           \A e \in Callers : KeyInv(e)
    PROVE  KeyInv(d)'
<1>1. /\ req[c].method = "SendPayment" /\ at[c] = "idle" /\ at'[c] = "built"
      /\ \A e \in Callers \ {c} : at'[e] = at[e]
      /\ UNCHANGED <<req, keySent, own, wire>>
  BY DEF BuildRequest, TypeOK
<1>2. \A e \in Callers \ {c} : InSend(e)' <=> InSend(e)
  BY <1>1 DEF InSend
<1>3. Exclusive(d)'
  <2>1. CASE d = c
    BY <1>1, <1>2, <2>1 DEF Exclusive, BuildRequest
  <2>2. CASE d # c
    BY <1>1, <1>2, <2>2 DEF Exclusive, BuildRequest, KeyInv
  <2>3. QED
    BY <2>1, <2>2
<1>4. LeftByPayments(d)'
  BY <1>1 DEF KeyInv, LeftByPayments
<1>5. HasItsPreimage(d)' /\ SentItsPreimage(d)'
  BY <1>1 DEF KeyInv, HasItsPreimage, SentItsPreimage, Preimage, Sent
<1>6. QED
  BY <1>3, <1>4, <1>5 DEF KeyInv

\* Writing to its map a payment disturbs no other, as no other uses the map.
LEMMA AddKeepsKeys ==
    ASSUME TypeOK, NEW c \in Callers, AddPreimage(c), NEW d \in Callers,
           \A e \in Callers : KeyInv(e)
    PROVE  KeyInv(d)'
<1>1. /\ req[c].method = "SendPayment" /\ at[c] = "built" /\ at'[c] = "keyed"
      /\ req[c].keySend /\ ~ req[c].preset
      /\ \A e \in Callers \ {c} : at'[e] = at[e]
      /\ UNCHANGED <<req, wire>>
  BY DEF AddPreimage, TypeOK
<1>2. \A e \in Callers : InSend(e)' <=> InSend(e)
  BY <1>1 DEF InSend
<1>3. req[c].records \in Maps \cup {NoMap}
  BY <1>1, RecordsOfPayments
<1>4. \A m \in Maps : keySent'[m] = IF m = req[c].records THEN c ELSE keySent[m]
  BY <1>3 DEF AddPreimage, TypeOK
<1>5. \A e \in Callers \ {c} : own'[e] = own[e]
  BY DEF AddPreimage, TypeOK
<1>6. Preimage(c)' = c
  BY <1>1, <1>3, <1>4 DEF AddPreimage, TypeOK, Preimage
<1>7. Exclusive(d)'
  BY <1>1, <1>2 DEF KeyInv, Exclusive
<1>8. HasItsPreimage(d)'
  <2>1. CASE d = c
    BY <1>1, <1>6, <2>1 DEF HasItsPreimage
  <2>2. CASE d # c /\ at[d] = "keyed"
    <3>1. req[d].method = "SendPayment" /\ Preimage(d) = d
      BY <2>2 DEF KeyInv, HasItsPreimage
    <3>2. req[d].records \in Maps \cup {NoMap}
      BY <3>1, RecordsOfPayments
    <3>3. req[d].records \in Maps => req[d].records # req[c].records
      BY <1>1, <2>2, <3>1 DEF KeyInv, Exclusive, InSend
    <3>4. Preimage(d)' = Preimage(d)
      BY <1>1, <1>4, <1>5, <2>2, <3>2, <3>3 DEF Preimage
    <3>5. QED
      BY <1>1, <2>2, <3>1, <3>4 DEF KeyInv, HasItsPreimage
  <2>3. CASE d # c /\ at[d] # "keyed"
    BY <1>1, <2>3 DEF HasItsPreimage
  <2>4. QED
    BY <2>1, <2>2, <2>3
<1>9. SentItsPreimage(d)'
  BY <1>1 DEF KeyInv, SentItsPreimage, Sent
<1>10. LeftByPayments(d)'
  <2>1. CASE d = c
    BY <1>1, <2>1 DEF LeftByPayments
  <2>2. CASE d # c
    BY <1>1, <1>4, <2>2 DEF KeyInv, LeftByPayments
  <2>3. QED
    BY <2>1, <2>2
<1>11. QED
  BY <1>7, <1>8, <1>9, <1>10 DEF KeyInv

\* The step that sends a payment keeps what is said of its key.
LEMMA SendKeepsKeys ==
    ASSUME TypeOK, NEW c \in Callers, SendPaymentV2(c), KeyInv(c)
    PROVE  KeyInv(c)'
<1>1. /\ req[c].method = "SendPayment" /\ at'[c] = "sent"
      /\ at[c] = IF req[c].keySend THEN "keyed" ELSE "built"
      /\ UNCHANGED <<req, keySent, own>>
  BY DEF SendPaymentV2, CanSend, TypeOK
<1>2. wire'[c].preimage = Preimage(c) /\ wire'[c].hash = PaymentHash(c)
  BY DEF SendPaymentV2, TypeOK, Preimage
<1>3. SentItsPreimage(c)'
  <2>1. req[c].keySend /\ ~ req[c].invoice => Preimage(c) = c /\ PaymentHash(c) = c
    BY <1>1 DEF KeyInv, HasItsPreimage, PaymentHash
  <2>2. QED
    BY <1>1, <1>2, <2>1 DEF SentItsPreimage
<1>4. Exclusive(c)' /\ HasItsPreimage(c)' /\ LeftByPayments(c)'
  BY <1>1 DEF Exclusive, HasItsPreimage, LeftByPayments, InSend
<1>5. QED
  BY <1>3, <1>4 DEF KeyInv

\* The steps of a call that write to no map and send no payment.
OtherSimpleStep(c) ==
    \/ RefusePresetHash(c) \/ SendPaymentV2Fails(c)
    \/ EstimateRouteFeeWithProbe(c) \/ RefuseProbeTimeout(c)
    \/ MacaroonRecipe(c) \/ RefuseRecipe(c) \/ RecipeFails(c)
    \/ SignOutputRaw(c)
    \/ NewBasicConn(c) \/ RefuseBasicConn(c) \/ BasicConnFails(c)

\* No other step touches a map.
LEMMA OtherSteps ==
    ASSUME TypeOK, NEW c \in Callers, OtherSimpleStep(c) \/ UnaryStep(c)
    PROVE  /\ UNCHANGED <<req, keySent, own>>
           /\ at'[c] \notin {"built", "keyed"}
           /\ req[c].method = "SendPayment" => at'[c] \in {"refused", "failed"}
           /\ at[c] \in {"idle", "waiting", "built"} \/ at'[c] = "failed"
<1> USE DEF TypeOK
<1>1. CASE UnaryStep(c)
  BY <1>1 DEF UnaryStep, SimpleMethods
<1>2. CASE RefusePresetHash(c) \/ SendPaymentV2Fails(c)
  BY <1>2 DEF RefusePresetHash, SendPaymentV2Fails
<1>3. CASE EstimateRouteFeeWithProbe(c) \/ RefuseProbeTimeout(c) \/ SignOutputRaw(c)
  BY <1>3 DEF EstimateRouteFeeWithProbe, RefuseProbeTimeout, SignOutputRaw
<1>4. CASE MacaroonRecipe(c) \/ RefuseRecipe(c) \/ RecipeFails(c)
  BY <1>4 DEF MacaroonRecipe, RefuseRecipe, RecipeFails
<1>5. CASE NewBasicConn(c) \/ RefuseBasicConn(c) \/ BasicConnFails(c)
  BY <1>5 DEF NewBasicConn, RefuseBasicConn, BasicConnFails
<1>6. QED
  BY <1>1, <1>2, <1>3, <1>4, <1>5 DEF OtherSimpleStep

\* So no other step takes a preimage from a caller.
LEMMA OtherStepsKeepKeys ==
    ASSUME TypeOK, NEW c \in Callers, OtherSimpleStep(c) \/ UnaryStep(c), KeyInv(c)
    PROVE  KeyInv(c)'
<1>1. /\ UNCHANGED <<req, keySent, own>>
      /\ at'[c] \notin {"built", "keyed"}
      /\ req[c].method = "SendPayment" => at'[c] \in {"refused", "failed"}
      /\ at[c] \in {"idle", "waiting", "built"} \/ at'[c] = "failed"
  BY OtherSteps
<1>2. LeftByPayments(c)'
  BY <1>1 DEF KeyInv, LeftByPayments
<1>3. Exclusive(c)' /\ HasItsPreimage(c)' /\ SentItsPreimage(c)'
  BY <1>1 DEF Exclusive, HasItsPreimage, SentItsPreimage, InSend, Sent
<1>4. QED
  BY <1>2, <1>3 DEF KeyInv

\* What is said of the keys holds after every step of a caller.
LEMMA KeysAreKept ==
    ASSUME TypeOK, NEW c \in Callers, SimpleStep(c) \/ UnaryStep(c),
           \A d \in Callers : KeyInv(d)
    PROVE  \A d \in Callers : KeyInv(d)'
<1> SUFFICES ASSUME NEW d \in Callers
             PROVE  KeyInv(d)'
  OBVIOUS
<1>1. CASE BuildRequest(c)
  BY <1>1, BuildKeepsKeys
<1>2. CASE AddPreimage(c)
  BY <1>2, AddKeepsKeys
<1>3. CASE SendPaymentV2(c) \/ OtherSimpleStep(c) \/ UnaryStep(c)
  <2>1. /\ UNCHANGED <<req, keySent, own>>
        /\ at'[c] \notin {"built", "keyed"}
    <3>1. CASE SendPaymentV2(c)
      BY <3>1 DEF SendPaymentV2, TypeOK
    <3>2. QED
      BY <1>3, <3>1, OtherSteps
  <2>2. \A e \in Callers \ {c} : at'[e] = at[e] /\ wire'[e] = wire[e]
    BY <1>3, Frame DEF SimpleStep, OtherSimpleStep
  <2>3. \A e \in Callers : InSend(e)' => InSend(e)
    BY <2>1, <2>2 DEF InSend
  <2>4. CASE d # c
    BY <2>1, <2>2, <2>3, <2>4, KeyedByOthers
  <2>5. CASE d = c
    BY <1>3, <2>5, SendKeepsKeys, OtherStepsKeepKeys
  <2>6. QED
    BY <2>4, <2>5
<1>4. QED
  BY <1>1, <1>2, <1>3 DEF SimpleStep, OtherSimpleStep

-----------------------------------------------------------------------------
(* Timeouts and descriptors. *)

\* How a call comes to be sent or refused.
LEMMA Outcomes ==
    ASSUME TypeOK, NEW c \in Callers, SimpleStep(c) \/ UnaryStep(c)
    PROVE  /\ Sent(c, "SendPayment")' => SendPaymentV2(c)
           /\ Sent(c, "EstimateRouteFeeWithProbe")' => EstimateRouteFeeWithProbe(c)
           /\ Sent(c, "MacaroonRecipe")' => MacaroonRecipe(c)
           /\ Sent(c, "SignOutputRaw")' \/ Sent(c, "SignOutputRawKeyLocator")' =>
                  SignOutputRaw(c)
           /\ at'[c] = "refused" /\ req[c].method = "EstimateRouteFeeWithProbe" =>
                  RefuseProbeTimeout(c)
           /\ at'[c] = "refused" /\ req[c].method = "MacaroonRecipe" => RefuseRecipe(c)
           /\ Sent(c, "NewBasicConn")' => NewBasicConn(c)
           /\ at'[c] = "refused" /\ req[c].method = "NewBasicConn" => RefuseBasicConn(c)
<1> USE DEF TypeOK, Sent
<1>1. req' = req
  BY Frame
<1>2. CASE UnaryStep(c)
  BY <1>1, <1>2 DEF UnaryStep, SimpleMethods
<1>3. CASE BuildRequest(c) \/ RefusePresetHash(c) \/ AddPreimage(c) \/ SendPaymentV2Fails(c)
  BY <1>1, <1>3
     DEF BuildRequest, RefusePresetHash, AddPreimage, SendPaymentV2Fails, CanSend
<1>4. CASE SendPaymentV2(c)
  BY <1>1, <1>4 DEF SendPaymentV2, CanSend
<1>5. CASE EstimateRouteFeeWithProbe(c) \/ RefuseProbeTimeout(c)
  BY <1>1, <1>5 DEF EstimateRouteFeeWithProbe, RefuseProbeTimeout
<1>6. CASE MacaroonRecipe(c) \/ RefuseRecipe(c) \/ RecipeFails(c)
  BY <1>1, <1>6 DEF MacaroonRecipe, RefuseRecipe, RecipeFails
<1>7. CASE SignOutputRaw(c)
  BY <1>1, <1>7 DEF SignOutputRaw
<1>8. CASE NewBasicConn(c) \/ RefuseBasicConn(c) \/ BasicConnFails(c)
  BY <1>1, <1>8 DEF NewBasicConn, RefuseBasicConn, BasicConnFails
<1>9. QED
  BY <1>2, <1>3, <1>4, <1>5, <1>6, <1>7, <1>8 DEF SimpleStep

\* The conversions are right by themselves, for all timeouts and all widths.
LEMMA PaymentTimeoutFits ==
    ASSUME NEW t \in Nat, NEW seconds \in PaymentTimeout(t)
    PROVE  seconds * Second <= t
<1> DEFINE whole == t \div Second
<1>1. whole \in Nat /\ whole * Second <= t
  OBVIOUS
<1>2. MinInt \in Int /\ MaxInt \in Int /\ MinInt <= 0
  BY DEF MinInt, MaxInt
<1>3. PaymentTimeout(t) = IF whole \in MinInt .. MaxInt THEN {whole} ELSE {MinInt, MaxInt}
  <2>1. ~ (t < 0)
    OBVIOUS
  <2>2. QED
    BY <2>1, Zenon DEF PaymentTimeout
<1> HIDE DEF whole
<1>4. CASE seconds = whole
  BY <1>1, <1>4
<1>5. CASE seconds = MinInt
  <2>1. MinInt * Second <= 0
    BY <1>2
  <2>2. QED
    BY <1>5, <2>1, <1>2
<1>6. CASE seconds = MaxInt /\ whole \notin MinInt .. MaxInt
  <2>1. MaxInt <= whole
    BY <1>1, <1>2, <1>6
  <2>2. MaxInt * Second <= whole * Second
    BY <1>1, <1>2, <2>1
  <2>3. MaxInt * Second \in Int /\ whole * Second \in Int
    BY <1>1, <1>2
  <2>4. QED
    BY <1>1, <1>6, <2>2, <2>3
<1>7. QED
  BY <1>3, <1>4, <1>5, <1>6

\* The timeout of a probe is rounded up to seconds that lnd can hold.
LEMMA ProbeTimeoutFits ==
    ASSUME NEW t \in Int, ProbeTimeoutValid(t)
    PROVE  /\ t >= 0 /\ ProbeTimeout(t) \in 0 .. MaxUint
           /\ ProbeTimeout(t) * Second - t \in 0 .. Second - 1
<1>1. MaxUint \in Int
  BY DEF MaxUint
<1>2. t >= 0 /\ t <= MaxUint * Second
  BY DEF ProbeTimeoutValid
<1>3. ProbeTimeout(t) \in Int /\ ProbeTimeout(t) * Second - t \in 0 .. Second - 1
  BY <1>2 DEF ProbeTimeout
<1>4. ProbeTimeout(t) >= 0
  BY <1>2 DEF ProbeTimeout
<1> DEFINE p == ProbeTimeout(t)
<1> HIDE DEF p
<1>5. p <= MaxUint
  <2>1. p * Second <= t + Second - 1
    BY <1>2, <1>3 DEF p
  <2>2. p * Second <= MaxUint * Second + Second - 1
    BY <1>1, <1>2, <1>3, <2>1 DEF p
  <2>3. p \in Int /\ Second \in Nat \ {0}
    BY <1>3 DEF p
  <2>4. p > MaxUint => p * Second >= (MaxUint + 1) * Second
    BY <1>1, <2>3
  <2>5. (MaxUint + 1) * Second = MaxUint * Second + Second
    BY <1>1, <2>3
  <2>6. MaxUint * Second \in Int /\ p * Second \in Int
    BY <1>1, <2>3
  <2>7. QED
    BY <1>1, <2>2, <2>3, <2>4, <2>5, <2>6
<1>6. QED
  BY <1>1, <1>2, <1>3, <1>4, <1>5 DEF p

\* One caller's part of TimeoutsFit and of KeyIsFound.
TimeoutFits(c) ==
    /\ Sent(c, "SendPayment") /\ req[c].timeout >= 0 =>
           wire[c].timeout * Second <= req[c].timeout
    /\ Sent(c, "EstimateRouteFeeWithProbe") =>
           /\ req[c].timeout >= 0 /\ wire[c].timeout \in 0 .. MaxUint
           /\ wire[c].timeout * Second - req[c].timeout \in 0 .. Second - 1
    /\ req[c].method = "EstimateRouteFeeWithProbe" /\ at[c] = "refused" =>
           req[c].timeout < 0 \/ req[c].timeout > MaxUint * Second

\* A descriptor that was sent is the one that the method makes.
SentDescriptor(c) ==
    LET d == KeyDescriptor(req[c].key, "public key" \in req[c].knows,
                           "locator" \in req[c].knows)
    IN  /\ Sent(c, "SignOutputRaw") => wire[c] = PartialDescriptor(d)
        /\ Sent(c, "SignOutputRawKeyLocator") => wire[c] = FullDescriptor(d)

\* The timeouts sent to lnd fit after every step of a caller.
LEMMA TimeoutsAreKept ==
    ASSUME TypeOK, NEW c \in Callers, SimpleStep(c) \/ UnaryStep(c), TimeoutFits(c)
    PROVE  TimeoutFits(c)'
<1>1. req' = req
  BY Frame
<1>2. ASSUME Sent(c, "SendPayment")', req[c].timeout >= 0
      PROVE  wire'[c].timeout * Second <= req[c].timeout
  <2>1. SendPaymentV2(c) /\ req[c].method = "SendPayment"
    BY <1>1, <1>2, Outcomes DEF Sent
  <2>2. req[c].timeout \in Nat
    BY <1>2, <2>1, RecordsOfPayments
  <2>3. wire'[c].timeout \in PaymentTimeout(req[c].timeout)
    BY <2>1 DEF SendPaymentV2, TypeOK
  <2>4. QED
    BY <2>2, <2>3, PaymentTimeoutFits
<1>3. ASSUME Sent(c, "EstimateRouteFeeWithProbe")'
      PROVE  /\ req[c].timeout >= 0 /\ wire'[c].timeout \in 0 .. MaxUint
             /\ wire'[c].timeout * Second - req[c].timeout \in 0 .. Second - 1
  <2>1. EstimateRouteFeeWithProbe(c) /\ req[c].method = "EstimateRouteFeeWithProbe"
    BY <1>1, <1>3, Outcomes DEF Sent
  <2>2. req[c].timeout \in Int
    BY <2>1, KindsOfRequests DEF TypeOK, ProbeRequests
  <2>3. /\ ProbeTimeoutValid(req[c].timeout)
        /\ wire'[c].timeout = ProbeTimeout(req[c].timeout)
    BY <2>1 DEF EstimateRouteFeeWithProbe, TypeOK
  <2>4. QED
    BY <2>2, <2>3, ProbeTimeoutFits
<1>4. ASSUME req[c].method = "EstimateRouteFeeWithProbe", at'[c] = "refused"
      PROVE  req[c].timeout < 0 \/ req[c].timeout > MaxUint * Second
  <2>1. RefuseProbeTimeout(c)
    BY <1>4, Outcomes
  <2>2. req[c].timeout \in Int
    BY <1>4, KindsOfRequests DEF TypeOK, ProbeRequests
  <2>3. MaxUint * Second \in Int
    BY DEF MaxUint
  <2>4. QED
    BY <2>1, <2>2, <2>3 DEF RefuseProbeTimeout, ProbeTimeoutValid
<1>5. QED
  BY <1>1, <1>2, <1>3, <1>4 DEF TimeoutFits

\* The descriptors sent to lnd identify their keys after every step.
LEMMA DescriptorsAreKept ==
    ASSUME TypeOK, NEW c \in Callers, SimpleStep(c) \/ UnaryStep(c), SentDescriptor(c)
    PROVE  SentDescriptor(c)'
<1>1. req' = req
  BY Frame
<1>2. ASSUME Sent(c, "SignOutputRaw")' \/ Sent(c, "SignOutputRawKeyLocator")'
      PROVE  SignOutputRaw(c)
  BY <1>2, Outcomes
<1>3. SignOutputRaw(c) => SentDescriptor(c)'
  BY <1>1 DEF SignOutputRaw, SentDescriptor, TypeOK, Sent
<1>4. QED
  BY <1>2, <1>3 DEF SentDescriptor

\* Either descriptor finds the key, as far as what the caller knows allows it.
LEMMA DescriptorsFind ==
    ASSUME NEW key \in Nat \X Nat, NEW knowsPubKey \in BOOLEAN,
           NEW knowsLocator \in BOOLEAN, knowsPubKey \/ knowsLocator
    PROVE  LET d == KeyDescriptor(key, knowsPubKey, knowsLocator)
           IN  /\ knowsLocator /\ (key # NoLocator \/ knowsPubKey) =>
                      KeyFound(FullDescriptor(d), {NoLocator}) = key
               /\ key # NoLocator \/ knowsPubKey =>
                      KeyFound(FullDescriptor(d), {key}) = key
               /\ KeyFound(PartialDescriptor(d), {key}) = key
<1> DEFINE d == KeyDescriptor(key, knowsPubKey, knowsLocator)
<1>1. key # NoValue /\ NoLocator # NoValue
  BY DEF NoLocator
<1>2. key = NoLocator <=> key[1] = 0 /\ key[2] = 0
  BY DEF NoLocator
<1>3. CASE knowsLocator
  <2>1. d.locator = key /\ d.pubKey = IF knowsPubKey THEN key ELSE NoValue
    BY <1>3 DEF KeyDescriptor
  <2>2. FullDescriptor(d).pubKey = d.pubKey
    BY DEF FullDescriptor
  <2>3. FullDescriptor(d).locator = IF key = NoLocator THEN NoValue ELSE key
    BY <1>2, <2>1 DEF FullDescriptor
  <2>4. /\ PartialDescriptor(d).pubKey = d.pubKey
        /\ PartialDescriptor(d).locator = IF knowsPubKey THEN NoValue ELSE key
    BY <1>1, <2>1 DEF PartialDescriptor
  <2>5. QED
    BY <1>1, <2>1, <2>2, <2>3, <2>4 DEF KeyFound
<1>4. CASE ~ knowsLocator
  <2>1. d.locator = NoLocator /\ d.pubKey = key
    BY <1>4 DEF KeyDescriptor
  <2>2. FullDescriptor(d).pubKey = key /\ FullDescriptor(d).locator = NoValue
    BY <2>1 DEF FullDescriptor, NoLocator
  <2>3. PartialDescriptor(d).pubKey = key /\ PartialDescriptor(d).locator = NoValue
    BY <1>1, <2>1 DEF PartialDescriptor
  <2>4. QED
    BY <1>1, <1>4, <2>2, <2>3 DEF KeyFound
<1>5. QED
  BY <1>3, <1>4

-----------------------------------------------------------------------------
(* Basic connections. *)

\* The fields that options set.
Fields == DOMAIN DefaultBasicClientOptions

\* The options of a kind among the first ones, and the value they give.
Of(options, S, field) == {i \in S : options[i].field = field}
Last(options, S, field) ==
    IF Of(options, S, field) = {} THEN DefaultBasicClientOptions[field]
    ELSE options[Sequence!Max(Of(options, S, field))].value

\* What an option does, and what a set of options has done if the last of each kind
\* counts.
SetField(bc, option) == [bc EXCEPT ![option.field] = option.value]

Applied(options, S) == [field \in Fields |-> Last(options, S, field)]

\* The latest option of a set overrides what the others have done.
LEMMA AppliedStep ==
    ASSUME NEW n \in Nat, NEW options, \A i \in 1 .. n : options[i].field \in Fields,
           NEW S \in SUBSET (1 .. n), S # {}
    PROVE  Applied(options, S) =
               SetField(Applied(options, S \ {Sequence!Max(S)}), options[Sequence!Max(S)])
<1>0. S \subseteq Int
  OBVIOUS
<1>1. PICK m \in 1 .. n : m = Sequence!Max(S) /\ m \in S /\ \A i \in S : i <= m
  BY Greatest
<1> DEFINE R == S \ {m}
<1>2. ASSUME NEW field \in Fields, options[m].field # field
      PROVE  Of(options, S, field) = Of(options, R, field)
  BY <1>2 DEF Of
<1>3. ASSUME NEW field \in Fields, options[m].field = field
      PROVE  Last(options, S, field) = options[m].value
  <2>1. m \in Of(options, S, field) /\ Of(options, S, field) \in SUBSET S
    BY <1>1, <1>3 DEF Of
  <2>2. Sequence!Max(Of(options, S, field)) \in S /\ m <= Sequence!Max(Of(options, S, field))
    BY <2>1, Greatest
  <2>3. \A i \in S : m <= i => i = m
    BY <1>0, <1>1
  <2>4. Sequence!Max(Of(options, S, field)) = m
    BY <2>2, <2>3
  <2>5. QED
    BY <2>1, <2>4 DEF Last
<1>4. \A field \in Fields : Last(options, S, field) =
         IF field = options[m].field THEN options[m].value ELSE Last(options, R, field)
  BY <1>2, <1>3 DEF Last
<1>5. SetField(Applied(options, R), options[m]) = [field \in Fields |->
         IF field = options[m].field THEN options[m].value ELSE Last(options, R, field)]
  BY DEF SetField, Applied
<1>6. QED
  BY <1>1, <1>4, <1>5 DEF Applied

\* The fold is, for any number of options, what the last of each kind say: that is a
\* solution of the fold's equation, and by induction the only one.
LEMMA ApplyIsApplied ==
    ASSUME NEW options, NEW n \in Nat, DOMAIN options = 1 .. n,
           \A i \in 1 .. n : options[i].field \in Fields
    PROVE  ApplyBasicClientOptions(options) = Applied(options, 1 .. n)
<1> DEFINE Eq(iter) == iter = [s \in SUBSET (1 .. n) |->
                                IF s = {} THEN DefaultBasicClientOptions
                                ELSE SetField(iter[s \ {Sequence!Max(s)}], options[Sequence!Max(s)])]
           iter == CHOOSE it : Eq(it)
<1>1. ApplyBasicClientOptions(options) = iter[1 .. n]
  BY Zenon DEF ApplyBasicClientOptions, Sequence!FoldLeft, Sequence!MapThenFoldSet, SetField
<1>2. Eq([s \in SUBSET (1 .. n) |-> Applied(options, s)])
  <2> DEFINE it == [s \in SUBSET (1 .. n) |-> Applied(options, s)]
  <2>1. Applied(options, {}) = DefaultBasicClientOptions
    BY DEF Applied, Last, Of, Fields, DefaultBasicClientOptions
  <2>2. ASSUME NEW S \in SUBSET (1 .. n), S # {}
        PROVE  it[S] = SetField(it[S \ {Sequence!Max(S)}], options[Sequence!Max(S)])
    BY <2>2, AppliedStep
  <2>3. QED
    BY <2>1, <2>2
<1>3. Eq(iter)
  BY <1>2
<1> HIDE DEF iter
<1>4. /\ iter[{}] = DefaultBasicClientOptions
      /\ \A S \in SUBSET (1 .. n) : S # {} =>
            iter[S] = SetField(iter[S \ {Sequence!Max(S)}], options[Sequence!Max(S)])
  BY <1>3
<1> HIDE DEF Eq
<1> DEFINE Right == {k \in Nat : k <= n => iter[1 .. k] = Applied(options, 1 .. k)}
<1>5. 0 \in Right
  <2>1. 1 .. 0 = {}
    OBVIOUS
  <2>2. Applied(options, {}) = DefaultBasicClientOptions
    BY DEF Applied, Last, Of, Fields, DefaultBasicClientOptions
  <2>3. QED
    BY <1>4, <2>1, <2>2
<1>6. ASSUME NEW k \in Nat, k \in Right
      PROVE  k + 1 \in Right
  <2>1. SUFFICES ASSUME k + 1 <= n
                 PROVE  iter[1 .. k + 1] = Applied(options, 1 .. k + 1)
    OBVIOUS
  <2>2. 1 .. k + 1 \in SUBSET (1 .. n) /\ 1 .. k + 1 # {}
    <3>1. k + 1 \in 1 .. k + 1 /\ \A i \in 1 .. k + 1 : i \in 1 .. n
      BY <2>1
    <3>2. QED
      BY <3>1
  <2>3. Sequence!Max(1 .. k + 1) = k + 1
    <3>1. /\ Sequence!Max(1 .. k + 1) \in 1 .. k + 1
          /\ \A m \in 1 .. k + 1 : m <= Sequence!Max(1 .. k + 1)
      BY <2>2, Greatest, Zenon
    <3>2. k + 1 \in 1 .. k + 1 /\ \A m \in 1 .. k + 1 : k + 1 <= m => m = k + 1
      OBVIOUS
    <3>3. QED
      BY <3>1, <3>2
  <2>4. (1 .. k + 1) \ {k + 1} = 1 .. k
    OBVIOUS
  <2>5. iter[1 .. k] = Applied(options, 1 .. k)
    BY <1>6, <2>1
  <2>6. iter[1 .. k + 1] = SetField(iter[1 .. k], options[k + 1])
    BY <1>4, <2>2, <2>3, <2>4
  <2>7. Applied(options, 1 .. k + 1) = SetField(Applied(options, 1 .. k), options[k + 1])
    <3>1. Applied(options, 1 .. k + 1) =
             SetField(Applied(options, (1 .. k + 1) \ {Sequence!Max(1 .. k + 1)}),
                      options[Sequence!Max(1 .. k + 1)])
      BY <2>2, AppliedStep, Zenon
    <3>2. QED
      BY <3>1, <2>3, <2>4, Zenon
  <2>8. QED
    BY <2>5, <2>6, <2>7
<1>7. Nat \subseteq Right
  BY <1>5, <1>6, Induction
<1>8. QED
  BY <1>1, <1>7

\* A basic connection is what the folded options make of it, and is refused only if
\* these contradict each other.
ConnectionFits(c) ==
    LET bc == BasicOptions(c)
    IN  /\ Sent(c, "NewBasicConn") =>
               /\ ~ BasicContradiction(c)
               /\ wire[c].trusts = TLSSource(bc.tlsData, req[c].tlsPath,
                                             bc.insecure # "", bc.systemCerts # "")
               /\ wire[c].macaroon = MacaroonSource(bc, req[c].macDir)
        /\ req[c].method = "NewBasicConn" /\ at[c] = "refused" => BasicContradiction(c)

\* The last option of a kind is the one with the greatest index.
LEMMA LastIsGreatest ==
    ASSUME NEW n \in Nat, NEW S \in SUBSET (1 .. n), S # {}
    PROVE  (CHOOSE i \in S : \A j \in S : j <= i) = Sequence!Max(S)
<1> DEFINE last == CHOOSE i \in S : \A j \in S : j <= i
<1>1. Sequence!Max(S) \in S /\ \A j \in S : j <= Sequence!Max(S)
  BY Greatest
<1>2. last \in S /\ \A j \in S : j <= last
  BY <1>1
<1> HIDE DEF last
<1>3. last \in Int /\ Sequence!Max(S) \in Int
  <2>1. \A i \in S : i \in Int
    OBVIOUS
  <2>2. QED
    BY <1>1, <1>2, <2>1
<1>4. last <= Sequence!Max(S) /\ Sequence!Max(S) <= last
  BY <1>1, <1>2
<1>5. last = Sequence!Max(S)
  BY <1>3, <1>4
<1>6. QED
  BY <1>5 DEF last

\* What the options come to: each field has what the last option of its kind gives,
\* and the two flags are set if any option sets them.
LEMMA OptionsComeTo ==
    ASSUME NEW c \in Callers, req[c].options \in Seq(BasicClientOption)
    PROVE  LET bc == BasicOptions(c)
           IN  /\ bc.tlsData = Finally(c, "tlsData", "")
               /\ bc.macData = Finally(c, "macData", "")
               /\ bc.macFilename = Finally(c, "macFilename", AdminServiceMac)
               /\ bc.insecure # "" <=> Given(c, "insecure") # {}
               /\ bc.systemCerts # "" <=> Given(c, "systemCerts") # {}
<1> DEFINE options == req[c].options
           n == Len(options)
           bc == BasicOptions(c)
<1>1. /\ n \in Nat /\ DOMAIN options = 1 .. n
      /\ \A i \in 1 .. n : options[i] \in BasicClientOption
  BY LenProperties, ElementOfSeq
<1>2. \A option \in BasicClientOption : option.field \in Fields
  BY DEF BasicClientOption, Fields, DefaultBasicClientOptions, Insecure, SystemCerts
<1>3. bc = Applied(options, 1 .. n)
  BY <1>1, <1>2, ApplyIsApplied DEF BasicOptions
<1>4. /\ Fields = {"macFilename", "tlsData", "macData", "insecure", "systemCerts"}
      /\ DefaultBasicClientOptions.insecure = ""
      /\ DefaultBasicClientOptions.systemCerts = ""
  BY DEF Fields, DefaultBasicClientOptions
<1>5. \A field \in Fields : bc[field] = Last(options, 1 .. n, field)
  BY <1>3 DEF Applied
<1>6. \A field : Of(options, 1 .. n, field) = Given(c, field)
                 /\ Given(c, field) \in SUBSET (1 .. n)
  BY <1>1 DEF Of, Given
<1> HIDE DEF options, n, bc
<1>7. \A field \in Fields :
         bc[field] = Finally(c, field, DefaultBasicClientOptions[field])
  <2> TAKE field \in Fields
  <2>1. CASE Given(c, field) = {}
    BY <1>5, <1>6, <2>1 DEF Last, Finally
  <2>2. CASE Given(c, field) # {}
    <3>1. (CHOOSE i \in Given(c, field) : \A j \in Given(c, field) : j <= i)
              = Sequence!Max(Given(c, field))
      BY <1>1, <1>6, <2>2, LastIsGreatest, Zenon
    <3>2. Finally(c, field, DefaultBasicClientOptions[field])
              = options[Sequence!Max(Given(c, field))].value
      BY <2>2, <3>1, Zenon DEF Finally, options
    <3>3. Last(options, 1 .. n, field) = options[Sequence!Max(Given(c, field))].value
      BY <1>6, <2>2, Zenon DEF Last
    <3>4. QED
      BY <1>5, <3>2, <3>3
  <2>3. QED
    BY <2>1, <2>2
<1>8. \A field \in {"insecure", "systemCerts"} : bc[field] # "" <=> Given(c, field) # {}
  <2> TAKE field \in {"insecure", "systemCerts"}
  <2>1. field \in Fields /\ DefaultBasicClientOptions[field] = ""
    BY <1>4
  <2>2. CASE Given(c, field) = {}
    BY <1>5, <1>6, <2>1, <2>2 DEF Last
  <2>3. CASE Given(c, field) # {}
    <3>1. Sequence!Max(Given(c, field)) \in Given(c, field)
      BY <1>1, <1>6, <2>3, Greatest
    <3>2. PICK i \in 1 .. n : i = Sequence!Max(Given(c, field)) /\ options[i].field = field
      BY <1>6, <3>1 DEF Given, options
    <3>3. options[i].value = "TRUE"
      BY <1>1, <3>2 DEF BasicClientOption, Insecure, SystemCerts
    <3>4. QED
      BY <1>5, <1>6, <2>1, <2>3, <3>2, <3>3 DEF Last
  <2>4. QED
    BY <2>2, <2>3
<1>9. QED
  BY <1>4, <1>7, <1>8 DEF DefaultBasicClientOptions, bc

\* Every step of a caller keeps that.
LEMMA ConnectionsAreKept ==
    ASSUME TypeOK, NEW c \in Callers, SimpleStep(c) \/ UnaryStep(c), ConnectionFits(c)
    PROVE  ConnectionFits(c)'
<1> DEFINE bc == BasicOptions(c)
<1>1. req' = req /\ (BasicContradiction(c)' <=> BasicContradiction(c)) /\ bc' = bc
  BY Frame DEF BasicContradiction, BasicOptions
<1>2. ASSUME Sent(c, "NewBasicConn")'
      PROVE  /\ ~ BasicContradiction(c)
             /\ wire'[c].trusts = TLSSource(bc.tlsData, req[c].tlsPath,
                                            bc.insecure # "", bc.systemCerts # "")
             /\ wire'[c].macaroon = MacaroonSource(bc, req[c].macDir)
  <2>1. NewBasicConn(c)
    BY <1>1, <1>2, Outcomes DEF Sent
  <2>2. QED
    BY <2>1 DEF NewBasicConn, TypeOK
<1>3. ASSUME req[c].method = "NewBasicConn", at'[c] = "refused"
      PROVE  BasicContradiction(c)
  <2>1. RefuseBasicConn(c)
    BY <1>3, Outcomes
  <2>2. QED
    BY <2>1 DEF RefuseBasicConn
<1> HIDE DEF bc
<1>4. QED
  BY <1>1, <1>2, <1>3 DEF ConnectionFits, bc, Sent

-----------------------------------------------------------------------------
(* Recipes. *)

\* The names of RPCs and of methods go back and forth: a method that has an RPC
\* of another name is looked up under it,
LEMMA RpcNamesAreRenames ==
    ASSUME NEW method \in DOMAIN RpcNames, method \notin Misnamed
    PROVE  method \in DOMAIN Renames /\ Renames[method] = RpcNames[method]
BY DEF RpcNames, Renames, Misnamed

\* and only under a name it has;
LEMMA RenamesAreRpcNames ==
    ASSUME NEW method \in DOMAIN Renames
    PROVE  method \in DOMAIN RpcNames \/ method = "ConfirmedWalletBalance"
BY DEF RpcNames, Renames

\* a misnamed method is not renamed.
LEMMA MisnamedAreNotRenamed ==
    ASSUME NEW method \in Misnamed
    PROVE  /\ method \notin DOMAIN Renames
           /\ method \notin {"RawClientWithMacAuth", "PayInvoice"}
BY DEF Renames, Misnamed

\* Where the special methods are.
LEMMA SpecialMethods ==
    ASSUME NEW pkg \in Supported, NEW method \in Methods[pkg]
    PROVE  /\ method # "ConfirmedWalletBalance"
           /\ method = "PayInvoice" => pkg = "lnrpc"
<1>1. pkg = "lnrpc" => Methods[pkg] = LightningMethods
  BY DEF Methods
<1>2. pkg # "lnrpc" =>
          Methods[pkg] \in {ChainNotifierMethods, InvoicesMethods, RouterMethods,
                            SignerMethods, VersionerMethods, WalletKitMethods,
                            WatchtowerClientMethods}
  BY DEF Methods, Supported
<1>3. "ConfirmedWalletBalance" \notin LightningMethods
  BY DEF LightningMethods
<1>4. \A set \in {ChainNotifierMethods, InvoicesMethods, RouterMethods, SignerMethods,
                  VersionerMethods, WalletKitMethods, WatchtowerClientMethods} :
          "ConfirmedWalletBalance" \notin set /\ "PayInvoice" \notin set
  BY DEF ChainNotifierMethods, InvoicesMethods, RouterMethods, SignerMethods,
         VersionerMethods, WalletKitMethods, WatchtowerClientMethods
<1>5. QED
  BY <1>1, <1>2, <1>3, <1>4

\* The tables name what the methods call, but for the misnamed ones.
LEMMA TablesAgree ==
    ASSUME NEW pkg \in Supported, NEW method \in Methods[pkg]
    PROVE  LooksUp(pkg, method) =
               IF method \in Misnamed THEN {<<pkg, method>>} ELSE Calls(pkg, method)
<1>1. CASE method = "RawClientWithMacAuth"
  <2>1. method \notin DOMAIN Renames \cup Misnamed
    BY <1>1 DEF Renames, Misnamed
  <2>2. QED
    BY <1>1, <2>1 DEF LooksUp, Calls, Rename, Ignores
<1>2. CASE method = "PayInvoice"
  <2>1. method \notin DOMAIN Renames \cup Misnamed
    BY <1>2 DEF Renames, Misnamed
  <2>2. pkg = "lnrpc"
    BY <1>2, SpecialMethods
  <2>3. QED
    BY <1>2, <2>1, <2>2 DEF LooksUp, Calls, Rename, Ignores, MethodOverrides
<1>3. CASE method \in Misnamed
  <2>1. method \notin {"RawClientWithMacAuth", "PayInvoice"} \cup DOMAIN Renames
    BY <1>3, MisnamedAreNotRenamed
  <2>2. QED
    BY <1>3, <2>1 DEF LooksUp, Rename, Ignores, MethodOverrides
<1>4. CASE method \notin {"RawClientWithMacAuth", "PayInvoice"} \cup Misnamed
  <2>1. method # "ConfirmedWalletBalance"
    BY SpecialMethods
  <2>2. MethodOverrides(pkg, method) = {}
    BY <1>4 DEF MethodOverrides
  <2>3. CASE method \in DOMAIN RpcNames
    <3>1. Rename(method) = RpcNames[method]
      BY <1>4, <2>3, RpcNamesAreRenames DEF Rename
    <3>2. RpcNames[method] \notin Ignores
      BY <2>3 DEF RpcNames, Ignores
    <3>3. QED
      BY <1>4, <2>2, <2>3, <3>1, <3>2 DEF LooksUp, Calls
  <2>4. CASE method \notin DOMAIN RpcNames
    <3>1. Rename(method) = method
      BY <2>1, <2>4, RenamesAreRpcNames DEF Rename
    <3>2. QED
      BY <1>4, <2>2, <2>4, <3>1 DEF LooksUp, Calls, Ignores
  <2>5. QED
    BY <2>3, <2>4
<1>5. QED
  BY <1>1, <1>2, <1>3, <1>4

\* What a recipe of some packages has to name.
RightOf(packages) == UNION {NamedRight(pkg) : pkg \in packages}
StandInsOf(packages) == UNION {StandIns(pkg) : pkg \in packages}
LooksUpOf(packages) == UNION {LooksUpAll(pkg) : pkg \in packages}

\* A recipe names what its packages call, and what stands in for the misnamed.
LEMMA LookedUpAreCalled ==
    ASSUME NEW packages \in SUBSET Supported
    PROVE  LooksUpOf(packages) = RightOf(packages) \cup StandInsOf(packages)
<1>1. ASSUME NEW pkg \in Supported
      PROVE  LooksUpAll(pkg) = NamedRight(pkg) \cup StandIns(pkg)
  <2>1. LooksUpAll(pkg) \subseteq NamedRight(pkg) \cup StandIns(pkg)
    BY TablesAgree DEF LooksUpAll, NamedRight, StandIns
  <2>2. NamedRight(pkg) \cup StandIns(pkg) \subseteq LooksUpAll(pkg)
    BY TablesAgree DEF LooksUpAll, NamedRight, StandIns
  <2>3. QED
    BY <2>1, <2>2
<1>2. QED
  BY <1>1 DEF LooksUpOf, RightOf, StandInsOf

\* More RPCs demand more.
LEMMA DemandsGrow ==
    ASSUME NEW l, NEW all, NEW some, some \subseteq all
    PROVE  Demanded(some, l) \subseteq Demanded(all, l)
BY DEF Demanded

\* One caller's part of RecipeIsRight.
RecipeFits(c) ==
    req[c].method = "MacaroonRecipe" =>
        LET known == req[c].packages \cap Supported
            right == UNION {NamedRight(pkg) : pkg \in known}
            standIns == UNION {StandIns(pkg) : pkg \in known}
        IN  /\ at[c] = "sent" =>
                   /\ req[c].packages \subseteq Supported
                   /\ right \subseteq DOMAIN listed
                   /\ Demanded(right, listed) \subseteq wire[c]
                   /\ wire[c] \subseteq Demanded(right \cup standIns, listed)
                   /\ \A pkg \in known : \A method \in Methods[pkg] \cap Misnamed :
                          LET demands == Demanded(Calls(pkg, method), listed)
                          IN  demands \subseteq Demanded({<<pkg, method>>}, listed)
                                  => demands \subseteq wire[c]
            /\ at[c] = "refused" =>
                   \/ ~ req[c].packages \subseteq Supported
                   \/ ~ right \cup standIns \subseteq DOMAIN listed

\* The recipes returned are right after every step of a caller.
LEMMA RecipesAreKept ==
    ASSUME TypeOK, NEW c \in Callers, SimpleStep(c) \/ UnaryStep(c), RecipeFits(c)
    PROVE  RecipeFits(c)'
<1> DEFINE packages == req[c].packages
           known == packages \cap Supported
           needed == RightOf(known) \cup StandInsOf(known)
<1>1. req' = req /\ listed' = listed
  BY Frame
<1>2. packages \subseteq Supported => known = packages
  OBVIOUS
<1>3. LooksUpOf(known) = needed
  BY LookedUpAreCalled
<1>4. ASSUME Sent(c, "MacaroonRecipe")'
      PROVE  /\ packages \subseteq Supported /\ needed \subseteq DOMAIN listed
             /\ wire'[c] = Demanded(needed, listed)
  <2>1. MacaroonRecipe(c)
    BY <1>4, Outcomes
  <2>2. /\ RecipeFound(packages, listed)
        /\ wire'[c] = Recipe(packages, listed)
    BY <2>1 DEF MacaroonRecipe, TypeOK
  <2>3. packages \subseteq Supported /\ LooksUpOf(packages) \subseteq DOMAIN listed
    BY <2>2 DEF RecipeFound, LooksUpOf
  <2>4. wire'[c] = Demanded(LooksUpOf(packages), listed)
    BY <2>2 DEF Recipe, LooksUpOf
  <2>5. QED
    BY <1>2, <1>3, <2>3, <2>4
<1>5. ASSUME Sent(c, "MacaroonRecipe")',
             NEW pkg \in known, NEW method \in Methods[pkg] \cap Misnamed
      PROVE  Demanded({<<pkg, method>>}, listed) \subseteq wire'[c]
  <2>1. {<<pkg, method>>} \subseteq needed
    BY <1>5 DEF StandInsOf, StandIns
  <2>2. Demanded({<<pkg, method>>}, listed) \subseteq Demanded(needed, listed)
    BY <2>1, DemandsGrow
  <2>3. QED
    BY <1>4, <1>5, <2>2
<1>6. ASSUME at'[c] = "refused", req[c].method = "MacaroonRecipe",
             packages \subseteq Supported
      PROVE  ~ needed \subseteq DOMAIN listed
  <2>1. ~ RecipeFound(packages, listed)
    BY <1>6, Outcomes DEF RefuseRecipe
  <2>2. ~ LooksUpOf(packages) \subseteq DOMAIN listed
    BY <1>6, <2>1 DEF RecipeFound, LooksUpOf
  <2>3. QED
    BY <1>2, <1>3, <1>6, <2>2
<1>7. Demanded(RightOf(known), listed) \subseteq Demanded(needed, listed)
  BY DemandsGrow
<1>8. QED
  BY <1>1, <1>4, <1>5, <1>6, <1>7 DEF RecipeFits, Sent, RightOf, StandInsOf

-----------------------------------------------------------------------------
(***************************************************************************)
(* The invariant and the theorems.                                         *)
(***************************************************************************)

\* What a caller may count on, and what it takes to see it.
CallerInv(c) ==
    /\ WaitsForLnd(c) /\ KeyInv(c)
    /\ TimeoutFits(c) /\ SentDescriptor(c) /\ ConnectionFits(c) /\ RecipeFits(c)

\* The invariant of the simple calls.
Inv == TypeOK /\ \A c \in Callers : CallerInv(c)

\* At first nothing is asked for, sent or returned.
LEMMA InitInv ==
    ASSUME AllInit
    PROVE  Inv
<1> USE DEF AllInit, Init
<1>1. TypeOK
  BY DEF TypeOK
<1>2. ASSUME NEW c \in Callers
      PROVE  CallerInv(c)
  <2>1. at[c] = "idle" /\ \A m \in Maps : keySent[m] # c
    OBVIOUS
  <2>2. WaitsForLnd(c) /\ KeyInv(c)
    BY <2>1 DEF WaitsForLnd, KeyInv, Exclusive, HasItsPreimage, SentItsPreimage,
                LeftByPayments, InSend, Sent
  <2>3. TimeoutFits(c) /\ SentDescriptor(c) /\ ConnectionFits(c) /\ RecipeFits(c)
    BY <2>1 DEF TimeoutFits, SentDescriptor, ConnectionFits, RecipeFits, Sent
  <2>4. QED
    BY <2>2, <2>3 DEF CallerInv
<1>3. QED
  BY <1>1, <1>2 DEF Inv

\* A caller that does not move keeps what is said of it alone.
LEMMA StillFits ==
    ASSUME NEW c \in Callers, CallerInv(c), UNCHANGED <<req, listed>>,
           at'[c] = at[c], wire'[c] = wire[c]
    PROVE  /\ TimeoutFits(c)' /\ SentDescriptor(c)'
           /\ ConnectionFits(c)' /\ RecipeFits(c)'
<1>1. TimeoutFits(c)'
  BY DEF CallerInv, TimeoutFits, Sent, MaxUint
<1>2. SentDescriptor(c)'
  BY DEF CallerInv, SentDescriptor, Sent
<1>3. RecipeFits(c)'
  BY DEF CallerInv, RecipeFits
<1>4. ConnectionFits(c)'
  BY DEF CallerInv, ConnectionFits, BasicContradiction, BasicOptions, Sent
<1>5. QED
  BY <1>1, <1>2, <1>3, <1>4

\* Every step keeps the invariant.
LEMMA StepInv ==
    ASSUME Inv, [AllNext]_allVars
    PROVE  Inv'
<1> USE DEF Inv
<1>1. CASE UNCHANGED vars
  <2>1. UNCHANGED <<req, at, keySent, own, wire, listed>>
    BY <1>1 DEF vars
  <2>2. TypeOK'
    BY <2>1 DEF TypeOK
  <2>3. ASSUME NEW c \in Callers
        PROVE  CallerInv(c)'
    <3>1. WaitsForLnd(c)' /\ KeyInv(c)'
      BY <2>1 DEF CallerInv, WaitsForLnd, KeyInv, Exclusive, HasItsPreimage,
                  SentItsPreimage, LeftByPayments, Preimage, InSend, Sent
    <3>2. TimeoutFits(c)' /\ SentDescriptor(c)' /\ ConnectionFits(c)' /\ RecipeFits(c)'
      BY <2>1, StillFits
    <3>3. QED
      BY <3>1, <3>2 DEF CallerInv
  <2>4. QED
    BY <2>2, <2>3
<1>2. ASSUME NEW c \in Callers, SimpleStep(c) \/ UnaryStep(c)
      PROVE  Inv'
  <2>1. /\ UNCHANGED <<req, listed>>
        /\ \A d \in Callers \ {c} : at'[d] = at[d] /\ wire'[d] = wire[d]
    BY <1>2, Frame
  <2>2. TypeOK'
    BY <1>2, TypeIsKept
  <2>3. \A d \in Callers : WaitsForLnd(d)' /\ KeyInv(d)'
    BY <1>2, WaitsIsKept, KeysAreKept DEF CallerInv
  <2>4. TimeoutFits(c)' /\ SentDescriptor(c)' /\ ConnectionFits(c)' /\ RecipeFits(c)'
    BY <1>2, TimeoutsAreKept, DescriptorsAreKept, ConnectionsAreKept, RecipesAreKept
       DEF CallerInv
  <2>5. ASSUME NEW d \in Callers \ {c}
        PROVE  /\ TimeoutFits(d)' /\ SentDescriptor(d)'
               /\ ConnectionFits(d)' /\ RecipeFits(d)'
    BY <2>1, StillFits
  <2>6. QED
    BY <2>2, <2>3, <2>4, <2>5 DEF CallerInv
<1>3. QED
  BY <1>1, <1>2, Steps DEF CallerInv

\* The invariant holds of every behaviour of the callers and lnd.
THEOREM Invariance == AllSpec => []Inv
<1>1. AllInit => Inv
  BY InitInv
<1>2. Inv /\ [AllNext]_allVars => Inv'
  BY StepInv
<1>3. QED
  BY <1>1, <1>2, PTL DEF AllSpec

\* Types: among others, a map only ever holds the preimage of a caller
\* (SendPayment).
THEOREM TypeCorrect == AllSpec => []TypeOK
<1>1. Inv => TypeOK
  BY DEF Inv
<1>2. QED
  BY <1>1, Invariance, PTL

\* A keysend payment carries the preimage of its own hash, whatever the caller's map
\* held before, and a refused one leaves nothing in it (SendPayment).
THEOREM KeysendIsClaimable == AllSpec => []KeysendPaysItself
<1>1. Inv => KeysendPaysItself
  BY DEF Inv, CallerInv, KeyInv, SentItsPreimage, LeftByPayments, KeysendPaysItself
<1>2. QED
  BY <1>1, Invariance, PTL

\* A payment's timeout is never made longer, a probe's never shorter, and a probe is
\* refused only for a timeout that lnd cannot express (SendPayment,
\* EstimateRouteFeeWithProbe).
THEOREM TimeoutsAreConverted == AllSpec => []TimeoutsFit
<1>1. Inv => TimeoutsFit
  BY DEF Inv, CallerInv, TimeoutFits, TimeoutsFit
<1>2. QED
  BY <1>1, Invariance, PTL

\* The descriptor of either method finds the key on every signer that can have it
\* (SignOutputRaw, SignOutputRawKeyLocator).
THEOREM DescriptorsFindKeys == AllSpec => []KeyIsFound
<1>1. Inv => KeyIsFound
  <2> SUFFICES ASSUME Inv, NEW c \in Callers,
                      Sent(c, "SignOutputRaw") \/ Sent(c, "SignOutputRawKeyLocator")
               PROVE  LET key == req[c].key
                          knows == req[c].knows
                          named == key # NoLocator \/ "public key" \in knows
                      IN  /\ Sent(c, "SignOutputRawKeyLocator") /\ "locator" \in knows
                                 /\ named =>
                                 KeyFound(wire[c], {NoLocator}) = key
                          /\ Sent(c, "SignOutputRawKeyLocator") /\ named =>
                                 KeyFound(wire[c], {key}) = key
                          /\ Sent(c, "SignOutputRaw") => KeyFound(wire[c], {key}) = key
    BY DEF KeyIsFound
  <2>1. req[c] \in SignRequests
    BY KindsOfRequests DEF Inv, TypeOK, Sent
  <2>2. /\ req[c].key \in Nat \X Nat
        /\ "public key" \in req[c].knows \/ "locator" \in req[c].knows
    BY ZenonT(60), <2>1 DEF SignRequests
  <2>3. SentDescriptor(c)
    BY DEF Inv, CallerInv
  <2> DEFINE d == KeyDescriptor(req[c].key, "public key" \in req[c].knows,
                                "locator" \in req[c].knows)
  <2>5. /\ "locator" \in req[c].knows
                /\ (req[c].key # NoLocator \/ "public key" \in req[c].knows) =>
               KeyFound(FullDescriptor(d), {NoLocator}) = req[c].key
        /\ req[c].key # NoLocator \/ "public key" \in req[c].knows =>
               KeyFound(FullDescriptor(d), {req[c].key}) = req[c].key
        /\ KeyFound(PartialDescriptor(d), {req[c].key}) = req[c].key
    <3>1. /\ ("public key" \in req[c].knows) \in BOOLEAN
          /\ ("locator" \in req[c].knows) \in BOOLEAN
      OBVIOUS
    <3>2. QED
      BY <2>2, <3>1, DescriptorsFind, Zenon
  <2>6. /\ Sent(c, "SignOutputRaw") => wire[c] = PartialDescriptor(d)
        /\ Sent(c, "SignOutputRawKeyLocator") => wire[c] = FullDescriptor(d)
    BY <2>3 DEF SentDescriptor
  <2> HIDE DEF d
  <2>7. QED
    BY <2>5, <2>6
<1>2. QED
  BY <1>1, Invariance, PTL

\* A basic connection trusts and shows what the last options of each kind say, for any
\* options in any order and any paths, and is refused exactly for sources that exclude
\* each other (NewBasicConn).
THEOREM ConnectionsAreAsAsked == AllSpec => []BasicClientIsAsAsked
<1>1. ASSUME Inv, NEW c \in Callers, req[c].method = "NewBasicConn"
      PROVE  LET data == Finally(c, "tlsData", "")
                 path == req[c].tlsPath
                 macData == Finally(c, "macData", "")
                 file == Finally(c, "macFilename", AdminServiceMac)
                 insecure == Given(c, "insecure") # {}
                 system == Given(c, "systemCerts") # {}
                 exclusive == (data # "" /\ path # "") \/ (insecure /\ system)
             IN  /\ at[c] = "sent" =>
                        /\ ~ exclusive
                        /\ (wire[c].trusts = Anyone) = insecure
                        /\ (wire[c].trusts = SystemPool) = system
                        /\ data # "" /\ ~ insecure /\ ~ system =>
                               wire[c].trusts = Cert(data)
                        /\ data = "" /\ ~ insecure /\ ~ system =>
                               wire[c].trusts =
                                   CertFile(IF path = "" THEN DefaultTLSCertPath ELSE path)
                        /\ wire[c].macaroon =
                               IF macData # "" THEN <<macData>>
                               ELSE <<IF req[c].macDir = "" THEN DefaultMacDir
                                      ELSE req[c].macDir, file>>
                 /\ at[c] = "refused" => exclusive
  <2> DEFINE bc == BasicOptions(c)
             data == Finally(c, "tlsData", "")
             path == req[c].tlsPath
             macData == Finally(c, "macData", "")
             file == Finally(c, "macFilename", AdminServiceMac)
             insecure == Given(c, "insecure") # {}
             system == Given(c, "systemCerts") # {}
  <2>1. req[c] \in ConnRequests
    BY <1>1, KindsOfRequests DEF Inv, TypeOK
  <2>2. req[c].options \in Seq(BasicClientOption)
    <3>1. \A T, r : r \in [method : {"NewBasicConn"}, tlsPath : STRING,
                            macDir : STRING, options : T] => r.options \in T
      OBVIOUS
    <3>2. QED
      BY <2>1, <3>1, Zenon DEF ConnRequests
  <2>3. /\ bc.tlsData = data /\ bc.macData = macData /\ bc.macFilename = file
        /\ (bc.insecure # "") <=> insecure
        /\ (bc.systemCerts # "") <=> system
    BY <2>2, OptionsComeTo
  <2>4. ConnectionFits(c)
    BY <1>1 DEF Inv, CallerInv
  <2> HIDE DEF bc, data, path, macData, file, insecure, system
  <2>5. BasicContradiction(c) <=> (data # "" /\ path # "") \/ (insecure /\ system)
    BY <2>3 DEF BasicContradiction, TLSContradiction, bc, path
  <2>6. ASSUME at[c] = "sent"
        PROVE  /\ ~ BasicContradiction(c)
               /\ wire[c].trusts = TLSSource(data, path, insecure, system)
               /\ wire[c].macaroon = IF macData # "" THEN <<macData>>
                     ELSE <<IF req[c].macDir = "" THEN DefaultMacDir
                            ELSE req[c].macDir, file>>
    <3>1. /\ ~ BasicContradiction(c)
          /\ wire[c].trusts = TLSSource(bc.tlsData, path, bc.insecure # "",
                                        bc.systemCerts # "")
          /\ wire[c].macaroon = MacaroonSource(bc, req[c].macDir)
      BY <1>1, <2>4, <2>6 DEF ConnectionFits, Sent, bc, path
    <3>2. QED
      BY <2>3, <3>1 DEF TLSSource, MacaroonSource
  <2>7. at[c] = "refused" => BasicContradiction(c)
    BY <1>1, <2>4 DEF ConnectionFits
  <2>8. ASSUME at[c] = "sent"
        PROVE  /\ (wire[c].trusts = Anyone) = insecure
               /\ (wire[c].trusts = SystemPool) = system
               /\ data # "" /\ ~ insecure /\ ~ system => wire[c].trusts = Cert(data)
               /\ data = "" /\ ~ insecure /\ ~ system => wire[c].trusts =
                      CertFile(IF path = "" THEN DefaultTLSCertPath ELSE path)
    <3>1. /\ Anyone # SystemPool
          /\ \A name : /\ Cert(name) # Anyone /\ Cert(name) # SystemPool
                       /\ CertFile(name) # Anyone /\ CertFile(name) # SystemPool
      BY DEF Anyone, SystemPool, Cert, CertFile
    <3>2. insecure \in BOOLEAN /\ system \in BOOLEAN
      BY DEF insecure, system
    <3>3. CASE insecure
      BY <2>5, <2>6, <2>8, <3>1, <3>2, <3>3 DEF TLSSource
    <3>4. CASE system /\ ~ insecure
      BY <2>5, <2>6, <2>8, <3>1, <3>2, <3>4 DEF TLSSource
    <3>5. CASE ~ system /\ ~ insecure
      <4>1. wire[c].trusts = IF data # "" THEN Cert(data)
                ELSE CertFile(IF path # "" THEN path ELSE DefaultTLSCertPath)
        BY <2>6, <2>8, <3>5, Zenon DEF TLSSource
      <4>2. wire[c].trusts # Anyone /\ wire[c].trusts # SystemPool
        BY <3>1, <4>1
      <4>3. /\ data # "" => wire[c].trusts = Cert(data)
            /\ data = "" => wire[c].trusts =
                  CertFile(IF path = "" THEN DefaultTLSCertPath ELSE path)
        BY <4>1
      <4>4. QED
        BY <3>2, <3>5, <4>2, <4>3
    <3>6. QED
      BY <3>2, <3>3, <3>4, <3>5
  <2>9. QED
    BY <2>5, <2>6, <2>7, <2>8 DEF data, path, macData, file, insecure, system
<1>2. Inv => BasicClientIsAsAsked
  BY <1>1 DEF BasicClientIsAsAsked
<1>3. QED
  BY <1>2, Invariance, PTL

\* For any packages and any permission list of lnd, a recipe has what the RPCs of the
\* methods demand and nothing else, but for six methods that the tables misname, and is
\* refused only for an unknown package or an RPC that lnd does not list, be it
\* called or only named by the tables in the place of one (MacaroonRecipe).
THEOREM RecipesAdmitTheCalls == AllSpec => []RecipeIsRight
<1>1. Inv => RecipeIsRight
  BY DEF Inv, CallerInv, RecipeFits, RecipeIsRight
<1>2. QED
  BY <1>1, Invariance, PTL

(***************************************************************************)
(* Unary calls.  What is said below of a caller is about its own calls, its *)
(* requests in flight and what it has been told; lnd executes the requests *)
(* of all callers on one state.                                            *)
(***************************************************************************)
USE LocksAssumption, ClockAssumption

\* The lock IDs under which a caller may hold the coin.
Ids(c) == {c} \cup IF req[c].method = "FundPsbt" THEN {"lnd"} ELSE {}

Creates(c) == req[c].method = "MuSig2CreateSession"
Leases(c) == req[c].method \in LeaseMethods
Pages(c) == req[c].method \in ListMethods

\* What a caller may ask of lnd.
PageRpc(c, rpc) ==
    rpc.method \in ListMethods

ChannelRpc(rpc) == \E method \in ChannelMethods : rpc = [method |-> method]

LeaseRpc(c, rpc) ==
    \/ /\ req[c].method = "LeaseOutput" /\ rpc.method = "LeaseOutput"
       /\ rpc.id = c /\ rpc.seconds \in Nat
    \/ req[c].method = "FundPsbt" /\ rpc.method = "FundPsbt"
    \/ rpc.method = "ReleaseOutput" /\ rpc.id \in Ids(c)
    \/ rpc.method = "ListLeases"

SessionRpc(c, rpc) ==
    \/ rpc.method = "MuSig2CreateSession"
    \/ /\ rpc.method \in SessionMethods /\ rpc.mayEnd \in BOOLEAN
       /\ rpc.method = "MuSig2CombineSig" => rpc.mayEnd
       /\ \E session : rpc.session = <<c, session>>

\* The requests of each kind of caller.
RpcOf(c, rpc) ==
    \/ Pages(c) /\ PageRpc(c, rpc)
    \/ Looks(c) /\ ChannelRpc(rpc)
    \/ Leases(c) /\ LeaseRpc(c, rpc)
    \/ Creates(c) /\ SessionRpc(c, rpc)

\* The requests in flight are numbered by the calls they belong to, and that of the
\* current call is not answered yet.
InFlight(m) ==
    /\ m.by \in Callers /\ m.n \in 1 .. made[m.by] /\ RpcOf(m.by, m.rpc)
    /\ Current(m) => wire[m.by] = m.rpc /\ answer[m.by] = NoValue

\* No call is in flight twice.
OnePerCall == \A m, o \in flight : m.by = o.by /\ m.n = o.n => m = o

\* Who waits does so for a request of its own, and nobody else is answered.
Waits(c) ==
    /\ at[c] = "waiting" => RpcOf(c, wire[c]) /\ made[c] > 0
    /\ at[c] # "waiting" => answer[c] = NoValue

CallTypes ==
    /\ made \in [Callers -> Nat]
    /\ DOMAIN lastDone = Callers /\ DOMAIN answer = Callers /\ DOMAIN told = Callers

\* The invariant that all unary calls share.
CallsInv ==
    /\ CallTypes /\ OnePerCall
    /\ \A m \in flight : InFlight(m)
    /\ \A c \in Callers : Waits(c)

\* The method of a request tells whose it is and what it is.
LEMMA KindsOfRpcs ==
    ASSUME NEW c, NEW rpc, RpcOf(c, rpc)
    PROVE  /\ Leases(c) \/ rpc.method \in LeaseMethods \cup {"ReleaseOutput", "ListLeases"} =>
                  Leases(c) /\ LeaseRpc(c, rpc)
           /\ Creates(c) \/ rpc.method \in SessionMethods \cup {"MuSig2CreateSession"} =>
                  Creates(c) /\ SessionRpc(c, rpc)
           /\ Pages(c) \/ rpc.method \in ListMethods =>
                  Pages(c) /\ PageRpc(c, rpc)
           /\ Looks(c) \/ rpc.method \in ChannelMethods => Looks(c) /\ ChannelRpc(rpc)
<1>1. ChannelMethods = {"ListChannels", "PendingChannels", "ClosedChannels"}
  BY DEF ChannelMethods, ChannelLists
<1>2. PageRpc(c, rpc) => rpc.method \in ListMethods
  BY DEF PageRpc
<1>3. ChannelRpc(rpc) => rpc.method \in ChannelMethods
  BY DEF ChannelRpc
<1>4. LeaseRpc(c, rpc) =>
          rpc.method \in {"LeaseOutput", "FundPsbt", "ReleaseOutput", "ListLeases"}
  BY DEF LeaseRpc
<1>5. SessionRpc(c, rpc) => rpc.method \in SessionMethods \cup {"MuSig2CreateSession"}
  BY DEF SessionRpc
<1> USE <1>1 DEF Pages, Looks, Leases, Creates, ListMethods, LeaseMethods, SessionMethods
<1>6. CASE Pages(c) /\ PageRpc(c, rpc)
  BY <1>2, <1>6
<1>7. CASE Looks(c) /\ ChannelRpc(rpc)
  BY <1>3, <1>7
<1>8. CASE Leases(c) /\ LeaseRpc(c, rpc)
  BY <1>4, <1>8
<1>9. CASE Creates(c) /\ SessionRpc(c, rpc)
  BY <1>5, <1>9
<1>10. QED
  BY <1>6, <1>7, <1>8, <1>9 DEF RpcOf

\* Asking for what the caller may ask keeps all of this.
LEMMA CallKeepsCalls ==
    ASSUME TypeOK, CallsInv, NEW c \in Callers, NEW rpc, Call(c, rpc), RpcOf(c, rpc),
           DOMAIN told' = Callers
    PROVE  CallsInv'
<1> USE DEF CallsInv
<1>1. /\ made[c] \in Nat /\ made' = [made EXCEPT ![c] = made[c] + 1]
      /\ at' = [at EXCEPT ![c] = "waiting"] /\ wire' = [wire EXCEPT ![c] = rpc]
      /\ UNCHANGED <<req, lastDone, answer>>
      /\ at[c] = "idle" /\ answer[c] = NoValue
  BY DEF Call, CallTypes, Waits
<1>2. CallTypes'
  BY <1>1 DEF CallTypes
<1>3. PICK new : new = [by |-> c, n |-> made[c] + 1, rpc |-> rpc]
  OBVIOUS
<1>4. made'[c] = made[c] + 1 /\ \A d \in Callers \ {c} : made'[d] = made[d]
  BY <1>1 DEF CallTypes
<1>5. \A d \in Callers : \A other : RpcOf(d, other)' <=> RpcOf(d, other)
  BY <1>1 DEF RpcOf, PageRpc, ChannelRpc, LeaseRpc, SessionRpc, Pages, Looks, Leases,
              Creates, Ids
<1>6. /\ at'[c] = "waiting" /\ wire'[c] = rpc
      /\ \A d \in Callers \ {c} : at'[d] = at[d] /\ wire'[d] = wire[d]
  BY <1>1 DEF TypeOK
<1>7. ASSUME NEW m \in flight
      PROVE  InFlight(m)' /\ m.n \in 1 .. made[m.by] /\ m.by \in Callers
  <2>1. InFlight(m)
    OBVIOUS
  <2>2. made[m.by] \in Nat /\ m.by \in Callers /\ m.n \in 1 .. made[m.by]
    BY <2>1 DEF InFlight, CallTypes
  <2>3. CASE m.by = c
    <3>1. m.n \in 1 .. made'[m.by] /\ m.n # made'[m.by]
      BY <1>1, <1>4, <2>2, <2>3
    <3>2. QED
      BY <1>5, <2>1, <2>2, <3>1 DEF InFlight, Current
  <2>4. CASE m.by # c
    BY <1>1, <1>4, <1>5, <1>6, <2>1, <2>2, <2>4 DEF InFlight, Current
  <2>5. QED
    BY <2>2, <2>3, <2>4
<1>8. InFlight(new)'
  <2>1. new.by = c /\ new.n = made'[c] /\ new.rpc = rpc
    BY <1>3, <1>4
  <2>2. new.n \in 1 .. made'[c]
    BY <1>1, <1>4, <2>1
  <2>3. QED
    BY <1>1, <1>5, <1>6, <2>1, <2>2 DEF InFlight
<1>9. OnePerCall' /\ flight' = flight \cup {new}
  <2>1. \A m \in flight : ~ (m.by = c /\ m.n = made[c] + 1)
    BY <1>1, <1>7
  <2>2. flight' = flight \cup {new} /\ new.by = c /\ new.n = made[c] + 1
    BY <1>3 DEF Call
  <2>3. QED
    BY <2>1, <2>2 DEF OnePerCall
<1>10. \A d \in Callers : Waits(d)'
  BY <1>1, <1>4, <1>5, <1>6 DEF Waits
<1>11. QED
  BY <1>2, <1>7, <1>8, <1>9, <1>10

\* A call returns: its caller is told something, and some requests may be lost.
ReturnStep(c) ==
    /\ at[c] = "waiting" /\ Returns(c)
    /\ flight' \subseteq flight
    /\ DOMAIN told' = DOMAIN told /\ \A d \in Callers \ {c} : told'[d] = told[d]

\* Every way a call can return is one of these steps.
LEMMA ReturnsAreReturns ==
    ASSUME NEW c \in Callers, Return(c) \/ GiveUp(c)
    PROVE  ReturnStep(c)
<1>1. /\ at[c] = "waiting" /\ Returns(c)
      /\ flight' = flight \/ flight' = {m \in flight : m.by = c => m.rpc.method \in Changing}
  BY DEF Return, GiveUp, Answered, ReturnError, ReturnPage, PageDoesNotConvert,
         ReturnChannels, ChannelsDoNotConvert, ReturnLease, ReturnFunds,
         FundsDoNotConvert, ReturnRelease, ReturnLeases, ReturnSession,
         SessionDoesNotConvert, ReturnUse
<1>2. DOMAIN told' = DOMAIN told /\ \A d \in Callers \ {c} : told'[d] = told[d]
  <2>1. CASE UNCHANGED told
    BY <2>1
  <2>2. CASE \E value : told' = [told EXCEPT ![c] = value]
    BY <2>2
  <2>3. QED
    BY <2>1, <2>2
       DEF Return, GiveUp, Unknowing, Tell, ReturnError, ReturnPage, PageDoesNotConvert,
           ReturnChannels, ChannelsDoNotConvert, ReturnLease, ReturnFunds,
           FundsDoNotConvert, ReturnRelease, ReturnLeases, ReturnSession,
           SessionDoesNotConvert, ReturnUse
<1>3. QED
  BY <1>1, <1>2 DEF ReturnStep

\* The return of a call leaves the requests in flight as they are, or loses some.
LEMMA ReturnKeepsCalls ==
    ASSUME TypeOK, CallsInv, NEW c \in Callers, ReturnStep(c)
    PROVE  CallsInv'
<1> USE DEF CallsInv
<1>1. /\ at' = [at EXCEPT ![c] = "idle"] /\ wire' = [wire EXCEPT ![c] = NoValue]
      /\ answer' = [answer EXCEPT ![c] = NoValue]
      /\ UNCHANGED <<req, made, lastDone>>
      /\ flight' \subseteq flight /\ DOMAIN told' = DOMAIN told
  BY DEF ReturnStep, Returns
<1>2. CallTypes' /\ OnePerCall'
  BY <1>1 DEF CallTypes, OnePerCall
<1>3. \A d \in Callers : \A other : RpcOf(d, other)' <=> RpcOf(d, other)
  BY <1>1 DEF RpcOf, PageRpc, ChannelRpc, LeaseRpc, SessionRpc, Pages, Looks, Leases,
              Creates, Ids
<1>4. /\ at'[c] = "idle" /\ answer'[c] = NoValue
      /\ \A d \in Callers \ {c} :
             at'[d] = at[d] /\ wire'[d] = wire[d] /\ answer'[d] = answer[d]
  BY <1>1 DEF TypeOK, CallTypes
<1>5. ASSUME NEW m \in flight
      PROVE  InFlight(m)'
  <2>1. InFlight(m)
    OBVIOUS
  <2>2. QED
    BY <1>1, <1>3, <1>4, <2>1 DEF InFlight, Current
<1>6. \A d \in Callers : Waits(d)'
  BY <1>1, <1>3, <1>4 DEF Waits
<1>7. QED
  BY <1>1, <1>2, <1>5, <1>6

\* lnd executes a request, or fails to: it answers if the caller still waits.
LndStep(m) ==
    /\ m \in flight /\ flight' = flight \ {m}
    /\ \E value : answer' =
           [answer EXCEPT ![m.by] = IF Current(m) THEN value ELSE @]
    /\ DOMAIN lastDone' = DOMAIN lastDone
    /\ UNCHANGED <<vars, made, told>>

\* Whatever lnd does with a request is one of these steps.
LEMMA LndStepsAreLndSteps ==
    ASSUME NEW m \in flight, Lnd(m)
    PROVE  LndStep(m)
<1>1. ASSUME NEW value, Done(m, value)
      PROVE  LndStep(m)
  BY <1>1 DEF Done, LndStep
<1>2. CASE LndFails(m)
  BY <1>2 DEF LndFails, LndStep
<1>3. QED
  BY <1>1, <1>2 DEF Lnd, LndLists, LndListsChannels, LndLeases, LndFunds, LndReleases,
         LndListsLeases, LndCreates, LndUses

\* lnd's steps keep what all calls share.
LEMMA LndKeepsCalls ==
    ASSUME CallsInv, NEW m, LndStep(m)
    PROVE  CallsInv'
<1> USE DEF CallsInv
<1>1. /\ m \in flight /\ flight' = flight \ {m} /\ m.by \in Callers
      /\ UNCHANGED <<req, at, wire, made, told>>
  BY DEF LndStep, vars, InFlight
<1>2. PICK value : answer' = [answer EXCEPT ![m.by] = IF Current(m) THEN value ELSE @]
  BY DEF LndStep
<1>3. CallTypes' /\ OnePerCall'
  BY <1>1, <1>2 DEF CallTypes, OnePerCall, LndStep
<1>4. \A d \in Callers : \A other : RpcOf(d, other)' <=> RpcOf(d, other)
  BY <1>1 DEF RpcOf, PageRpc, ChannelRpc, LeaseRpc, SessionRpc, Pages, Looks, Leases,
              Creates, Ids
<1>5. \A d \in Callers :
          answer'[d] = answer[d] \/ (d = m.by /\ at[d] = "waiting" /\ made[d] = m.n)
  BY <1>1, <1>2 DEF CallTypes, Current
<1>6. ASSUME NEW o \in flight \ {m}
      PROVE  InFlight(o)'
  <2>1. InFlight(o) /\ (o.by = m.by => o.n # m.n)
    BY <1>1 DEF OnePerCall
  <2>2. QED
    BY <1>1, <1>4, <1>5, <2>1 DEF InFlight, Current
<1>7. \A d \in Callers : Waits(d)'
  BY <1>1, <1>4, <1>5 DEF Waits
<1>8. QED
  BY <1>1, <1>3, <1>6, <1>7

\* A simple call never waits for lnd.
LEMMA SimpleIsApart ==
    ASSUME TypeOK, \A d \in Callers : WaitsForLnd(d), NEW c \in Callers, SimpleStep(c)
    PROVE  req[c].method \in SimpleMethods /\ at[c] # "waiting" /\ at'[c] # "waiting"
<1>1. req[c].method \in SimpleMethods
  BY DEF SimpleStep, BuildRequest, RefusePresetHash, AddPreimage, CanSend,
         SendPaymentV2, SendPaymentV2Fails, EstimateRouteFeeWithProbe,
         RefuseProbeTimeout, MacaroonRecipe, RefuseRecipe, RecipeFails, SignOutputRaw,
         NewBasicConn, RefuseBasicConn, BasicConnFails, SimpleMethods
<1>2. WaitsForLnd(c) /\ WaitsForLnd(c)' /\ req' = req
  BY WaitsIsKept, Frame
<1>3. QED
  BY <1>1, <1>2 DEF WaitsForLnd

\* So do the steps of the simple calls.
LEMMA SimpleKeepsCalls ==
    ASSUME TypeOK, CallsInv, \A d \in Callers : WaitsForLnd(d),
           NEW c \in Callers, SimpleStep(c), UNCHANGED callVars
    PROVE  CallsInv'
<1> USE DEF CallsInv
<1>1. /\ at[c] # "waiting" /\ at'[c] # "waiting" /\ req' = req
      /\ \A d \in Callers \ {c} : at'[d] = at[d] /\ wire'[d] = wire[d]
  BY SimpleIsApart, Frame
<1>2. UNCHANGED <<flight, made, lastDone, answer, told>>
  BY DEF callVars
<1>3. CallTypes' /\ OnePerCall'
  BY <1>2 DEF CallTypes, OnePerCall
<1>4. \A d \in Callers : \A other : RpcOf(d, other)' <=> RpcOf(d, other)
  BY <1>1 DEF RpcOf, PageRpc, ChannelRpc, LeaseRpc, SessionRpc, Pages, Looks, Leases,
              Creates, Ids
<1>5. \A m \in flight : InFlight(m)'
  BY <1>1, <1>2, <1>4 DEF InFlight, Current
<1>6. \A d \in Callers : Waits(d)'
  BY <1>1, <1>2, <1>4 DEF Waits
<1>7. QED
  BY <1>2, <1>3, <1>5, <1>6

-----------------------------------------------------------------------------
(* Leases. *)

\* All that FundPsbt locks is under one lock ID, so two funders may undo each other's
\* leases.
OneFunder ==
    \A asked \in Asked : \A c, d \in Callers :
        asked[c].method = "FundPsbt" /\ asked[d].method = "FundPsbt" => c = d

\* What a caller may be told of a lease by the call numbered "by": lnd has the lease,
\* unless it has expired or lnd has executed another request of the caller since then.
Rely(c, by, id, until) ==
    /\ by \in 1 .. made[c] /\ id \in Ids(c) /\ until \in Nat
    /\ \A m \in flight : m.by = c => m.n # by
    /\ OneFunder /\ lastDone[c] = by /\ clock < until =>
           lease = [id |-> id, until |-> until]

\* What a caller was told of a lease, and what an answer will tell it, can be
\* relied on.
ToldLease(c) ==
    told[c] # NoValue => Rely(c, told[c].by, told[c].id, told[c].until)

AnsweredLease(c) ==
    at[c] = "waiting" /\ answer[c] # NoValue /\ ~ IsError(c) =>
        /\ wire[c].method \in LeaseMethods =>
               Rely(c, made[c], answer[c].id, answer[c].until)
        /\ wire[c].method = "LeaseOutput" => answer[c].id = c
        /\ wire[c].method = "ListLeases" =>
               \A l \in answer[c].leases : l.id = c => Rely(c, made[c], l.id, l.until)

LeaseInv(c) == Leases(c) => ToldLease(c) /\ AnsweredLease(c)

\* The types of the lease and of the clock.
LeaseTypes ==
    /\ clock \in Nat
    /\ lease = NoValue \/ lease \in [id : Callers \cup {"lnd"}, until : Nat]

\* A caller may rely on what it could rely on as long as lnd's lease and what lnd has
\* executed for it stay the same; that time passes, that its requests get lost and
\* that it makes another call does not matter.
LEMMA QuietKeepsRely ==
    ASSUME NEW c \in Callers, CallsInv, LeaseTypes,
           req' = req, lease' = lease, lastDone'[c] = lastDone[c],
           clock' \in Nat, clock' >= clock, made'[c] \in Nat, made'[c] >= made[c],
           \A m \in flight' : m.by = c => m \in flight \/ m.n > made[c]
    PROVE  \A by, id, until : Rely(c, by, id, until) => Rely(c, by, id, until)'
<1> SUFFICES ASSUME NEW by, NEW id, NEW until, Rely(c, by, id, until)
             PROVE  Rely(c, by, id, until)'
  OBVIOUS
<1>1. made[c] \in Nat /\ clock \in Nat
  BY DEF CallsInv, CallTypes, LeaseTypes
<1>2. by \in 1 .. made[c] /\ id \in Ids(c) /\ until \in Nat
  BY DEF Rely
<1>3. by \in 1 .. made'[c] /\ (id \in Ids(c))'
  BY <1>1, <1>2 DEF Ids
<1>4. \A m \in flight' : m.by = c => m.n # by
  BY <1>1, <1>2 DEF Rely
<1>5. OneFunder /\ lastDone'[c] = by /\ clock' < until =>
          lease' = [id |-> id, until |-> until]
  BY <1>1, <1>2 DEF Rely
<1>6. QED
  BY <1>2, <1>3, <1>4, <1>5 DEF Rely

\* What lnd executes for another caller does not touch the lease of this one, as the
\* lock IDs are different.
LEMMA OthersLeaveLease ==
    ASSUME TypeOK, CallsInv, LeaseTypes, OneFunder, NEW m \in flight, Lnd(m),
           NEW c \in Callers, m.by # c, NEW id \in Ids(c), NEW until \in Nat,
           clock < until, lease = [id |-> id, until |-> until]
    PROVE  lease' = lease
<1>1. InFlight(m) /\ Held /\ lease.id = id
  BY DEF CallsInv, Held, Ids
<1>2. m.by \in Callers /\ RpcOf(m.by, m.rpc)
  BY <1>1 DEF InFlight
<1>3. req[m.by].method = "FundPsbt" => id # "lnd"
  BY <1>2 DEF OneFunder, TypeOK, Ids
<1>4. id \notin Ids(m.by)
  BY <1>2, <1>3 DEF Ids
<1>5. CASE LndLeases(m)
  <2>1. m.rpc.method = "LeaseOutput" /\ m.rpc.id = id
    BY <1>1, <1>5 DEF LndLeases
  <2>2. m.rpc.id = m.by
    BY <1>2, <2>1, KindsOfRpcs DEF LeaseRpc, LeaseMethods
  <2>3. QED
    BY <1>4, <2>1, <2>2 DEF Ids
<1>6. CASE LndFunds(m)
  BY <1>1, <1>6 DEF LndFunds
<1>7. CASE LndReleases(m)
  <2>1. m.rpc.method = "ReleaseOutput" /\ m.rpc.id = id
    BY <1>1, <1>7 DEF LndReleases
  <2>2. m.rpc.id \in Ids(m.by)
    BY <1>2, <2>1, KindsOfRpcs DEF LeaseRpc, LeaseMethods
  <2>3. QED
    BY <1>4, <2>1, <2>2
<1>8. QED
  BY <1>5, <1>6, <1>7
     DEF Lnd, LndLists, LndListsChannels, LndListsLeases, LndCreates, LndUses,
         LndFails, lndVars

\* What lnd does for a request: it executes it, with some effect, or fails it.
LEMMA Executions ==
    ASSUME CallsInv, NEW m \in flight, Lnd(m)
    PROVE  /\ UNCHANGED <<req, at, wire, clock, made, told>> /\ flight' = flight \ {m}
           /\ \A c \in Callers :
                  answer'[c] # answer[c] =>
                      /\ m.by = c /\ Current(m) /\ wire[c] = m.rpc
                      /\ at[c] = "waiting" /\ made[c] = m.n
           /\ \/ LndFails(m)
              \/ \A c \in Callers :
                     lastDone'[c] = IF m.by = c /\ Leases(c) THEN m.n ELSE lastDone[c]
<1>1. InFlight(m)
  BY DEF CallsInv
<1>2. ASSUME NEW value, Done(m, value)
      PROVE  /\ UNCHANGED <<req, at, wire, clock, made, told>> /\ flight' = flight \ {m}
             /\ answer' = [answer EXCEPT ![m.by] = IF Current(m) THEN value ELSE @]
             /\ \A c \in Callers :
                    lastDone'[c] = IF m.by = c /\ Leases(c) THEN m.n ELSE lastDone[c]
  BY <1>2 DEF Done, vars, CallsInv, CallTypes, Leases
<1>3. CASE LndFails(m)
  BY <1>1, <1>3
     DEF LndFails, InFlight, Current, CallsInv, CallTypes, vars, lndVars
<1>4. CASE \E value : Done(m, value)
  <2>1. PICK value : Done(m, value)
    BY <1>4
  <2>2. \A c \in Callers :
            answer'[c] # answer[c] =>
                /\ m.by = c /\ Current(m) /\ wire[c] = m.rpc
                /\ at[c] = "waiting" /\ made[c] = m.n
    BY <1>1, <1>2, <2>1 DEF InFlight, Current, CallsInv, CallTypes
  <2>3. QED
    BY <1>2, <2>1, <2>2
<1>5. QED
  BY <1>3, <1>4 DEF Lnd, LndLists, LndListsChannels, LndLeases, LndFunds, LndReleases,
         LndListsLeases, LndCreates, LndUses

\* lnd keeps the promises of its leases.
LEMMA LndKeepsRely ==
    ASSUME TypeOK, CallsInv, LeaseTypes, NEW m \in flight, Lnd(m),
           NEW c \in Callers, Leases(c)
    PROVE  \A by, id, until : Rely(c, by, id, until) => Rely(c, by, id, until)'
<1> SUFFICES ASSUME NEW by, NEW id, NEW until, Rely(c, by, id, until)
             PROVE  Rely(c, by, id, until)'
  OBVIOUS
<1>1. UNCHANGED <<req, clock, made>> /\ flight' = flight \ {m}
  BY Executions
<1>2. /\ by \in 1 .. made'[c] /\ (id \in Ids(c))' /\ until \in Nat
      /\ \A o \in flight' : o.by = c => o.n # by
  BY <1>1 DEF Rely, Ids
<1>3. OneFunder /\ lastDone'[c] = by /\ clock' < until =>
          lease' = [id |-> id, until |-> until]
  <2>1. CASE LndFails(m)
    BY <1>1, <2>1 DEF LndFails, Rely, lndVars
  <2>2. CASE m.by = c /\ ~ LndFails(m)
    <3>1. lastDone'[c] = m.n
      BY <2>2, Executions
    <3>2. QED
      BY <2>2, <3>1 DEF Rely
  <2>3. CASE m.by # c /\ ~ LndFails(m)
    <3>1. lastDone'[c] = lastDone[c]
      BY <2>3, Executions
    <3>2. QED
      BY <1>1, <2>3, <3>1, OthersLeaveLease DEF Rely
  <2>4. QED
    BY <2>1, <2>2, <2>3
<1>4. QED
  BY <1>2, <1>3 DEF Rely

\* A lease is always under a lock ID and has a time.
LEMMA LndKeepsLeaseTypes ==
    ASSUME CallsInv, LeaseTypes, NEW m \in flight, Lnd(m)
    PROVE  LeaseTypes'
<1>1. clock' = clock
  BY Executions
<1>2. InFlight(m)
  BY DEF CallsInv
<1>3. CASE LndLeases(m)
  <2>1. m.rpc.id \in Callers /\ m.rpc.seconds \in Nat
    BY <1>2, <1>3, KindsOfRpcs DEF LndLeases, LeaseRpc, LeaseMethods, InFlight
  <2>2. clock + (IF m.rpc.seconds = 0 THEN DefaultLease ELSE m.rpc.seconds) \in Nat
    BY <2>1 DEF LeaseTypes
  <2>3. QED
    BY <1>1, <1>3, <2>1, <2>2 DEF LndLeases, LeaseTypes
<1>4. CASE LndFunds(m)
  BY <1>1, <1>4 DEF LndFunds, LeaseTypes
<1>5. CASE LndReleases(m)
  BY <1>1, <1>5 DEF LndReleases, LeaseTypes
<1>6. CASE lease' = lease
  BY <1>1, <1>6 DEF LeaseTypes
<1>7. QED
  BY <1>3, <1>4, <1>5, <1>6
     DEF Lnd, LndLists, LndListsChannels, LndListsLeases, LndCreates, LndUses,
         LndFails, lndVars

\* A lease that lnd answers with is one the caller may rely on.
LEMMA LndAnswersLease ==
    ASSUME TypeOK, CallsInv, LeaseTypes, NEW m \in flight, Lnd(m), NEW c \in Callers,
           Leases(c), answer'[c] # answer[c]
    PROVE  AnsweredLease(c)'
<1>1. /\ UNCHANGED <<req, at, wire, clock, made, told>> /\ flight' = flight \ {m}
      /\ m.by = c /\ Current(m) /\ wire[c] = m.rpc /\ made[c] = m.n
  BY Executions
<1>2. InFlight(m) /\ made[c] \in Nat
  BY DEF CallsInv, CallTypes
<1>3. LeaseRpc(c, m.rpc)
  BY <1>1, <1>2, KindsOfRpcs DEF InFlight
<1>4. m.n \in 1 .. made'[c] /\ \A o \in flight' : o.by = c => o.n # m.n
  BY <1>1, <1>2 DEF InFlight, CallsInv, OnePerCall
<1>5. m.rpc.method \in {"LeaseOutput", "FundPsbt", "ReleaseOutput", "ListLeases"}
  BY <1>3 DEF LeaseRpc
<1>6. LeaseTypes'
  BY LndKeepsLeaseTypes
<1>7. CASE LndFails(m)
  <2>1. answer'[c] = [error |-> TRUE]
    BY <1>1, <1>7 DEF LndFails, CallsInv, CallTypes
  <2>2. QED
    BY <2>1 DEF AnsweredLease, IsError
<1>8. CASE LndLeases(m)
  <2>1. /\ answer'[c] = lease' /\ m.rpc.method = "LeaseOutput"
        /\ lease' = [id |-> m.rpc.id,
                     until |-> clock + IF m.rpc.seconds = 0 THEN DefaultLease
                                       ELSE m.rpc.seconds]
    BY <1>1, <1>8 DEF LndLeases, Done, CallsInv, CallTypes
  <2>2. m.rpc.id = c /\ m.rpc.seconds \in Nat
    BY <1>3, <2>1 DEF LeaseRpc
  <2>3. lease'.id = c /\ lease'.until \in Nat
    BY <2>1, <2>2 DEF LeaseTypes
  <2>4. Rely(c, made[c], answer[c].id, answer[c].until)'
    BY <1>1, <1>4, <2>1, <2>2, <2>3 DEF Rely, Ids
  <2>5. QED
    BY <1>1, <2>1, <2>3, <2>4 DEF AnsweredLease
<1>9. CASE LndFunds(m)
  <2>1. /\ answer'[c] = lease' /\ m.rpc.method = "FundPsbt"
        /\ lease' = [id |-> "lnd", until |-> clock + DefaultLease]
    BY <1>1, <1>9 DEF LndFunds, Done, CallsInv, CallTypes
  <2>2. req'[c].method = "FundPsbt"
    BY <1>1, <1>3, <2>1 DEF LeaseRpc
  <2>3. lease'.id = "lnd" /\ lease'.until \in Nat
    BY <2>1 DEF LeaseTypes
  <2>4. Rely(c, made[c], answer[c].id, answer[c].until)'
    BY <1>1, <1>4, <2>1, <2>2, <2>3 DEF Rely, Ids
  <2>5. QED
    BY <1>1, <2>1, <2>4 DEF AnsweredLease
<1>10. CASE LndReleases(m)
  BY <1>1, <1>10 DEF LndReleases, AnsweredLease, LeaseMethods
<1>11. CASE LndListsLeases(m)
  <2>1. /\ answer'[c] = [leases |-> IF Held THEN {lease} ELSE {}]
        /\ m.rpc.method = "ListLeases" /\ lease' = lease
    BY <1>1, <1>11 DEF LndListsLeases, Done, CallsInv, CallTypes
  <2>2. ASSUME NEW l \in answer'[c].leases, l.id = c
        PROVE  Rely(c, made[c], l.id, l.until)'
    <3>1. l = lease /\ Held
      BY <2>1, <2>2
    <3>2. l.until \in Nat /\ l = [id |-> c, until |-> l.until]
      BY <2>2, <3>1 DEF LeaseTypes, Held
    <3>3. QED
      BY <1>1, <1>4, <2>1, <2>2, <3>1, <3>2 DEF Rely, Ids
  <2>3. QED
    BY <1>1, <2>1, <2>2 DEF AnsweredLease, LeaseMethods
<1>12. QED
  BY <1>5, <1>7, <1>8, <1>9, <1>10, <1>11
     DEF Lnd, LndLists, LndListsChannels, LndCreates, LndUses,
         ListMethods, ChannelMethods, ChannelLists, SessionMethods

\* A request with the method of a unary call is one of its kind.
LEMMA KindsOfUnary ==
    ASSUME TypeOK, NEW c \in Callers
    PROVE  /\ req[c].method = "LeaseOutput" => req[c].time \in Nat
           /\ Pages(c) => req[c] \in PageRequests
<1>1. req[c] \in SimpleRequests \cup UnaryRequests
  BY DEF TypeOK
<1>2. req[c] \in SimpleRequests => req[c].method \in SimpleMethods
  <2> USE DEF SimpleMethods
  <2>1. /\ req[c] \in SendRequests => req[c].method \in SimpleMethods
        /\ req[c] \in ProbeRequests => req[c].method \in SimpleMethods
    BY DEF SendRequests, ProbeRequests
  <2>2. /\ req[c] \in RecipeRequests => req[c].method \in SimpleMethods
        /\ req[c] \in SignRequests => req[c].method \in SimpleMethods
    BY DEF RecipeRequests, SignRequests
  <2>3. /\ req[c] \in ConnRequests => req[c].method \in SimpleMethods
        /\ req[c] = NoRequest => req[c].method \in SimpleMethods
    BY DEF ConnRequests, NoRequest
  <2>4. QED
    BY <2>1, <2>2, <2>3 DEF SimpleRequests
<1>3. req[c] \in PageRequests => req[c].method \in ListMethods
  BY DEF PageRequests
<1>4. req[c] \in ChannelRequests => req[c].method = "ListChannels"
  BY DEF ChannelRequests
<1>5. req[c] \in LeaseRequests =>
          \/ req[c].method = "LeaseOutput" /\ req[c].time \in Nat
          \/ req[c].method = "FundPsbt"
  BY DEF LeaseRequests
<1>6. req[c] \in SessionRequests => req[c].method = "MuSig2CreateSession"
  BY DEF SessionRequests
<1>7. QED
  BY <1>1, <1>2, <1>3, <1>4, <1>5, <1>6
     DEF UnaryRequests, SimpleMethods, ListMethods, Pages

\* A caller asks for nothing but what it may ask for.
LEMMA AsksAreCalls ==
    ASSUME TypeOK, CallsInv, NEW c \in Callers, LeaseInv(c),
           Looks(c) => told[c].lists \in Nat, Ask(c)
    PROVE  /\ \E rpc : Call(c, rpc) /\ RpcOf(c, rpc)
           /\ DOMAIN told' = Callers /\ \A d \in Callers \ {c} : told'[d] = told[d]
           /\ Leases(c) => told' = told
<1> USE DEF LeaseMethods
<1>1. DOMAIN told = Callers
  BY DEF CallsInv, CallTypes
<1>2. CASE AskPage(c)
  <2>1. Call(c, PageRequest(c)) /\ PageRequest(c).method \in ListMethods
    BY <1>2 DEF AskPage, ListMethods, PageRequest, ForwardingHistoryRequest,
                ListInvoicesRequest, ListPaymentsRequest
  <2>2. Pages(c) /\ ~ Leases(c)
    BY <1>2 DEF AskPage, Pages, Leases, ListMethods
  <2>3. PICK must : told' = IF made[c] > 0 THEN told
                            ELSE [told EXCEPT ![c].must = must]
    BY <1>2 DEF AskPage
  <2>4. DOMAIN told' = Callers /\ \A d \in Callers \ {c} : told'[d] = told[d]
    BY <1>1, <2>3
  <2>5. QED
    BY <2>1, <2>2, <2>4 DEF RpcOf, PageRpc
<1>3. CASE AskChannels(c)
  <2>1. \E method \in ChannelMethods : Call(c, [method |-> method])
    <3>1. Len(ChannelLists) = 3
      BY DEF ChannelLists
    <3>2. told[c].lists \in Nat /\ told[c].lists < Len(ChannelLists)
      BY <1>3 DEF AskChannels, Looks
    <3>3. told[c].lists + 1 \in 1 .. 3
      BY <3>1, <3>2
    <3>4. ChannelLists[told[c].lists + 1] \in ChannelMethods
      BY <3>3 DEF ChannelMethods, ChannelLists
    <3>5. QED
      BY <1>3, <3>4 DEF AskChannels
  <2>2. QED
    BY <1>1, <1>3, <2>1 DEF AskChannels, RpcOf, ChannelRpc, Looks, Leases
<1>4. CASE AskLease(c)
  <2>1. LeaseSeconds(req[c].time) \in Nat
    BY <1>4, KindsOfUnary DEF AskLease, LeaseSeconds
  <2>2. QED
    BY <1>1, <1>4, <2>1 DEF AskLease, RpcOf, LeaseRpc, Leases
<1>5. CASE AskFunds(c)
  BY <1>1, <1>5 DEF AskFunds, RpcOf, LeaseRpc, Leases
<1>6. CASE AskRelease(c)
  <2>1. PICK id \in {c, "lnd"} :
            /\ id = "lnd" => told[c] # NoValue /\ told[c].id = id
            /\ Call(c, [method |-> "ReleaseOutput", id |-> id])
    BY <1>6 DEF AskRelease
  <2>2. Leases(c) /\ told' = told
    BY <1>6 DEF AskRelease, Leases
  <2>3. id \in Ids(c)
    BY <2>1, <2>2 DEF LeaseInv, ToldLease, Rely, Ids
  <2>4. QED
    BY <1>1, <2>1, <2>2, <2>3 DEF RpcOf, LeaseRpc
<1>7. CASE AskLeases(c)
  BY <1>1, <1>7 DEF AskLeases, RpcOf, LeaseRpc, Leases
<1>8. CASE AskSession(c)
  BY <1>1, <1>8 DEF AskSession, RpcOf, SessionRpc, Creates, Leases
<1>9. ASSUME NEW method \in SessionMethods, NEW mayEnd \in BOOLEAN,
             method = "MuSig2CombineSig" => mayEnd, UseSession(c, method, mayEnd)
      PROVE  /\ \E rpc : Call(c, rpc) /\ RpcOf(c, rpc)
             /\ DOMAIN told' = Callers /\ \A d \in Callers \ {c} : told'[d] = told[d]
             /\ Leases(c) => told' = told
  <2>1. Creates(c) /\ ~ Leases(c)
    BY <1>9 DEF UseSession, Creates, Leases
  <2>2. PICK session :
            /\ Call(c, [method |-> method, session |-> <<c, session>>,
                        mayEnd |-> mayEnd])
            /\ told' = IF mayEnd
                       THEN [told EXCEPT ![c].known = @ \ {session},
                                         ![c].dropped = @ \cup {session}]
                       ELSE told
    BY <1>9 DEF UseSession
  <2>3. RpcOf(c, [method |-> method, session |-> <<c, session>>, mayEnd |-> mayEnd])
    BY <1>9, <2>1 DEF RpcOf, SessionRpc
  <2>4. DOMAIN told' = Callers /\ \A d \in Callers \ {c} : told'[d] = told[d]
    BY <1>1, <2>2
  <2>5. QED
    BY <2>1, <2>2, <2>3, <2>4
<1>10. CASE MuSig2RegisterNonces(c)
  BY <1>9, <1>10 DEF MuSig2RegisterNonces, SessionMethods
<1>11. CASE MuSig2Sign(c)
  BY <1>9, <1>11 DEF MuSig2Sign, SessionMethods
<1>12. CASE MuSig2CombineSig(c)
  BY <1>9, <1>12 DEF MuSig2CombineSig, SessionMethods
<1>13. CASE MuSig2Cleanup(c)
  BY <1>9, <1>13 DEF MuSig2Cleanup, SessionMethods
<1>14. QED
  BY <1>2, <1>3, <1>4, <1>5, <1>6, <1>7, <1>8, <1>10, <1>11, <1>12, <1>13 DEF Ask

\* A caller that is told nothing new keeps what it may rely on.
LEMMA SameCallerKeepsLease ==
    ASSUME CallsInv, LeaseTypes, NEW c \in Callers, LeaseInv(c),
           \A by, id, until : Rely(c, by, id, until) => Rely(c, by, id, until)',
           req' = req, told'[c] = told[c],
           \/ at'[c] = at[c] /\ answer'[c] = answer[c] /\ made'[c] = made[c]
                  /\ wire'[c] = wire[c]
           \/ answer'[c] = NoValue
    PROVE  LeaseInv(c)'
<1> SUFFICES ASSUME Leases(c)
             PROVE  ToldLease(c)' /\ AnsweredLease(c)'
  BY DEF LeaseInv, Leases
<1>1. ToldLease(c)'
  <2> SUFFICES ASSUME told'[c] # NoValue
               PROVE  Rely(c, told[c].by, told[c].id, told[c].until)'
    BY DEF ToldLease
  <2>1. Rely(c, told[c].by, told[c].id, told[c].until)
    BY DEF LeaseInv, ToldLease
  <2>2. PICK by, id, until : by = told[c].by /\ id = told[c].id /\ until = told[c].until
    OBVIOUS
  <2>3. Rely(c, by, id, until)'
    BY <2>1, <2>2
  <2>4. QED
    BY <2>2, <2>3 DEF Rely
<1>2. CASE answer'[c] = NoValue
  BY <1>1, <1>2 DEF AnsweredLease
<1>3. CASE at'[c] = at[c] /\ answer'[c] = answer[c] /\ made'[c] = made[c]
               /\ wire'[c] = wire[c]
  <2>1. AnsweredLease(c) /\ (IsError(c)' <=> IsError(c))
    BY <1>3 DEF LeaseInv, IsError
  <2>2. ASSUME NEW id, NEW until, Rely(c, made[c], id, until)
        PROVE  Rely(c, made[c], id, until)'
    <3>1. PICK by : by = made[c]
      OBVIOUS
    <3>2. Rely(c, by, id, until)'
      BY <2>2, <3>1
    <3>3. QED
      BY <1>3, <3>1, <3>2 DEF Rely
  <2> SUFFICES ASSUME at[c] = "waiting", answer[c] # NoValue, ~ IsError(c)
               PROVE  /\ wire[c].method \in LeaseMethods =>
                             Rely(c, made[c], answer[c].id, answer[c].until)'
                      /\ wire[c].method = "LeaseOutput" => answer[c].id = c
                      /\ wire[c].method = "ListLeases" =>
                             \A l \in answer[c].leases :
                                 l.id = c => Rely(c, made[c], l.id, l.until)'
    BY <1>1, <1>3, <2>1 DEF AnsweredLease
  <2>3. CASE wire[c].method \in LeaseMethods
    <3>1. PICK id, until : id = answer[c].id /\ until = answer[c].until
      OBVIOUS
    <3>2. Rely(c, made[c], id, until)'
      BY <2>1, <2>2, <2>3, <3>1 DEF AnsweredLease
    <3>3. Rely(c, made[c], answer[c].id, answer[c].until)'
      BY <1>3, <3>1, <3>2 DEF Rely
    <3>4. QED
      BY <2>1, <2>3, <3>3 DEF AnsweredLease, LeaseMethods
  <2>4. CASE wire[c].method = "ListLeases"
    BY <2>1, <2>2, <2>4 DEF AnsweredLease, LeaseMethods
  <2>5. QED
    BY <2>3, <2>4 DEF LeaseMethods
<1>4. QED
  BY <1>1, <1>2, <1>3

\* What a caller asks for changes nothing about leases.
LEMMA CallKeepsLease ==
    ASSUME TypeOK, CallsInv, LeaseTypes, NEW c \in Callers, NEW rpc, Call(c, rpc),
           \A d \in Callers \ {c} : told'[d] = told[d],
           Leases(c) => told' = told, NEW d \in Callers, LeaseInv(d),
           UNCHANGED clock
    PROVE  LeaseInv(d)'
<1>1. /\ made[c] \in Nat /\ made' = [made EXCEPT ![c] = made[c] + 1]
      /\ at' = [at EXCEPT ![c] = "waiting"] /\ wire' = [wire EXCEPT ![c] = rpc]
      /\ UNCHANGED <<req, lastDone, answer, lndVars>>
      /\ answer[c] = NoValue
      /\ flight' = flight \cup {[by |-> c, n |-> made[c] + 1, rpc |-> rpc]}
  BY DEF Call, CallsInv, CallTypes, Waits
<1>2. made'[d] \in Nat /\ made'[d] >= made[d] /\ lease' = lease /\ lastDone'[d] = lastDone[d]
  BY <1>1 DEF CallsInv, CallTypes, lndVars
<1>3. CASE Leases(d)
  <2>1. told'[d] = told[d]
    BY <1>3
  <2>2. \A by, id, until : Rely(d, by, id, until) => Rely(d, by, id, until)'
    <3>1. \A m \in flight' : m.by = d => m \in flight \/ m.n > made[d]
      BY <1>1
    <3>2. clock' \in Nat /\ clock' >= clock
      BY DEF LeaseTypes
    <3>3. QED
      BY <1>1, <1>2, <3>1, <3>2, QuietKeepsRely
  <2>3. CASE d = c
    <3>1. answer'[d] = NoValue
      BY <1>1, <2>3
    <3>2. QED
      BY <1>1, <2>1, <2>2, <3>1, SameCallerKeepsLease
  <2>4. CASE d # c
    <3>1. at'[d] = at[d] /\ wire'[d] = wire[d] /\ answer'[d] = answer[d] /\ made'[d] = made[d]
      BY <1>1, <2>4 DEF TypeOK, CallsInv, CallTypes
    <3>2. QED
      BY <1>1, <2>1, <2>2, <3>1, SameCallerKeepsLease
  <2>5. QED
    BY <2>3, <2>4
<1>4. CASE ~ Leases(d)
  BY <1>1, <1>4 DEF LeaseInv, Leases
<1>5. QED
  BY <1>3, <1>4

\* A caller is told of a lease only what it may rely on.
LEMMA ReturnTellsLease ==
    ASSUME TypeOK, CallsInv, LeaseTypes, NEW c \in Callers, LeaseInv(c), Leases(c),
           Return(c) \/ GiveUp(c),
           \A by, id, until : Rely(c, by, id, until) => Rely(c, by, id, until)'
    PROVE  ToldLease(c)'
<1>1. ReturnStep(c) /\ DOMAIN told = Callers
  BY ReturnsAreReturns DEF CallsInv, CallTypes
<1>2. LeaseRpc(c, wire[c]) /\ at[c] = "waiting" /\ UNCHANGED <<req, made>>
  BY <1>1, KindsOfRpcs DEF ReturnStep, Returns, CallsInv, Waits
<1>3. wire[c].method \in {"LeaseOutput", "FundPsbt", "ReleaseOutput", "ListLeases"}
  BY <1>2 DEF LeaseRpc
<1>4. ToldLease(c) /\ AnsweredLease(c)
  BY DEF LeaseInv
<1>5. ASSUME told'[c] = told[c]
      PROVE  ToldLease(c)'
  <2> SUFFICES ASSUME told'[c] # NoValue
               PROVE  Rely(c, told[c].by, told[c].id, told[c].until)'
    BY DEF ToldLease
  <2>1. Rely(c, told[c].by, told[c].id, told[c].until)
    BY <1>4, <1>5 DEF ToldLease
  <2>2. PICK by, id, until : by = told[c].by /\ id = told[c].id /\ until = told[c].until
    OBVIOUS
  <2>3. Rely(c, by, id, until)'
    BY <2>1, <2>2
  <2>4. QED
    BY <1>5, <2>2, <2>3 DEF Rely
<1>6. ASSUME NEW id, NEW until, Rely(c, made[c], id, until),
             told'[c] = [id |-> id, until |-> until, by |-> made[c]]
      PROVE  ToldLease(c)'
  <2>1. PICK by : by = made[c]
    OBVIOUS
  <2>2. Rely(c, by, id, until)'
    BY <1>6, <2>1
  <2>3. told'[c].by = by /\ told'[c].id = id /\ told'[c].until = until
    BY <1>6, <2>1
  <2>4. QED
    BY <2>2, <2>3 DEF ToldLease, Rely
<1>7. CASE ReturnLease(c)
  <2>1. /\ answer[c] # NoValue /\ ~ IsError(c) /\ wire[c].method = "LeaseOutput"
        /\ told'[c] = [id |-> c, until |-> answer[c].until, by |-> made[c]]
    BY <1>1, <1>7 DEF ReturnLease, Answered, Tell
  <2>2. Rely(c, made[c], answer[c].id, answer[c].until) /\ answer[c].id = c
    BY <1>2, <1>4, <2>1 DEF AnsweredLease, LeaseMethods
  <2>3. PICK id, until : id = answer[c].id /\ until = answer[c].until
    OBVIOUS
  <2>4. QED
    BY <1>6, <2>1, <2>2, <2>3
<1>8. CASE ReturnFunds(c)
  <2>1. /\ answer[c] # NoValue /\ ~ IsError(c) /\ wire[c].method = "FundPsbt"
        /\ told'[c] = [id |-> answer[c].id, until |-> answer[c].until, by |-> made[c]]
    BY <1>1, <1>8 DEF ReturnFunds, Answered, Tell
  <2>2. Rely(c, made[c], answer[c].id, answer[c].until)
    BY <1>2, <1>4, <2>1 DEF AnsweredLease, LeaseMethods
  <2>3. PICK id, until : id = answer[c].id /\ until = answer[c].until
    OBVIOUS
  <2>4. QED
    BY <1>6, <2>1, <2>2, <2>3
<1>9. CASE ReturnLeases(c)
  <2>1. answer[c] # NoValue /\ ~ IsError(c) /\ wire[c].method = "ListLeases"
    BY <1>9 DEF ReturnLeases, Answered
  <2>2. CASE told' = told
    BY <1>5, <2>2
  <2>3. CASE \E l \in answer[c].leases : l.id = c /\ Tell(c, l)
    <3>1. PICK l \in answer[c].leases : l.id = c /\ Tell(c, l)
      BY <2>3
    <3>2. Rely(c, made[c], l.id, l.until)
      BY <1>2, <1>4, <2>1, <3>1 DEF AnsweredLease
    <3>3. told'[c] = [id |-> l.id, until |-> l.until, by |-> made[c]]
      BY <1>1, <3>1 DEF Tell
    <3>4. PICK id, until : id = l.id /\ until = l.until
      OBVIOUS
    <3>5. QED
      BY <1>6, <3>2, <3>3, <3>4
  <2>4. QED
    BY <1>9, <2>2, <2>3 DEF ReturnLeases
<1>10. CASE ReturnRelease(c)
  BY <1>1, <1>10 DEF ReturnRelease, ToldLease
<1>11. CASE ReturnError(c) \/ GiveUp(c) \/ FundsDoNotConvert(c)
  BY <1>3, <1>5, <1>11 DEF ReturnError, GiveUp, FundsDoNotConvert, Unknowing
<1>12. QED
  BY <1>3, <1>7, <1>8, <1>9, <1>10, <1>11
     DEF Return, Answered, ReturnPage, PageDoesNotConvert, ReturnChannels,
         ChannelsDoNotConvert, ReturnSession, SessionDoesNotConvert, ReturnUse, ListMethods,
         ChannelMethods, ChannelLists, SessionMethods

\* Returns keep what is said of leases.
LEMMA ReturnKeepsLease ==
    ASSUME TypeOK, CallsInv, LeaseTypes, NEW c \in Callers, Return(c) \/ GiveUp(c),
           NEW d \in Callers, LeaseInv(d)
    PROVE  LeaseInv(d)'
<1>1. /\ ReturnStep(c) /\ answer' = [answer EXCEPT ![c] = NoValue]
      /\ at' = [at EXCEPT ![c] = "idle"] /\ wire' = [wire EXCEPT ![c] = NoValue]
      /\ UNCHANGED <<req, lndVars, made, lastDone>> /\ flight' \subseteq flight
  BY ReturnsAreReturns DEF ReturnStep, Returns
<1>2. \A by, id, until : Rely(d, by, id, until) => Rely(d, by, id, until)'
  <2>1. /\ clock' \in Nat /\ clock' >= clock /\ made'[d] \in Nat /\ made'[d] >= made[d]
        /\ lease' = lease /\ lastDone'[d] = lastDone[d]
    BY <1>1 DEF LeaseTypes, CallsInv, CallTypes, lndVars
  <2>2. QED
    BY <1>1, <2>1, QuietKeepsRely
<1>3. CASE d # c
  <2>1. /\ told'[d] = told[d] /\ at'[d] = at[d] /\ answer'[d] = answer[d]
        /\ made'[d] = made[d] /\ wire'[d] = wire[d]
    BY <1>1, <1>3 DEF ReturnStep, TypeOK, CallsInv, CallTypes
  <2>2. QED
    BY <1>1, <1>2, <2>1, SameCallerKeepsLease
<1>4. CASE d = c /\ Leases(d)
  <2>1. ToldLease(d)'
    BY <1>2, <1>4, ReturnTellsLease
  <2>2. AnsweredLease(d)'
    BY <1>1, <1>4 DEF AnsweredLease, TypeOK
  <2>3. QED
    BY <2>1, <2>2 DEF LeaseInv
<1>5. CASE ~ Leases(d)
  BY <1>1, <1>5 DEF LeaseInv, Leases
<1>6. QED
  BY <1>3, <1>4, <1>5

\* lnd keeps what is said of leases.
LEMMA LndKeepsLease ==
    ASSUME TypeOK, CallsInv, LeaseTypes, NEW m \in flight, Lnd(m),
           NEW d \in Callers, LeaseInv(d)
    PROVE  LeaseInv(d)'
<1>1. UNCHANGED <<req, at, wire, made, told>>
  BY Executions
<1>2. CASE Leases(d) /\ answer'[d] = answer[d]
  BY <1>1, <1>2, LndKeepsRely, SameCallerKeepsLease
<1>3. CASE Leases(d) /\ answer'[d] # answer[d]
  <2>1. AnsweredLease(d)'
    BY <1>3, LndAnswersLease
  <2>2. \A by, id, until : Rely(d, by, id, until) => Rely(d, by, id, until)'
    BY <1>3, LndKeepsRely
  <2>3. ToldLease(d)'
    <3> SUFFICES ASSUME told[d] # NoValue
                 PROVE  Rely(d, told[d].by, told[d].id, told[d].until)'
      BY <1>1 DEF ToldLease
    <3>1. PICK by, id, until :
              by = told[d].by /\ id = told[d].id /\ until = told[d].until
      OBVIOUS
    <3>2. Rely(d, by, id, until)'
      BY <1>3, <2>2, <3>1 DEF LeaseInv, ToldLease
    <3>3. QED
      BY <1>1, <3>1, <3>2 DEF Rely
  <2>4. QED
    BY <2>1, <2>3 DEF LeaseInv
<1>4. CASE ~ Leases(d)
  BY <1>1, <1>4 DEF LeaseInv, Leases
<1>5. QED
  BY <1>2, <1>3, <1>4

\* So do the steps of simple calls and the passing of time.
LEMMA OtherStepsKeepLease ==
    ASSUME TypeOK, CallsInv, LeaseTypes, NEW d \in Callers, LeaseInv(d),
           req' = req, lease' = lease, clock' \in Nat, clock' >= clock,
           UNCHANGED callVars,
           (at'[d] = at[d] /\ wire'[d] = wire[d]) \/ ~ Leases(d)
    PROVE  LeaseInv(d)'
<1>1. UNCHANGED <<flight, made, lastDone, answer, told>>
  BY DEF callVars
<1>2. \A by, id, until : Rely(d, by, id, until) => Rely(d, by, id, until)'
  <2>1. made'[d] \in Nat /\ made'[d] >= made[d]
    BY <1>1 DEF CallsInv, CallTypes
  <2>2. QED
    BY <1>1, <2>1, QuietKeepsRely
<1>3. CASE ~ Leases(d)
  BY <1>3 DEF LeaseInv, Leases
<1>4. CASE at'[d] = at[d] /\ wire'[d] = wire[d]
  BY <1>1, <1>2, <1>4, SameCallerKeepsLease
<1>5. QED
  BY <1>3, <1>4

-----------------------------------------------------------------------------
(* MuSig2 sessions. *)

\* The call that creates a session is still out.
Creating(c) ==
    IF at[c] = "waiting" /\ wire[c].method = "MuSig2CreateSession" THEN {made[c]} ELSE {}

\* The sessions that a caller knows of, or knows that they may be there.
Accounted(c) == told[c].known \cup told[c].dropped \cup Creating(c)

\* The sessions of a caller are those it has created and knows of, has dropped or is
\* creating.
KnownSessions(c) ==
    /\ told[c] \in [known : SUBSET Nat, dropped : SUBSET Nat]
    /\ \A s \in told[c].known : s \in 1 .. made[c] /\ <<c, s>> \in sessions
    /\ \A s : <<c, s>> \in sessions => s \in 1 .. made[c] /\ s \in Accounted(c)

\* What is in flight creates no session that is not accounted for, and ends none that
\* its caller counts on.
HarmlessRequest(c, m) ==
    /\ m.rpc.method = "MuSig2CreateSession" => m.n \in Accounted(c)
    /\ m.rpc.method \in SessionMethods =>
           \E s \in Nat : /\ s < m.n /\ m.rpc.session = <<c, s>>
                          /\ m.rpc.mayEnd => s \notin told[c].known

\* A request that may end a session.
EndsSession(m, c, s) ==
    /\ m.by = c /\ m.rpc.method \in SessionMethods
    /\ m.rpc.mayEnd /\ m.rpc.session = <<c, s>>

\* A caller that uses a session counts on it, or has asked for its end with this one
\* request; lnd still has a session that it says it has not ended.
CurrentUse(c) ==
    at[c] = "waiting" /\ wire[c].method \in SessionMethods =>
        \E s \in 1 .. made[c] :
            /\ wire[c].session = <<c, s>>
            /\ ~ wire[c].mayEnd => s \in told[c].known
            /\ wire[c].mayEnd => \A m \in flight : EndsSession(m, c, s) => m.n = made[c]
            /\ answer[c] # NoValue /\ ~ IsError(c) /\ ~ answer[c].ends =>
                   <<c, s>> \in sessions

\* An answer to a creation names the session that was created.
CurrentCreation(c) ==
    at[c] = "waiting" /\ wire[c].method = "MuSig2CreateSession" =>
        (answer[c] # NoValue /\ ~ IsError(c) =>
             answer[c].session = made[c] /\ <<c, made[c]>> \in sessions)

\* All that is said of the sessions of one caller.
SessionInv(c) ==
    Creates(c) =>
        /\ KnownSessions(c) /\ CurrentUse(c) /\ CurrentCreation(c)
        /\ \A m \in flight : m.by = c => HarmlessRequest(c, m)

\* Whose calls and sessions are left alone keeps what is said of them.
LEMMA OthersKeepSessions ==
    ASSUME NEW c \in Callers, SessionInv(c), req' = req,
           told'[c] = told[c], answer'[c] = answer[c], made'[c] = made[c],
           (at'[c] = at[c] /\ wire'[c] = wire[c]) \/ ~ Creates(c),
           \A m \in flight' : m.by = c => m \in flight,
           \A s : <<c, s>> \in sessions' <=> <<c, s>> \in sessions
    PROVE  SessionInv(c)'
<1> SUFFICES ASSUME Creates(c)
             PROVE  /\ KnownSessions(c)' /\ CurrentUse(c)' /\ CurrentCreation(c)'
                    /\ \A m \in flight' : m.by = c => HarmlessRequest(c, m)'
  BY DEF SessionInv, Creates
<1>1. /\ KnownSessions(c) /\ CurrentUse(c) /\ CurrentCreation(c)
      /\ \A m \in flight : m.by = c => HarmlessRequest(c, m)
      /\ at'[c] = at[c] /\ wire'[c] = wire[c]
  BY DEF SessionInv
<1>2. Accounted(c)' = Accounted(c) /\ (IsError(c)' <=> IsError(c))
  BY <1>1 DEF Accounted, Creating, IsError
<1>3. KnownSessions(c)'
  BY <1>1, <1>2 DEF KnownSessions
<1>4. CurrentUse(c)'
  BY <1>1, <1>2 DEF CurrentUse, EndsSession
<1>5. CurrentCreation(c)'
  BY <1>1, <1>2 DEF CurrentCreation
<1>6. \A m \in flight' : m.by = c => HarmlessRequest(c, m)'
  BY <1>1, <1>2 DEF HarmlessRequest
<1>7. QED
  BY <1>3, <1>4, <1>5, <1>6

\* A caller creates a session or uses one that it counts on.
LEMMA AskKeepsSessions ==
    ASSUME TypeOK, CallsInv, NEW c \in Callers, Creates(c), SessionInv(c), Ask(c)
    PROVE  SessionInv(c)'
<1>1. /\ KnownSessions(c) /\ \A m \in flight : m.by = c => HarmlessRequest(c, m)
      /\ DOMAIN told = Callers /\ made[c] \in Nat
  BY DEF SessionInv, CallsInv, CallTypes
<1>2. ASSUME NEW rpc, Call(c, rpc)
      PROVE  /\ at'[c] = "waiting" /\ wire'[c] = rpc /\ made'[c] = made[c] + 1
             /\ answer'[c] = NoValue /\ UNCHANGED <<req, sessions>> /\ at[c] = "idle"
             /\ flight' = flight \cup {[by |-> c, n |-> made[c] + 1, rpc |-> rpc]}
  BY <1>2 DEF Call, TypeOK, CallsInv, CallTypes, Waits, lndVars
<1>3. Creating(c) = {}
  <2>1. at[c] = "idle"
    BY DEF Call, Ask, AskPage, AskChannels, AskLease, AskFunds, AskRelease, AskLeases,
           AskSession, MuSig2RegisterNonces, MuSig2Sign, MuSig2CombineSig,
           MuSig2Cleanup, UseSession
  <2>2. QED
    BY <2>1 DEF Creating
<1>4. \A m \in flight : m.by = c => m.n \in 1 .. made[c]
  BY DEF CallsInv, InFlight
<1>5. CASE AskSession(c)
  <2>1. Call(c, [method |-> "MuSig2CreateSession"]) /\ told' = told
    BY <1>5 DEF AskSession
  <2>2. /\ at'[c] = "waiting" /\ wire'[c] = [method |-> "MuSig2CreateSession"]
        /\ made'[c] = made[c] + 1 /\ answer'[c] = NoValue
        /\ UNCHANGED <<req, sessions, told>>
        /\ flight' = flight \cup {[by |-> c, n |-> made[c] + 1,
                                   rpc |-> [method |-> "MuSig2CreateSession"]]}
    BY <1>2, <2>1
  <2>3. Accounted(c)' = Accounted(c) \cup {made[c] + 1}
    BY <1>3, <2>2 DEF Accounted, Creating
  <2>4. KnownSessions(c)'
    <3>1. told'[c] \in [known : SUBSET Nat, dropped : SUBSET Nat]
      BY <1>1, <2>2 DEF KnownSessions
    <3>2. \A s \in told'[c].known : s \in 1 .. made'[c] /\ <<c, s>> \in sessions'
      BY <1>1, <2>2 DEF KnownSessions
    <3>3. ASSUME NEW s, <<c, s>> \in sessions'
          PROVE  s \in 1 .. made'[c] /\ s \in Accounted(c)'
      BY <1>1, <2>2, <2>3, <3>3 DEF KnownSessions
    <3>4. QED
      BY <3>1, <3>2, <3>3 DEF KnownSessions
  <2>5. CurrentUse(c)' /\ CurrentCreation(c)'
    BY <2>2 DEF CurrentUse, CurrentCreation, SessionMethods
  <2>6. ASSUME NEW m \in flight', m.by = c
        PROVE  HarmlessRequest(c, m)'
    <3>1. CASE m \in flight
      BY <1>1, <2>2, <2>3, <2>6, <3>1 DEF HarmlessRequest
    <3>2. CASE m = [by |-> c, n |-> made[c] + 1,
                    rpc |-> [method |-> "MuSig2CreateSession"]]
      BY <2>3, <3>2 DEF HarmlessRequest, SessionMethods
    <3>3. QED
      BY <2>2, <3>1, <3>2
  <2>7. QED
    BY <2>4, <2>5, <2>6 DEF SessionInv
<1>6. ASSUME NEW method \in SessionMethods, NEW mayEnd \in BOOLEAN,
             UseSession(c, method, mayEnd)
      PROVE  SessionInv(c)'
  <2>1. PICK s \in told[c].known :
            /\ Call(c, [method |-> method, session |-> <<c, s>>, mayEnd |-> mayEnd])
            /\ told' = IF mayEnd
                       THEN [told EXCEPT ![c].known = @ \ {s},
                                         ![c].dropped = @ \cup {s}]
                       ELSE told
    BY <1>6 DEF UseSession
  <2>2. PICK rpc : rpc = [method |-> method, session |-> <<c, s>>, mayEnd |-> mayEnd]
    OBVIOUS
  <2>3. /\ at'[c] = "waiting" /\ wire'[c] = rpc /\ made'[c] = made[c] + 1
        /\ answer'[c] = NoValue /\ UNCHANGED <<req, sessions>>
        /\ flight' = flight \cup {[by |-> c, n |-> made[c] + 1, rpc |-> rpc]}
    BY <1>2, <2>1, <2>2
  <2>4. /\ s \in 1 .. made[c] /\ <<c, s>> \in sessions
        /\ told[c] \in [known : SUBSET Nat, dropped : SUBSET Nat]
    BY <1>1, <2>1 DEF KnownSessions
  <2>5. /\ told'[c].known = IF mayEnd THEN told[c].known \ {s} ELSE told[c].known
        /\ told'[c].dropped = IF mayEnd THEN told[c].dropped \cup {s}
                                        ELSE told[c].dropped
        /\ told'[c] \in [known : SUBSET Nat, dropped : SUBSET Nat]
    BY <1>1, <2>1, <2>4
  <2>6. /\ rpc.method = method /\ rpc.session = <<c, s>> /\ rpc.mayEnd = mayEnd
        /\ method # "MuSig2CreateSession"
    BY <2>2 DEF SessionMethods
  <2>7. Creating(c)' = {} /\ Accounted(c)' = Accounted(c)
    <3>1. Creating(c)' = {}
      BY <2>3, <2>6 DEF Creating
    <3>2. told'[c].known \cup told'[c].dropped = told[c].known \cup told[c].dropped
      BY <2>1, <2>5
    <3>3. QED
      BY <1>3, <3>1, <3>2 DEF Accounted
  <2>8. KnownSessions(c)'
    <3>1. \A t \in told'[c].known : t \in 1 .. made'[c] /\ <<c, t>> \in sessions'
      BY <1>1, <2>3, <2>5 DEF KnownSessions
    <3>2. ASSUME NEW t, <<c, t>> \in sessions'
          PROVE  t \in 1 .. made'[c] /\ t \in Accounted(c)'
      BY <1>1, <2>3, <2>7, <3>2 DEF KnownSessions
    <3>3. QED
      BY <2>5, <3>1, <3>2 DEF KnownSessions
  <2>9. ASSUME NEW m \in flight, m.by = c
        PROVE  /\ HarmlessRequest(c, m)' /\ ~ EndsSession(m, c, s)
               /\ m.n \in 1 .. made[c]
    <3>1. HarmlessRequest(c, m) /\ m.n \in 1 .. made[c]
      BY <1>1, <1>4, <2>9
    <3>2. HarmlessRequest(c, m)'
      BY <2>5, <2>7, <3>1 DEF HarmlessRequest
    <3>3. ~ EndsSession(m, c, s)
      BY <2>1, <3>1 DEF HarmlessRequest, EndsSession
    <3>4. QED
      BY <3>1, <3>2, <3>3
  <2>10. ASSUME NEW m, m = [by |-> c, n |-> made[c] + 1, rpc |-> rpc]
         PROVE  HarmlessRequest(c, m)'
    <3>1. m.rpc = rpc /\ m.n = made[c] + 1 /\ s < m.n /\ s \in Nat
      BY <1>1, <2>4, <2>10
    <3>2. mayEnd => s \notin told'[c].known
      BY <2>5
    <3>3. QED
      BY <2>6, <3>1, <3>2 DEF HarmlessRequest
  <2>11. CurrentCreation(c)'
    BY <2>3, <2>6 DEF CurrentCreation
  <2>12. CurrentUse(c)'
    <3>1. s \in 1 .. made'[c]
      BY <1>1, <2>3, <2>4
    <3>2. ~ mayEnd => s \in told'[c].known
      BY <2>1, <2>5
    <3>3. ASSUME NEW m \in flight', EndsSession(m, c, s)
          PROVE  m.n = made'[c]
      BY <2>3, <2>9, <3>3 DEF EndsSession
    <3>4. QED
      BY <2>3, <2>6, <3>1, <3>2, <3>3 DEF CurrentUse, EndsSession
  <2>13. QED
    BY <2>3, <2>8, <2>9, <2>10, <2>11, <2>12 DEF SessionInv
<1>7. CASE MuSig2RegisterNonces(c) \/ MuSig2Sign(c) \/ MuSig2CombineSig(c)
           \/ MuSig2Cleanup(c)
  BY <1>6, <1>7 DEF MuSig2RegisterNonces, MuSig2Sign, MuSig2CombineSig, MuSig2Cleanup,
                    SessionMethods
<1>8. QED
  BY <1>5, <1>7
     DEF Ask, AskPage, AskChannels, AskLease, AskFunds, AskRelease, AskLeases,
         Looks, Creates, ListMethods, LeaseMethods

\* What a call of a session returns, or that it returns an error, is remembered.
LEMMA ReturnKeepsSessions ==
    ASSUME TypeOK, CallsInv, NEW c \in Callers, Creates(c), SessionInv(c),
           Return(c) \/ GiveUp(c)
    PROVE  SessionInv(c)'
<1>1. /\ at[c] = "waiting" /\ at'[c] = "idle" /\ answer'[c] = NoValue
      /\ UNCHANGED <<req, sessions, made>> /\ flight' \subseteq flight
      /\ DOMAIN told = Callers /\ made[c] \in Nat
  BY ReturnsAreReturns
     DEF ReturnStep, Returns, TypeOK, CallsInv, CallTypes, lndVars
<1>2. /\ KnownSessions(c) /\ CurrentUse(c) /\ CurrentCreation(c)
      /\ \A m \in flight : m.by = c => HarmlessRequest(c, m)
  BY DEF SessionInv
<1>3. SessionRpc(c, wire[c])
  BY <1>1, KindsOfRpcs DEF CallsInv, Waits
<1>4. told[c] \in [known : SUBSET Nat, dropped : SUBSET Nat]
  BY <1>2 DEF KnownSessions
<1>5. Creating(c)' = {}
  BY <1>1 DEF Creating
\* It suffices that the sessions that are new to the caller are there and will stay, and
\* that it forgets none.
<1>6. ASSUME told'[c] \in [known : SUBSET Nat, dropped : SUBSET Nat],
             Accounted(c) \subseteq told'[c].known \cup told'[c].dropped,
             \A s \in told'[c].known \ told[c].known :
                 /\ s \in 1 .. made[c] /\ <<c, s>> \in sessions
                 /\ \A m \in flight : ~ EndsSession(m, c, s)
      PROVE  SessionInv(c)'
  <2>1. Accounted(c) \subseteq Accounted(c)'
    BY <1>6 DEF Accounted
  <2>2. KnownSessions(c)'
    BY <1>1, <1>2, <1>6, <2>1 DEF KnownSessions
  <2>3. CurrentUse(c)' /\ CurrentCreation(c)'
    BY <1>1 DEF CurrentUse, CurrentCreation
  <2>4. ASSUME NEW m \in flight', m.by = c
        PROVE  HarmlessRequest(c, m)'
    <3>1. HarmlessRequest(c, m) /\ m \in flight
      BY <1>1, <1>2, <2>4
    <3>2. m.rpc.method = "MuSig2CreateSession" => m.n \in Accounted(c)'
      BY <2>1, <3>1 DEF HarmlessRequest
    <3>3. ASSUME m.rpc.method \in SessionMethods
          PROVE  \E s \in Nat : /\ s < m.n /\ m.rpc.session = <<c, s>>
                                /\ m.rpc.mayEnd => s \notin told'[c].known
      <4>1. PICK s \in Nat : /\ s < m.n /\ m.rpc.session = <<c, s>>
                             /\ m.rpc.mayEnd => s \notin told[c].known
        BY <3>1, <3>3 DEF HarmlessRequest
      <4>2. m.rpc.mayEnd => s \notin told'[c].known
        BY <1>6, <2>4, <3>1, <3>3, <4>1 DEF EndsSession
      <4>3. QED
        BY <4>1, <4>2
    <3>4. QED
      BY <3>2, <3>3 DEF HarmlessRequest
  <2>5. QED
    BY <2>2, <2>3, <2>4 DEF SessionInv
<1>7. CASE told' = Unknowing(c)
  <2>1. CASE wire[c].method = "MuSig2CreateSession"
    <3>1. Creating(c) = {made[c]}
      BY <1>1, <2>1 DEF Creating
    <3>2. told' = [told EXCEPT ![c].dropped = @ \cup {made[c]}]
      BY <1>7, <2>1 DEF Unknowing
    <3>3. told'[c] = [known |-> told[c].known, dropped |-> told[c].dropped \cup {made[c]}]
      BY <1>1, <1>4, <3>2
    <3>4. QED
      BY <1>1, <1>4, <1>6, <3>1, <3>3 DEF Accounted
  <2>2. CASE wire[c].method # "MuSig2CreateSession"
    <3>1. told' = told /\ Creating(c) = {}
      BY <1>7, <2>2 DEF Unknowing, Creating
    <3>2. QED
      BY <1>4, <1>6, <3>1 DEF Accounted
  <2>3. QED
    BY <2>1, <2>2
<1>8. CASE ReturnSession(c)
  <2>1. /\ wire[c].method = "MuSig2CreateSession" /\ answer[c] # NoValue /\ ~ IsError(c)
        /\ told' = [told EXCEPT ![c].known = @ \cup {answer[c].session}]
    BY <1>8 DEF ReturnSession, Answered
  <2>2. answer[c].session = made[c] /\ <<c, made[c]>> \in sessions
    BY <1>1, <1>2, <2>1 DEF CurrentCreation
  <2>3. told'[c] = [known |-> told[c].known \cup {made[c]}, dropped |-> told[c].dropped]
    BY <1>1, <1>4, <2>1, <2>2
  <2>4. Creating(c) = {made[c]}
    BY <1>1, <2>1 DEF Creating
  <2>5. ASSUME NEW m \in flight, EndsSession(m, c, made[c])
        PROVE  FALSE
    <3>1. m.n \in 1 .. made[c] /\ HarmlessRequest(c, m)
      BY <1>2, <2>5 DEF EndsSession, CallsInv, InFlight
    <3>2. PICK s \in Nat : s < m.n /\ m.rpc.session = <<c, s>>
      BY <2>5, <3>1 DEF EndsSession, HarmlessRequest
    <3>3. s = made[c]
      BY <2>5, <3>2 DEF EndsSession
    <3>4. QED
      BY <1>1, <3>1, <3>2, <3>3
  <2>6. <<c, made[c]>> \in sessions => made[c] \in 1 .. made[c]
    BY <1>2 DEF KnownSessions
  <2>7. Accounted(c) \subseteq told'[c].known \cup told'[c].dropped
    BY <2>3, <2>4 DEF Accounted
  <2>8. told'[c] \in [known : SUBSET Nat, dropped : SUBSET Nat]
    BY <1>1, <1>4, <2>3
  <2>9. QED
    BY <1>6, <2>2, <2>3, <2>5, <2>6, <2>7, <2>8
<1>9. CASE ReturnUse(c)
  <2>1. /\ wire[c].method \in SessionMethods /\ answer[c] # NoValue /\ ~ IsError(c)
        /\ told' = IF answer[c].ends THEN told
                   ELSE [told EXCEPT ![c].known = @ \cup {wire[c].session[2]},
                                     ![c].dropped = @ \ {wire[c].session[2]}]
    BY <1>9 DEF ReturnUse, Answered
  <2>2. Creating(c) = {}
    BY <2>1 DEF Creating, SessionMethods
  <2>3. CASE answer[c].ends
    BY <1>4, <1>6, <2>1, <2>2, <2>3 DEF Accounted
  <2>4. CASE ~ answer[c].ends
    <3>1. PICK s \in 1 .. made[c] :
              /\ wire[c].session = <<c, s>>
              /\ ~ wire[c].mayEnd => s \in told[c].known
              /\ wire[c].mayEnd => \A m \in flight : EndsSession(m, c, s) => m.n = made[c]
              /\ <<c, s>> \in sessions
      BY <1>1, <1>2, <2>1, <2>4 DEF CurrentUse
    <3>2. told' = [told EXCEPT ![c].known = @ \cup {s}, ![c].dropped = @ \ {s}]
      BY <2>1, <2>4, <3>1
    <3>3. told'[c] = [known |-> told[c].known \cup {s}, dropped |-> told[c].dropped \ {s}]
      BY <1>1, <1>4, <3>2
    <3>4. ASSUME NEW m \in flight, s \notin told[c].known
          PROVE  ~ EndsSession(m, c, s)
      <4>1. SUFFICES ASSUME EndsSession(m, c, s)
                     PROVE  FALSE
        OBVIOUS
      <4>2. wire[c].mayEnd
        BY <1>3, <2>1, <3>1, <3>4 DEF SessionRpc, SessionMethods
      <4>3. m.n = made[c] /\ m.by = c /\ InFlight(m)
        BY <3>1, <4>1, <4>2 DEF EndsSession, CallsInv
      <4>4. QED
        BY <1>1, <2>1, <4>3 DEF InFlight, Current
    <3>5. Accounted(c) \subseteq told'[c].known \cup told'[c].dropped
      BY <2>2, <3>3 DEF Accounted
    <3>6. told'[c] \in [known : SUBSET Nat, dropped : SUBSET Nat]
      BY <1>4, <3>3
    <3>7. QED
      BY <1>6, <3>1, <3>3, <3>4, <3>5, <3>6
  <2>5. QED
    BY <2>3, <2>4
<1>10. CASE ReturnError(c) \/ GiveUp(c) \/ SessionDoesNotConvert(c)
  BY <1>7, <1>10 DEF ReturnError, GiveUp, SessionDoesNotConvert
<1>11. wire[c].method \in SessionMethods \cup {"MuSig2CreateSession"}
  BY <1>3 DEF SessionRpc
<1>12. QED
  BY <1>8, <1>9, <1>10, <1>11
     DEF Return, Answered, ReturnPage, PageDoesNotConvert, ReturnChannels,
         ChannelsDoNotConvert, ReturnLease, ReturnFunds, FundsDoNotConvert,
         ReturnRelease, ReturnLeases, ListMethods, ChannelMethods,
         ChannelLists, SessionMethods

\* What lnd does for one caller leaves the sessions of the others alone.
LEMMA LndKeepsOthersSessions ==
    ASSUME CallsInv, NEW m \in flight, Lnd(m), NEW c \in Callers, m.by # c
    PROVE  \A s : <<c, s>> \in sessions' <=> <<c, s>> \in sessions
<1>1. CASE LndCreates(m)
  BY <1>1 DEF LndCreates
<1>2. CASE LndUses(m)
  <2>1. m.rpc.method \in SessionMethods /\ RpcOf(m.by, m.rpc)
    BY <1>2 DEF LndUses, CallsInv, InFlight
  <2>2. \E session : m.rpc.session = <<m.by, session>>
    BY <2>1, KindsOfRpcs DEF SessionRpc, SessionMethods
  <2>3. sessions' = sessions \/ sessions' = sessions \ {m.rpc.session}
    BY <1>2 DEF LndUses
  <2>4. QED
    BY <2>2, <2>3
<1>3. QED
  BY <1>1, <1>2
     DEF Lnd, LndLists, LndListsChannels, LndLeases, LndFunds, LndReleases,
         LndListsLeases, LndFails, lndVars

\* lnd creates a session, or uses one and possibly ends it.
LEMMA LndKeepsSessions ==
    ASSUME CallsInv, NEW m \in flight, Lnd(m), NEW c \in Callers, m.by = c, Creates(c),
           SessionInv(c)
    PROVE  SessionInv(c)'
<1>1. /\ UNCHANGED <<req, at, wire, made, told>> /\ flight' = flight \ {m}
      /\ answer'[c] # answer[c] =>
             at[c] = "waiting" /\ wire[c] = m.rpc /\ made[c] = m.n
  BY Executions
<1>2. /\ KnownSessions(c) /\ CurrentUse(c) /\ CurrentCreation(c)
      /\ \A o \in flight : o.by = c => HarmlessRequest(c, o)
  BY DEF SessionInv
<1>3. InFlight(m) /\ m.n \in 1 .. made[c] /\ made[c] \in Nat /\ SessionRpc(c, m.rpc)
  BY KindsOfRpcs DEF CallsInv, CallTypes, InFlight
<1>4. Accounted(c)' = Accounted(c)
  BY <1>1 DEF Accounted, Creating
<1>5. \A o \in flight' : o.by = c => HarmlessRequest(c, o)'
  BY <1>1, <1>2, <1>4 DEF HarmlessRequest
<1>6. HarmlessRequest(c, m)
  BY <1>2
\* If the sessions of the caller stay, it is about the answer only.
<1>7. CASE LndFails(m)
  <2>1. sessions' = sessions /\ (answer'[c] = answer[c] \/ answer'[c] = [error |-> TRUE])
    BY <1>7 DEF LndFails, lndVars, CallsInv, CallTypes
  <2>2. KnownSessions(c)'
    BY <1>1, <1>2, <1>4, <2>1 DEF KnownSessions
  <2>3. CASE answer'[c] = answer[c]
    BY <1>1, <1>2, <1>5, <2>1, <2>2, <2>3
       DEF SessionInv, CurrentUse, CurrentCreation, IsError, EndsSession
  <2>4. CASE answer'[c] = [error |-> TRUE]
    <3>1. IsError(c)'
      BY <2>4 DEF IsError
    <3>2. CurrentUse(c)'
      BY <1>1, <1>2, <3>1 DEF CurrentUse, EndsSession
    <3>3. CurrentCreation(c)'
      BY <3>1 DEF CurrentCreation
    <3>4. QED
      BY <1>5, <2>2, <3>2, <3>3 DEF SessionInv
  <2>5. QED
    BY <2>1, <2>3, <2>4
<1>8. CASE LndCreates(m)
  <2>1. /\ m.rpc.method = "MuSig2CreateSession"
        /\ sessions' = sessions \cup {<<c, m.n>>}
        /\ answer'[c] = answer[c] \/ answer'[c] = [session |-> m.n]
    BY <1>8 DEF LndCreates, Done, CallsInv, CallTypes
  <2>2. m.n \in Accounted(c)
    BY <1>6, <2>1 DEF HarmlessRequest
  <2>3. KnownSessions(c)'
    BY <1>1, <1>2, <1>3, <1>4, <2>1, <2>2 DEF KnownSessions
  <2>4. CurrentUse(c)'
    <3>1. CASE answer'[c] = answer[c]
      BY <1>1, <1>2, <2>1, <3>1 DEF CurrentUse, EndsSession, IsError
    <3>2. CASE answer'[c] # answer[c]
      BY <1>1, <2>1, <3>2 DEF CurrentUse, SessionMethods
    <3>3. QED
      BY <3>1, <3>2
  <2>5. CurrentCreation(c)'
    <3>1. CASE answer'[c] = answer[c]
      BY <1>1, <1>2, <2>1, <3>1 DEF CurrentCreation, IsError
    <3>2. CASE answer'[c] # answer[c]
      <4>1. answer'[c].session = m.n /\ made'[c] = m.n
        BY <1>1, <2>1, <3>2
      <4>2. QED
        BY <2>1, <4>1 DEF CurrentCreation
    <3>3. QED
      BY <3>1, <3>2
  <2>6. QED
    BY <1>5, <2>3, <2>4, <2>5 DEF SessionInv
<1>9. CASE LndUses(m)
  <2>1. PICK ends \in IF m.rpc.method = "MuSig2CombineSig" THEN BOOLEAN
                                                           ELSE {m.rpc.mayEnd} :
            /\ sessions' = IF ends THEN sessions \ {m.rpc.session} ELSE sessions
            /\ Done(m, [ends |-> ends])
    BY <1>9 DEF LndUses
  <2>2. m.rpc.method \in SessionMethods /\ m.rpc.session \in sessions
    BY <1>9 DEF LndUses
  <2>3. PICK s \in Nat : /\ s < m.n /\ m.rpc.session = <<c, s>>
                         /\ m.rpc.mayEnd => s \notin told[c].known
    BY <1>6, <2>2 DEF HarmlessRequest
  <2>4. ends => m.rpc.mayEnd
    BY <1>3, <2>1, <2>2 DEF SessionRpc, SessionMethods
  <2>5. /\ answer'[c] = answer[c] \/ answer'[c] = [ends |-> ends]
        /\ sessions' = IF ends THEN sessions \ {<<c, s>>} ELSE sessions
    BY <2>1, <2>3 DEF Done, CallsInv, CallTypes
  <2>6. KnownSessions(c)'
    <3>1. \A t \in told'[c].known : t \in 1 .. made'[c] /\ <<c, t>> \in sessions'
      BY <1>1, <1>2, <2>3, <2>4, <2>5 DEF KnownSessions
    <3>2. \A t : <<c, t>> \in sessions' => t \in 1 .. made'[c] /\ t \in Accounted(c)'
      BY <1>1, <1>2, <1>4, <2>5 DEF KnownSessions
    <3>3. QED
      BY <1>1, <1>2, <3>1, <3>2 DEF KnownSessions
\* An answer that came earlier still stands, as nothing that is in flight then ends
\* the session it is about.
  <2>7. CASE answer'[c] = answer[c]
    <3>1. CurrentCreation(c)'
      <4> SUFFICES ASSUME at[c] = "waiting", wire[c].method = "MuSig2CreateSession",
                          answer[c] # NoValue, ~ IsError(c)
                   PROVE  answer[c].session = made[c] /\ <<c, made[c]>> \in sessions'
        BY <1>1, <2>7 DEF CurrentCreation, IsError
      <4>1. answer[c].session = made[c] /\ <<c, made[c]>> \in sessions
        BY <1>2 DEF CurrentCreation
      <4>2. s # made[c]
        BY <1>3, <2>3
      <4>3. QED
        BY <2>5, <4>1, <4>2
    <3>2. CurrentUse(c)'
      <4> SUFFICES ASSUME at[c] = "waiting", wire[c].method \in SessionMethods
                   PROVE  \E t \in 1 .. made[c] :
                              /\ wire[c].session = <<c, t>>
                              /\ ~ wire[c].mayEnd => t \in told[c].known
                              /\ wire[c].mayEnd =>
                                     \A o \in flight' : EndsSession(o, c, t) => o.n = made[c]
                              /\ answer[c] # NoValue /\ ~ IsError(c) /\ ~ answer[c].ends =>
                                     <<c, t>> \in sessions'
        BY <1>1, <2>7 DEF CurrentUse, IsError, EndsSession
      <4>1. PICK t \in 1 .. made[c] :
                /\ wire[c].session = <<c, t>>
                /\ ~ wire[c].mayEnd => t \in told[c].known
                /\ wire[c].mayEnd =>
                       \A o \in flight : EndsSession(o, c, t) => o.n = made[c]
                /\ answer[c] # NoValue /\ ~ IsError(c) /\ ~ answer[c].ends =>
                       <<c, t>> \in sessions
        BY <1>2 DEF CurrentUse
      <4>2. ASSUME answer[c] # NoValue, ~ IsError(c), ~ answer[c].ends
            PROVE  <<c, t>> \in sessions'
        <5>1. <<c, t>> \in sessions
          BY <4>1, <4>2
        <5>2. CASE ~ ends \/ s # t
          BY <2>5, <5>1, <5>2
        <5>3. CASE ends /\ s = t
          <6>1. EndsSession(m, c, t)
            BY <2>2, <2>3, <2>4, <5>3 DEF EndsSession
          <6>2. wire[c].mayEnd \in BOOLEAN
            BY KindsOfRpcs DEF CallsInv, Waits, SessionRpc, SessionMethods
          <6>3. wire[c].mayEnd
            BY <2>3, <2>4, <4>1, <5>3, <6>2
          <6>4. m.n = made[c]
            BY <4>1, <6>1, <6>3
          <6>5. QED
            BY <1>3, <4>2, <6>4 DEF InFlight, Current
        <5>4. QED
          BY <5>2, <5>3
      <4>3. QED
        BY <1>1, <4>1, <4>2
    <3>3. QED
      BY <1>5, <2>6, <3>1, <3>2 DEF SessionInv
  <2>8. CASE answer'[c] # answer[c]
    <3>1. /\ answer'[c] = [ends |-> ends] /\ at[c] = "waiting" /\ wire[c] = m.rpc
          /\ made[c] = m.n
      BY <1>1, <2>5, <2>8
    <3>2. PICK t \in 1 .. made[c] :
              /\ wire[c].session = <<c, t>>
              /\ ~ wire[c].mayEnd => t \in told[c].known
              /\ wire[c].mayEnd => \A o \in flight : EndsSession(o, c, t) => o.n = made[c]
      BY <1>2, <2>2, <3>1 DEF CurrentUse
    <3>3. t = s /\ (~ ends => <<c, t>> \in sessions')
      BY <2>2, <2>3, <2>5, <3>1, <3>2
    <3>4. answer'[c].ends = ends
      BY <3>1
    <3>5. CurrentUse(c)'
      BY <1>1, <3>2, <3>3, <3>4 DEF CurrentUse, EndsSession
    <3>6. CurrentCreation(c)'
      BY <1>1, <2>2, <3>1 DEF CurrentCreation, SessionMethods
    <3>7. QED
      BY <1>5, <2>6, <3>5, <3>6 DEF SessionInv
  <2>9. QED
    BY <2>7, <2>8
<1>10. m.rpc.method \in SessionMethods \cup {"MuSig2CreateSession"}
  BY <1>3 DEF SessionRpc
<1>11. QED
  BY <1>7, <1>8, <1>9, <1>10
     DEF Lnd, LndLists, LndListsChannels, LndLeases, LndFunds, LndReleases,
         LndListsLeases, ListMethods, ChannelMethods, ChannelLists,
         SessionMethods

-----------------------------------------------------------------------------
(* Channels. *)

\* The stages of the channel.
ChannelTypes == channel \in [stage : {"pending open", "open"}] \cup Ends

\* Where a channel is that had been open and is in none of the first lists.
LaterThan(lists) ==
    /\ channel.stage # "pending open"
    /\ lists > 0 => channel.stage # "open"
    /\ lists > 1 => channel.stage = "closed"
    /\ lists < 3

\* A close initiator that was shown is right.
ShownAsItIs(shown) ==
    shown.list = "closed" =>
        /\ channel.stage = "closed"
        /\ shown.initiator \in {channel.closer, "unrecorded"}
        /\ shown.type \in ForceCloses => shown.initiator = channel.closer

\* What a caller that has read some of the lists knows: it has seen the channel, or
\* the channel is in a later list.
ToldChannels(c) ==
    /\ told[c] = [lists |-> told[c].lists, seen |-> told[c].seen, must |-> told[c].must]
    /\ told[c].lists \in 0 .. 3
    /\ told[c].lists > 0 => made[c] > 0
    /\ told[c].must /\ told[c].seen = {} => LaterThan(told[c].lists)
    /\ \A shown \in told[c].seen : ShownAsItIs(shown)

\* An answer on its way is of the list that was asked for, and if the channel is not in
\* it, it is in a later one.
AnsweredChannels(c) ==
    at[c] = "waiting" =>
        /\ told[c].lists < 3 /\ wire[c].method = ChannelLists[told[c].lists + 1]
        /\ answer[c] # NoValue /\ ~ IsError(c) =>
               /\ told[c].must /\ told[c].seen = {} /\ answer[c].channels = {} =>
                      LaterThan(told[c].lists + 1)
               /\ wire[c].method = "PendingChannels" =>
                      \A x \in answer[c].channels : x.stage # "closed"
               /\ wire[c].method = "ClosedChannels" =>
                      \A x \in answer[c].channels : x = channel /\ x.stage = "closed"

ChannelInv(c) == Looks(c) => ToldChannels(c) /\ AnsweredChannels(c)

\* A channel only goes forward, and stays as it is when it is closed.
LEMMA ChannelMoves ==
    ASSUME ChannelTypes, ChannelOpens \/ ChannelCloses
    PROVE  /\ ChannelTypes' /\ channel.stage # "closed"
           /\ \A lists \in Int : LaterThan(lists) => LaterThan(lists)'
<1>1. CASE ChannelOpens
  <2>1. channel.stage = "pending open" /\ channel' = [stage |-> "open"]
    BY <1>1 DEF ChannelOpens
  <2>2. QED
    BY <2>1 DEF ChannelTypes, LaterThan
<1>2. CASE ChannelCloses
  <2>1. PICK end \in Ends :
            /\ channel' = end
            /\ CASE channel.stage = "pending open" -> end.stage = "closed"
                 [] channel.stage = "open" -> TRUE
                 [] channel.stage = "waiting close" -> end.stage # "waiting close"
                 [] channel.stage = "force closing" ->
                      [channel EXCEPT !.stage = "closed"] = end
                 [] OTHER -> FALSE
    BY <1>2 DEF ChannelCloses
  <2>2. end.stage \in {"waiting close", "force closing", "closed"}
    BY DEF Ends
  <2>3. ChannelTypes'
    BY <2>1 DEF ChannelTypes
  <2>4. channel.stage # "closed"
    BY <2>1
  <2>5. channel.stage \in {"pending open", "open", "waiting close", "force closing"}
    BY <2>4 DEF ChannelTypes, Ends
  <2>6. channel.stage = "force closing" => end.stage = "closed"
    BY <2>1 DEF ChannelTypes, Ends
  <2>7. ASSUME NEW lists \in Int, LaterThan(lists)
        PROVE  LaterThan(lists)'
    BY <2>1, <2>2, <2>4, <2>5, <2>6, <2>7 DEF LaterThan
  <2>8. QED
    BY <2>3, <2>4, <2>7
<1>3. QED
  BY <1>1, <1>2

\* Who is not concerned by a step still has it right, wherever the channel goes.
LEMMA OthersKeepChannels ==
    ASSUME NEW c \in Callers, ChannelInv(c), ChannelTypes, req' = req,
           channel' = channel \/ ChannelOpens \/ ChannelCloses,
           told'[c] = told[c], answer'[c] = answer[c], made'[c] = made[c],
           (at'[c] = at[c] /\ wire'[c] = wire[c]) \/ ~ Looks(c)
    PROVE  ChannelInv(c)'
<1> SUFFICES ASSUME Looks(c)
             PROVE  ToldChannels(c)' /\ AnsweredChannels(c)'
  BY DEF ChannelInv, Looks
<1>1. ToldChannels(c) /\ AnsweredChannels(c) /\ at'[c] = at[c] /\ wire'[c] = wire[c]
  BY DEF ChannelInv
<1>2. /\ \A lists \in Int : LaterThan(lists) => LaterThan(lists)'
      /\ channel.stage = "closed" => channel' = channel
  <2>1. CASE channel' = channel
    BY <2>1 DEF LaterThan
  <2>2. QED
    BY <2>1, ChannelMoves
<1>3. told[c].lists \in Int /\ told[c].lists + 1 \in Int
  BY <1>1 DEF ToldChannels
<1>4. ToldChannels(c)'
  <2>1. told'[c].must /\ told'[c].seen = {} => LaterThan(told[c].lists)'
    <3>1. PICK lists \in Int : lists = told[c].lists
      BY <1>3
    <3>2. told[c].must /\ told[c].seen = {} => LaterThan(lists)'
      BY <1>1, <1>2, <3>1 DEF ToldChannels
    <3>3. QED
      BY <3>1, <3>2 DEF LaterThan
  <2>2. \A shown \in told'[c].seen : ShownAsItIs(shown)'
    BY <1>1, <1>2 DEF ToldChannels, ShownAsItIs
  <2>3. QED
    BY <1>1, <2>1, <2>2 DEF ToldChannels
<1>5. AnsweredChannels(c)'
  <2> SUFFICES ASSUME at[c] = "waiting"
               PROVE  /\ told[c].lists < 3
                      /\ wire[c].method = ChannelLists[told[c].lists + 1]
                      /\ answer[c] # NoValue /\ ~ IsError(c) =>
                            /\ told[c].must /\ told[c].seen = {} /\ answer[c].channels = {} =>
                                   LaterThan(told[c].lists + 1)'
                            /\ wire[c].method = "PendingChannels" =>
                                   \A x \in answer[c].channels : x.stage # "closed"
                            /\ wire[c].method = "ClosedChannels" =>
                                   \A x \in answer[c].channels :
                                       x = channel' /\ x.stage = "closed"
    BY <1>1 DEF AnsweredChannels, IsError
  <2>1. PICK lists \in Int : lists = told[c].lists + 1
    BY <1>3
  <2>2. ASSUME answer[c] # NoValue, ~ IsError(c), told[c].must, told[c].seen = {},
               answer[c].channels = {}
        PROVE  LaterThan(told[c].lists + 1)'
    <3>1. LaterThan(lists)'
      BY <1>1, <1>2, <2>1, <2>2 DEF AnsweredChannels
    <3>2. QED
      BY <2>1, <3>1 DEF LaterThan
  <2>3. QED
    BY <1>1, <1>2, <2>2 DEF AnsweredChannels
<1>6. QED
  BY <1>4, <1>5

\* A caller reads the next list; it begins with the channel where it is.
LEMMA AskKeepsChannels ==
    ASSUME TypeOK, CallsInv, NEW c \in Callers, Looks(c), ChannelInv(c), ChannelTypes,
           Ask(c)
    PROVE  ChannelInv(c)'
<1>1. AskChannels(c)
  BY DEF Ask, AskPage, AskLease, AskFunds, AskRelease, AskLeases, AskSession,
         MuSig2RegisterNonces, MuSig2Sign, MuSig2CombineSig, MuSig2Cleanup, UseSession,
         Looks, ListMethods, LeaseMethods
<1>2. ToldChannels(c) /\ made[c] \in Nat /\ DOMAIN told = Callers
  BY DEF ChannelInv, CallsInv, CallTypes
<1>3. /\ at'[c] = "waiting" /\ made'[c] = made[c] + 1 /\ answer'[c] = NoValue
      /\ wire'[c] = [method |-> ChannelLists[told[c].lists + 1]]
      /\ UNCHANGED <<req, channel>>
  BY <1>1 DEF AskChannels, Call, TypeOK, CallsInv, CallTypes, Waits, lndVars
<1>4. Len(ChannelLists) = 3
  BY DEF ChannelLists
<1>5. told[c].lists < 3
  BY <1>1, <1>4 DEF AskChannels
<1>6. told'[c].lists = told[c].lists /\ ToldChannels(c)'
  <2>1. CASE made[c] > 0
    <3>1. told' = told
      BY <1>1, <2>1 DEF AskChannels
    <3>2. \A shown \in told[c].seen : ShownAsItIs(shown)'
      BY <1>2, <1>3 DEF ToldChannels, ShownAsItIs
    <3>3. LaterThan(told[c].lists)' <=> LaterThan(told[c].lists)
      BY <1>3, <3>1 DEF LaterThan
    <3>4. QED
      BY <1>2, <1>3, <3>1, <3>2, <3>3 DEF ToldChannels
  <2>2. CASE ~ made[c] > 0
    <3>1. PICK must \in BOOLEAN :
              /\ must = (channel.stage # "pending open")
              /\ must <=> (channel.stage # "pending open")
      OBVIOUS
    <3>2. told' = [told EXCEPT ![c].must = must]
      BY <1>1, <2>2, <3>1 DEF AskChannels
    <3>3. told'[c] = [lists |-> told[c].lists, seen |-> told[c].seen, must |-> must]
      BY <1>2, <3>2 DEF ToldChannels
    <3>4. told[c].lists = 0
      BY <1>2, <2>2 DEF ToldChannels
    <3>5. must => LaterThan(told[c].lists)'
      <4>1. told'[c].lists = 0 /\ channel' = channel
        BY <1>3, <3>3, <3>4
      <4>2. must => channel.stage # "pending open"
        BY <3>1
      <4>3. ASSUME must
            PROVE  LaterThan(told[c].lists)'
        <5>1. channel'.stage # "pending open"
          BY <4>1, <4>2, <4>3
        <5>2. ~ told'[c].lists > 0 /\ ~ told'[c].lists > 1 /\ told'[c].lists < 3
          BY <4>1
        <5>3. QED
          BY <5>1, <5>2 DEF LaterThan
      <4>4. QED
        BY <4>3
    <3>6. \A shown \in told[c].seen : ShownAsItIs(shown)'
      BY <1>2, <1>3 DEF ToldChannels, ShownAsItIs
    <3>7. QED
      BY <1>2, <1>3, <3>3, <3>4, <3>5, <3>6 DEF ToldChannels
  <2>3. QED
    BY <2>1, <2>2
<1>7. AnsweredChannels(c)'
  BY <1>3, <1>5, <1>6 DEF AnsweredChannels
<1>8. QED
  BY <1>6, <1>7 DEF ChannelInv

\* The initiator of a channel that has ended is right, or there is none recorded.
LEMMA InitiatorIsRight ==
    ASSUME channel \in Ends, channel.type # "strange"
    PROVE  LET shown == GetClosedChannel(channel)
           IN  /\ shown.initiator \in {channel.closer, "unrecorded"}
               /\ shown.type \in ForceCloses => shown.initiator = channel.closer
<1>1. /\ channel.initiator \in {channel.closer, "unknown"}
      /\ channel.closer \in {"local", "remote", "both"}
      /\ channel.type = "local force" => channel.closer = "local"
      /\ channel.type \in {"remote force", "breach"} => channel.closer = "remote"
  BY DEF Ends
<1>2. QED
  BY <1>1 DEF GetClosedChannel, RpcCloseInitiator, GetInitiator, ForceCloses

\* A list that was read is remembered, with what it has shown.
LEMMA ReturnKeepsChannels ==
    ASSUME TypeOK, CallsInv, NEW c \in Callers, Looks(c), ChannelInv(c), ChannelTypes,
           Return(c) \/ GiveUp(c)
    PROVE  ChannelInv(c)'
<1>1. /\ at[c] = "waiting" /\ at'[c] = "idle" /\ DOMAIN told = Callers
      /\ UNCHANGED <<req, channel, made>> /\ made[c] \in Nat
  BY ReturnsAreReturns DEF ReturnStep, Returns, TypeOK, CallsInv, CallTypes, lndVars
<1>2. ToldChannels(c) /\ AnsweredChannels(c)
  BY DEF ChannelInv
<1>3. ChannelRpc(wire[c]) /\ made[c] > 0
  BY <1>1, KindsOfRpcs DEF CallsInv, Waits
<1>4. wire[c].method \in {"ListChannels", "PendingChannels", "ClosedChannels"}
  BY <1>3 DEF ChannelRpc, ChannelMethods, ChannelLists
<1>5. AnsweredChannels(c)'
  BY <1>1 DEF AnsweredChannels
<1>6. CASE told' = told
  <2>1. ToldChannels(c)'
    BY <1>1, <1>2, <1>6 DEF ToldChannels, LaterThan, ShownAsItIs
  <2>2. QED
    BY <1>5, <2>1 DEF ChannelInv
<1>7. CASE ReturnChannels(c)
  <2>1. /\ answer[c] # NoValue /\ ~ IsError(c) /\ ChannelsResult(c).converts
        /\ told' = [told EXCEPT ![c].lists = @ + 1,
                                ![c].seen = @ \cup ChannelsResult(c).channels]
    BY <1>7 DEF ReturnChannels, Answered
  <2>2. told'[c] = [lists |-> told[c].lists + 1, must |-> told[c].must,
                    seen |-> told[c].seen \cup ChannelsResult(c).channels]
    BY <1>1, <1>2, <2>1 DEF ToldChannels
  <2>3. /\ told[c].lists \in 0 .. 2 /\ told[c].lists + 1 \in 0 .. 3
    BY <1>1, <1>2 DEF ToldChannels, AnsweredChannels
  <2>4. /\ ChannelsResult(c).channels = {} => answer[c].channels = {}
        /\ \A shown \in ChannelsResult(c).channels : ShownAsItIs(shown)
    <3>1. CASE wire[c].method = "ListChannels"
      <4>1. ChannelsResult(c).channels = {NewChannelInfo(x) : x \in answer[c].channels}
        BY <3>1 DEF ChannelsResult, ListChannelsResult
      <4>2. ASSUME NEW x \in answer[c].channels
            PROVE  ChannelsResult(c).channels # {}
        BY <4>1
      <4>3. ASSUME NEW x
            PROVE  ShownAsItIs(NewChannelInfo(x))
        BY DEF NewChannelInfo, ShownAsItIs
      <4>4. QED
        BY <4>1, <4>2, <4>3
    <3>2. CASE wire[c].method = "PendingChannels"
      <4>1. ChannelsResult(c).channels = {NewPendingChannel(x) : x \in answer[c].channels}
        BY <3>2 DEF ChannelsResult, PendingChannelsResult
      <4>2. \A x \in answer[c].channels : x.stage # "closed"
        BY <1>1, <1>2, <2>1, <3>2 DEF AnsweredChannels
      <4>3. ASSUME NEW x \in answer[c].channels
            PROVE  ShownAsItIs(NewPendingChannel(x)) /\ ChannelsResult(c).channels # {}
        BY <4>1, <4>2 DEF NewPendingChannel, ShownAsItIs
      <4>4. QED
        BY <4>1, <4>3
    <3>3. CASE wire[c].method = "ClosedChannels"
      <4>1. /\ ChannelsResult(c).channels = {GetClosedChannel(x) : x \in answer[c].channels}
            /\ \A x \in answer[c].channels : x.type # "strange"
        BY <2>1, <3>3 DEF ChannelsResult, ClosedChannelsResult, RpcCloseTypeKnown,
                          CloseTypes, ForceCloses
      <4>2. \A x \in answer[c].channels : x = channel /\ x.stage = "closed"
        BY <1>1, <1>2, <2>1, <3>3 DEF AnsweredChannels
      <4>3. ASSUME NEW x \in answer[c].channels
            PROVE  ShownAsItIs(GetClosedChannel(x))
        <5>1. x = channel /\ channel.stage = "closed" /\ channel.type # "strange"
          BY <4>1, <4>2
        <5>2. channel \in Ends
          BY <5>1 DEF ChannelTypes
        <5>3. QED
          BY <5>1, <5>2, InitiatorIsRight DEF ShownAsItIs
      <4>4. ASSUME NEW x \in answer[c].channels
            PROVE  ChannelsResult(c).channels # {}
        BY <4>1
      <4>5. QED
        BY <4>1, <4>3, <4>4
    <3>4. QED
      BY <1>4, <3>1, <3>2, <3>3
  <2>5. told'[c].must /\ told'[c].seen = {} => LaterThan(told'[c].lists)
    BY <1>1, <1>2, <2>1, <2>2, <2>4 DEF AnsweredChannels
  <2>6. \A shown \in told'[c].seen : ShownAsItIs(shown)
    BY <1>2, <2>2, <2>4 DEF ToldChannels
  <2>7. ToldChannels(c)'
    <3>1. told'[c].must /\ told'[c].seen = {} => LaterThan(told[c].lists)'
      BY <1>1, <2>5 DEF LaterThan
    <3>2. \A shown \in told'[c].seen : ShownAsItIs(shown)'
      BY <1>1, <2>6 DEF ShownAsItIs
    <3>3. QED
      BY <1>1, <1>3, <2>2, <2>3, <3>1, <3>2 DEF ToldChannels
  <2>8. QED
    BY <1>5, <2>7 DEF ChannelInv
<1>8. CASE ReturnError(c) \/ GiveUp(c) \/ ChannelsDoNotConvert(c)
  <2>1. told' = told
    BY <1>4, <1>8 DEF ReturnError, GiveUp, ChannelsDoNotConvert, Unknowing
  <2>2. QED
    BY <1>6, <2>1
<1>9. QED
  BY <1>4, <1>7, <1>8
     DEF Return, Answered, ReturnPage, PageDoesNotConvert, ReturnLease, ReturnFunds,
         FundsDoNotConvert, ReturnRelease, ReturnLeases, ReturnSession,
         SessionDoesNotConvert, ReturnUse, ListMethods, ChannelMethods,
         ChannelLists, SessionMethods

\* lnd shows a channel in the list it is in.
LEMMA LndKeepsChannels ==
    ASSUME CallsInv, NEW m \in flight, Lnd(m), NEW c \in Callers, Looks(c),
           ChannelInv(c), ChannelTypes
    PROVE  ChannelInv(c)'
<1>1. /\ UNCHANGED <<req, at, wire, made, told>>
      /\ answer'[c] # answer[c] =>
             m.by = c /\ at[c] = "waiting" /\ wire[c] = m.rpc
  BY Executions
<1>2. channel' = channel
  BY DEF Lnd, LndLists, LndListsChannels, LndLeases, LndFunds, LndReleases,
         LndListsLeases, LndCreates, LndUses, LndFails, lndVars
<1>3. CASE answer'[c] = answer[c]
  BY <1>1, <1>2, <1>3, OthersKeepChannels
<1>4. CASE answer'[c] # answer[c]
  <2>1. m.by = c /\ at[c] = "waiting" /\ wire[c] = m.rpc /\ ChannelRpc(m.rpc)
    BY <1>1, <1>4, KindsOfRpcs DEF CallsInv, InFlight
  <2>2. m.rpc.method \in {"ListChannels", "PendingChannels", "ClosedChannels"}
    BY <2>1 DEF ChannelRpc, ChannelMethods, ChannelLists
  <2>3. ToldChannels(c) /\ AnsweredChannels(c)
    BY DEF ChannelInv
  <2>4. told[c].lists \in 0 .. 2 /\ m.rpc.method = ChannelLists[told[c].lists + 1]
    BY <2>1, <2>3 DEF ToldChannels, AnsweredChannels
  <2>5. ToldChannels(c)'
    BY <1>1, <1>2, <2>3 DEF ToldChannels, LaterThan, ShownAsItIs
  <2>6. CASE LndFails(m)
    <3>1. answer'[c] = [error |-> TRUE]
      BY <1>4, <2>1, <2>6 DEF LndFails, CallsInv, CallTypes
    <3>2. IsError(c)'
      BY <3>1 DEF IsError
    <3>3. AnsweredChannels(c)'
      BY <1>1, <2>3, <3>2 DEF AnsweredChannels
    <3>4. QED
      BY <2>5, <3>3 DEF ChannelInv
  <2>7. CASE LndListsChannels(m)
    <3>1. \/ /\ m.rpc.method = "ListChannels" /\ told[c].lists = 0
             /\ answer'[c].channels = {x \in {channel} : x.stage = "open"}
          \/ /\ m.rpc.method = "PendingChannels" /\ told[c].lists = 1
             /\ answer'[c].channels = {x \in {channel} : x.stage \in PendingStages}
          \/ /\ m.rpc.method = "ClosedChannels" /\ told[c].lists = 2
             /\ answer'[c].channels = {x \in {channel} : x.stage = "closed"}
      <4>1. PICK value :
                /\ answer' = [answer EXCEPT ![c] = IF Current(m) THEN value ELSE @]
                /\ value = CASE m.rpc.method = "ListChannels" ->
                                  [channels |-> {x \in {channel} : x.stage = "open"}]
                             [] m.rpc.method = "PendingChannels" ->
                                  [channels |-> {x \in {channel} :
                                                    x.stage \in PendingStages}]
                             [] OTHER ->
                                  [channels |-> {x \in {channel} : x.stage = "closed"}]
        BY <2>1, <2>7 DEF LndListsChannels, Done
      <4>2. answer'[c] = value
        BY <1>4, <4>1 DEF CallsInv, CallTypes
      <4>3. /\ told[c].lists = 0 => m.rpc.method = "ListChannels"
            /\ told[c].lists = 1 => m.rpc.method = "PendingChannels"
            /\ told[c].lists = 2 => m.rpc.method = "ClosedChannels"
        BY <2>4 DEF ChannelLists
      <4>4. told[c].lists = 0 \/ told[c].lists = 1 \/ told[c].lists = 2
        BY <2>4
      <4>5. CASE told[c].lists = 0
        BY <4>1, <4>2, <4>3, <4>5
      <4>6. CASE told[c].lists = 1
        BY <4>1, <4>2, <4>3, <4>6
      <4>7. CASE told[c].lists = 2
        BY <4>1, <4>2, <4>3, <4>7
      <4>8. QED
        BY <4>4, <4>5, <4>6, <4>7
    <3>2. ASSUME told[c].must, told[c].seen = {}, answer'[c].channels = {}
          PROVE  LaterThan(told[c].lists + 1)
      <4>1. LaterThan(told[c].lists)
        BY <2>3, <3>2 DEF ToldChannels
      <4>2. channel.stage \in {"pending open", "open", "waiting close", "force closing",
                               "closed"}
        BY DEF ChannelTypes, Ends
      <4>3. /\ told[c].lists = 0 => channel.stage # "open"
            /\ told[c].lists = 1 => channel.stage \notin PendingStages
            /\ told[c].lists = 2 => channel.stage # "closed"
        BY <3>1, <3>2
      <4>4. /\ channel.stage # "pending open" /\ channel.stage # "open"
            /\ told[c].lists > 0 => channel.stage = "closed"
            /\ told[c].lists # 2
        <5>1. /\ channel.stage # "pending open"
              /\ told[c].lists > 0 => channel.stage # "open"
              /\ told[c].lists > 1 => channel.stage = "closed"
          BY <4>1 DEF LaterThan
        <5>2. /\ told[c].lists \in {0, 1, 2}
              /\ told[c].lists > 0 <=> told[c].lists # 0
              /\ told[c].lists > 1 <=> told[c].lists = 2
          BY <2>4
        <5>3. channel.stage # "open" /\ told[c].lists # 2
          BY <4>3, <5>1, <5>2
        <5>4. told[c].lists = 1 => channel.stage = "closed"
          BY <4>2, <4>3, <5>1, <5>3 DEF PendingStages
        <5>5. QED
          BY <5>1, <5>2, <5>3, <5>4
      <4>5. /\ told[c].lists + 1 > 1 => told[c].lists > 0
            /\ told[c].lists # 2 => told[c].lists + 1 < 3
        BY <2>4
      <4>6. QED
        BY <4>4, <4>5 DEF LaterThan
    <3>3. m.rpc.method = "PendingChannels" =>
              \A x \in answer'[c].channels : x.stage # "closed"
      BY <3>1 DEF PendingStages
    <3>4. m.rpc.method = "ClosedChannels" =>
              \A x \in answer'[c].channels : x = channel /\ x.stage = "closed"
      BY <3>1
    <3>5. told'[c].must /\ told'[c].seen = {} /\ answer'[c].channels = {} =>
              LaterThan(told[c].lists + 1)'
      BY <1>1, <1>2, <3>2 DEF LaterThan
    <3>6. AnsweredChannels(c)'
      BY <1>1, <1>2, <2>1, <2>4, <3>3, <3>4, <3>5 DEF AnsweredChannels
    <3>7. QED
      BY <2>5, <3>6 DEF ChannelInv
  <2>8. QED
    BY <2>2, <2>6, <2>7
       DEF Lnd, LndLists, LndLeases, LndFunds, LndReleases, LndListsLeases, LndCreates,
           LndUses, ListMethods, SessionMethods, ChannelMethods,
           ChannelLists
<1>5. QED
  BY <1>3, <1>4

-----------------------------------------------------------------------------
(* Pages. *)

\* The type of lnd's list.
RecordTypes == records \in Seq(Records)

\* What lnd's list does: it grows, and what is done stays so.
GoesOn ==
    /\ DOMAIN records \subseteq DOMAIN records'
    /\ \A i \in DOMAIN records : Becomes(records[i], records'[i])

\* A caller has still to ask for what is beyond its offset.
Beyond(c, i) == Past(req[c].reversed, told[c].offset, i)

\* A caller has seen what it wanted of what is not beyond its offset, in order.
ToldPages(c) ==
    /\ told[c] \in [offset : Nat, seen : Seq(Shown), must : SUBSET Nat, over : BOOLEAN]
    /\ made[c] = 0 => told[c].offset = 0 /\ ~ told[c].over
    /\ told[c].offset = 0 => told[c].seen = <<>>
    /\ InOrder(told[c].seen)
    /\ \A k \in DOMAIN told[c].seen :
           /\ told[c].seen[k].index \in DOMAIN records
           /\ ~ Beyond(c, told[c].seen[k].index)
           /\ Fits(req[c].method, records[told[c].seen[k].index], told[c].seen[k].is)
    /\ \A i \in told[c].must :
           /\ i \in DOMAIN records
           /\ req[c].incomplete \/ records[i].state = "done"
           /\ told[c].over \/ ~ Beyond(c, i) =>
                  \E k \in DOMAIN told[c].seen : told[c].seen[k].index = i

\* A page on its way has what is beyond the offset, as it was, up to its own end.
IsPage(c, page) ==
    /\ page.list \in Seq(Entries)
    /\ InOrder(page.list)
    /\ \A k \in DOMAIN page.list :
           /\ page.list[k].index \in DOMAIN records
           /\ Beyond(c, page.list[k].index)
           /\ Becomes(page.list[k].record, records[page.list[k].index])
    /\ page.list # <<>> => /\ page.first = page.list[1].index
                           /\ page.last = page.list[Len(page.list)].index
    /\ \A i \in told[c].must :
           /\ Beyond(c, i)
           /\ page.list # <<>> =>
                  IF req[c].reversed THEN i >= page.first ELSE i <= page.last
           => \E k \in DOMAIN page.list : page.list[k].index = i

\* A caller that waits has asked for the page after its offset.
AnsweredPage(c) ==
    at[c] = "waiting" =>
        /\ wire[c] = PageRequest(c) /\ ~ told[c].over
        /\ answer[c] # NoValue /\ ~ IsError(c) => IsPage(c, answer[c])

\* All that is said of the pages of one caller.
PageInv(c) == Pages(c) => ToldPages(c) /\ AnsweredPage(c)

\* The request for a page has what the caller asks for, and the offset it is at.
LEMMA PageRequestIsAsAsked ==
    ASSUME TypeOK, NEW c \in Callers, Pages(c)
    PROVE  /\ PageRequest(c).method = req[c].method
           /\ PageRequest(c).offset = told[c].offset
           /\ PageRequest(c).max = req[c].max /\ req[c].max \in Nat \ {0}
           /\ PageRequest(c).reversed = req[c].reversed /\ req[c].reversed \in BOOLEAN
           /\ PageRequest(c).incomplete = req[c].incomplete
           /\ req[c].incomplete \in BOOLEAN
           /\ req[c].method = "ForwardingHistory" => ~ req[c].reversed
<1>1. req[c] \in PageRequests
  BY KindsOfUnary
<1>2. /\ req[c].method \in ListMethods /\ req[c].max \in 1 .. MaxRecords
      /\ req[c].reversed \in BOOLEAN /\ req[c].incomplete \in BOOLEAN
      /\ req[c].method # "ListPayments" => req[c].incomplete
      /\ req[c].method = "ForwardingHistory" => ~ req[c].reversed
  BY <1>1 DEF PageRequests
<1>3. req[c].max \in Nat \ {0}
  BY <1>2
<1>4. CASE req[c].method = "ForwardingHistory"
  <2>1. PageRequest(c) = ForwardingHistoryRequest(c)
    BY <1>4 DEF PageRequest
  <2>2. /\ PageRequest(c).method = "ForwardingHistory"
        /\ PageRequest(c).offset = told[c].offset /\ PageRequest(c).max = req[c].max
        /\ PageRequest(c).reversed = FALSE /\ PageRequest(c).incomplete = TRUE
    BY <2>1 DEF ForwardingHistoryRequest
  <2>3. req[c].incomplete = TRUE /\ req[c].reversed = FALSE
    BY <1>2, <1>4
  <2>4. QED
    BY <1>2, <1>3, <1>4, <2>2, <2>3, Zenon
<1>5. CASE req[c].method = "ListInvoices"
  <2>1. PageRequest(c) = ListInvoicesRequest(c)
    BY <1>5 DEF PageRequest
  <2>2. /\ PageRequest(c).method = "ListInvoices"
        /\ PageRequest(c).offset = told[c].offset /\ PageRequest(c).max = req[c].max
        /\ PageRequest(c).reversed = req[c].reversed
        /\ PageRequest(c).incomplete = TRUE
    BY <2>1 DEF ListInvoicesRequest
  <2>3. req[c].incomplete = TRUE
    BY <1>2, <1>5
  <2>4. QED
    BY <1>2, <1>3, <1>5, <2>2, <2>3, Zenon
<1>6. CASE req[c].method = "ListPayments"
  <2>1. PageRequest(c) = ListPaymentsRequest(c)
    BY <1>6 DEF PageRequest
  <2>2. QED
    BY <1>2, <1>3, <1>6, <2>1 DEF ListPaymentsRequest
<1>7. QED
  BY <1>2, <1>4, <1>5, <1>6 DEF ListMethods

\* The list grows and what is open ends, and nothing else happens to it.
LEMMA ListGoesOn ==
    ASSUME RecordTypes, records' = records \/ NewRecord \/ RecordEnds
    PROVE  RecordTypes' /\ GoesOn
<1>1. Len(records) \in Nat /\ DOMAIN records = 1 .. Len(records)
  BY DEF RecordTypes
<1>2. CASE records' = records
  BY <1>2 DEF RecordTypes, GoesOn, Becomes
<1>3. CASE NewRecord
  <2>1. PICK record \in Records : records' = Append(records, record)
    <3>1. PICK preimage \in BOOLEAN :
              records' = Append(records,
                             [state |-> "open", amp |-> FALSE, preimage |-> preimage])
      BY <1>3 DEF NewRecord
    <3>2. [state |-> "open", amp |-> FALSE, preimage |-> preimage] \in Records
      BY DEF Records
    <3>3. QED
      BY <3>1, <3>2
  <2>2. records' \in Seq(Records)
    BY <2>1 DEF RecordTypes
  <2>3. /\ DOMAIN records' = 1 .. Len(records) + 1
        /\ \A i \in DOMAIN records : records'[i] = records[i]
    <3>1. /\ Len(records') = Len(records) + 1
          /\ \A i \in 1 .. Len(records) : records'[i] = records[i]
      BY <2>1, AppendProperties DEF RecordTypes
    <3>2. DOMAIN records' = 1 .. Len(records')
      BY <2>2
    <3>3. QED
      BY <1>1, <3>1, <3>2
  <2>4. QED
    BY <1>1, <2>2, <2>3 DEF RecordTypes, GoesOn, Becomes
<1>4. CASE RecordEnds
  <2>1. PICK i \in DOMAIN records, state \in {"done", "canceled", "strange"} :
            /\ records[i].state = "open"
            /\ records' = [records EXCEPT ![i].state = state,
                                         ![i].preimage = @ \/ state = "done"]
    BY <1>4 DEF RecordEnds
  <2>2. PICK later : later = [records[i] EXCEPT !.state = state,
                                                !.preimage = @ \/ state = "done"]
    OBVIOUS
  <2>3. later \in Records /\ later.amp = records[i].amp
    <3>1. records[i] \in Records
      BY <1>1 DEF RecordTypes
    <3>2. PICK preimage \in BOOLEAN :
              /\ preimage = (records[i].preimage \/ state = "done")
              /\ state = "done" => preimage
      OBVIOUS
    <3>3. later = [state |-> state, amp |-> records[i].amp, preimage |-> preimage]
      BY <2>2, <3>1, <3>2 DEF Records
    <3>4. QED
      BY <3>1, <3>2, <3>3 DEF Records
  <2>4. records' = [records EXCEPT ![i] = later]
    BY <2>1, <2>2
  <2>5. records' \in Seq(Records)
    BY <1>1, <2>3, <2>4, ExceptSeq DEF RecordTypes
  <2>6. /\ DOMAIN records' = DOMAIN records /\ records'[i] = later
        /\ \A j \in DOMAIN records \ {i} : records'[j] = records[j]
    BY <2>4
  <2>7. QED
    BY <2>1, <2>3, <2>5, <2>6 DEF RecordTypes, GoesOn, Becomes
<1>5. QED
  BY <1>2, <1>3, <1>4

\* Whose pages are left alone keeps what is said of them.
LEMMA OthersKeepPages ==
    ASSUME TypeOK, NEW c \in Callers, PageInv(c), req' = req, GoesOn,
           told'[c] = told[c], made'[c] = made[c],
           \/ answer'[c] = answer[c] \/ answer'[c] = NoValue,
           (at'[c] = at[c] /\ wire'[c] = wire[c]) \/ ~ Pages(c) \/ at'[c] # "waiting"
    PROVE  PageInv(c)'
<1> SUFFICES ASSUME Pages(c)
             PROVE  ToldPages(c)' /\ AnsweredPage(c)'
  BY DEF PageInv, Pages
<1>1. ToldPages(c) /\ AnsweredPage(c)
  BY DEF PageInv
<1>2. \A i : Beyond(c, i)' <=> Beyond(c, i)
  BY DEF Beyond
<1>3. ToldPages(c)'
  <2>1. ASSUME NEW k \in DOMAIN told[c].seen
        PROVE  /\ told[c].seen[k].index \in DOMAIN records'
               /\ Fits(req[c].method, records'[told[c].seen[k].index],
                       told[c].seen[k].is)
    BY <1>1, StaysFit DEF ToldPages, GoesOn
  <2>2. ASSUME NEW i \in told[c].must
        PROVE  /\ i \in DOMAIN records'
               /\ req[c].incomplete \/ records'[i].state = "done"
    BY <1>1 DEF ToldPages, GoesOn, Becomes
  <2>3. QED
    BY SMTT(30), <1>1, <1>2, <2>1, <2>2 DEF ToldPages
<1>4. AnsweredPage(c)'
  <2> SUFFICES ASSUME at'[c] = "waiting"
               PROVE  /\ wire'[c] = PageRequest(c)' /\ ~ told'[c].over
                      /\ answer'[c] # NoValue /\ ~ IsError(c)' => IsPage(c, answer[c])'
    BY DEF AnsweredPage
  <2>1. at[c] = "waiting" /\ wire'[c] = wire[c]
    OBVIOUS
  <2>2. wire'[c] = PageRequest(c)' /\ ~ told'[c].over
    BY <1>1, <2>1 DEF AnsweredPage, PageRequest, ForwardingHistoryRequest,
                      ListInvoicesRequest, ListPaymentsRequest
  <2>3. ASSUME answer'[c] # NoValue, ~ IsError(c)'
        PROVE  IsPage(c, answer[c])'
    <3>1. answer'[c] = answer[c] /\ IsPage(c, answer[c])
      BY <1>1, <2>1, <2>3 DEF AnsweredPage, IsError
    <3>2. PICK page : page = answer[c]
      OBVIOUS
    <3>3. \A k \in DOMAIN page.list :
              /\ page.list[k].index \in DOMAIN records'
              /\ Beyond(c, page.list[k].index)'
              /\ Becomes(page.list[k].record, records'[page.list[k].index])
      BY <1>2, <3>1, <3>2, BecomesOnAndOn DEF IsPage, GoesOn
    <3>4. IsPage(c, page)'
      BY <1>2, <3>1, <3>2, <3>3 DEF IsPage
    <3>5. QED
      BY <3>1, <3>2, <3>4
  <2>4. QED
    BY <2>2, <2>3
<1>5. QED
  BY <1>3, <1>4

\* A caller that asks for its first page looks for what is there, and has seen none of
\* it; one that asks for another goes on from where it is.
LEMMA AskKeepsPages ==
    ASSUME TypeOK, CallsInv, NEW c \in Callers, Pages(c), PageInv(c), RecordTypes, Ask(c)
    PROVE  PageInv(c)'
<1>1. AskPage(c)
  BY DEF Ask, AskChannels, AskLease, AskFunds, AskRelease, AskLeases, AskSession,
         MuSig2RegisterNonces, MuSig2Sign, MuSig2CombineSig, MuSig2Cleanup, UseSession,
         Pages, Looks, ListMethods, LeaseMethods
<1>2. ToldPages(c) /\ made[c] \in Nat /\ DOMAIN told = Callers
  BY DEF PageInv, CallsInv, CallTypes
<1>3. /\ at'[c] = "waiting" /\ made'[c] = made[c] + 1 /\ answer'[c] = NoValue
      /\ wire'[c] = PageRequest(c) /\ ~ told[c].over
      /\ UNCHANGED <<req, records>>
  BY <1>1 DEF AskPage, Call, TypeOK, CallsInv, CallTypes, Waits, lndVars
<1>4. /\ told'[c].offset = told[c].offset /\ ~ told'[c].over
      /\ ToldPages(c)'
  <2>1. CASE made[c] > 0
    <3>1. told' = told
      BY <1>1, <2>1 DEF AskPage
    <3>2. \A i : Beyond(c, i)' <=> Beyond(c, i)
      BY <1>3, <3>1 DEF Beyond
    <3>3. ToldPages(c)'
      BY <1>2, <1>3, <3>1, <3>2 DEF ToldPages
    <3>4. QED
      BY <1>3, <3>1, <3>3
  <2>2. CASE ~ made[c] > 0
    <3>1. PICK must : must = {i \in DOMAIN records : Wanted(PageRequest(c), records[i])}
      OBVIOUS
    <3>2. told[c].offset = 0 /\ ~ told[c].over /\ told[c].seen = <<>>
      BY <1>2, <2>2 DEF ToldPages
    <3>3. told'[c] = [told[c] EXCEPT !.must = must]
      BY <1>1, <1>2, <2>2, <3>1 DEF AskPage
    <3>4. told'[c] = [offset |-> told[c].offset, seen |-> told[c].seen, must |-> must,
                      over |-> told[c].over]
      BY <1>2, <3>3 DEF ToldPages
    <3>5. must \in SUBSET Nat
      <4>1. DOMAIN records \subseteq Nat
        BY DEF RecordTypes
      <4>2. QED
        BY <3>1, <4>1
    <3>6. \A i \in must : i \in DOMAIN records
                          /\ (req[c].incomplete \/ records[i].state = "done")
      BY <3>1, PageRequestIsAsAsked DEF Wanted
    <3>7. \A i \in must : i > 0
      BY <3>1 DEF RecordTypes
    <3>8. /\ told'[c].offset = 0 /\ ~ told'[c].over /\ told'[c].seen = <<>>
          /\ told'[c].must = must
      BY <3>2, <3>4
    <3>9. \A i \in must : Beyond(c, i)'
      BY <1>3, <3>7, <3>8 DEF Beyond, Past
    <3>10. told'[c] \in [offset : Nat, seen : Seq(Shown), must : SUBSET Nat, over : BOOLEAN]
      BY <1>2, <3>4, <3>5 DEF ToldPages
    <3>11. InOrder(told'[c].seen) /\ DOMAIN told'[c].seen = {}
      BY <3>8 DEF InOrder
    <3>12. ToldPages(c)'
      BY <1>2, <1>3, <3>6, <3>8, <3>9, <3>10, <3>11 DEF ToldPages
    <3>13. QED
      BY <3>2, <3>8, <3>12
  <2>3. QED
    BY <2>1, <2>2
<1>5. AnsweredPage(c)'
  <2>1. PageRequest(c)' = PageRequest(c)
    BY <1>3, <1>4 DEF PageRequest, ForwardingHistoryRequest, ListInvoicesRequest,
                      ListPaymentsRequest
  <2>2. QED
    BY <1>3, <1>4, <2>1 DEF AnsweredPage
<1>6. QED
  BY <1>4, <1>5 DEF PageInv

\* lnd answers with the page that was asked for.
LEMMA LndKeepsPages ==
    ASSUME TypeOK, CallsInv, NEW m \in flight, Lnd(m), NEW c \in Callers, Pages(c),
           PageInv(c), RecordTypes
    PROVE  PageInv(c)'
<1>1. /\ UNCHANGED <<req, at, wire, made, told>>
      /\ answer'[c] # answer[c] =>
             m.by = c /\ at[c] = "waiting" /\ wire[c] = m.rpc
  BY Executions
<1>2. records' = records
  BY DEF Lnd, LndLists, LndListsChannels, LndLeases, LndFunds, LndReleases,
         LndListsLeases, LndCreates, LndUses, LndFails, lndVars
<1>3. GoesOn
  BY <1>2 DEF GoesOn, Becomes
<1>4. CASE answer'[c] = answer[c]
  BY <1>1, <1>3, <1>4, OthersKeepPages
<1>5. CASE answer'[c] # answer[c]
  <2>1. /\ m.by = c /\ at[c] = "waiting" /\ wire[c] = m.rpc /\ m.rpc.method \in ListMethods
        /\ \A value : Done(m, value) => answer'[c] = value
        /\ LndFails(m) => answer'[c] = [error |-> TRUE]
    <3>1. m.by = c /\ at[c] = "waiting" /\ wire[c] = m.rpc
      BY <1>1, <1>5
    <3>2. m.rpc.method \in ListMethods
      BY <3>1, KindsOfRpcs DEF CallsInv, InFlight, PageRpc
    <3>3. DOMAIN answer = Callers
      BY DEF CallsInv, CallTypes
    <3>4. \A value : Done(m, value) => answer'[c] = value
      BY <1>5, <3>1, <3>3 DEF Done
    <3>5. LndFails(m) => answer'[c] = [error |-> TRUE]
      BY <1>5, <3>1, <3>3 DEF LndFails
    <3>6. QED
      BY <3>1, <3>2, <3>4, <3>5
  <2>2. ToldPages(c) /\ AnsweredPage(c)
    BY DEF PageInv
  <2>3. m.rpc = PageRequest(c) /\ ~ told[c].over
    BY <2>1, <2>2 DEF AnsweredPage
  <2>4. ToldPages(c)' /\ PageRequest(c)' = PageRequest(c)
    BY <1>1, <1>2, <2>2
       DEF ToldPages, Beyond, PageRequest, ForwardingHistoryRequest,
           ListInvoicesRequest, ListPaymentsRequest
  <2>5. CASE LndFails(m)
    <3>1. IsError(c)'
      BY <2>1, <2>5 DEF IsError
    <3>2. QED
      BY <1>1, <2>1, <2>3, <2>4, <3>1 DEF PageInv, AnsweredPage
  <2>6. CASE LndLists(m)
    <3>1. answer'[c] = Page(m.rpc)
      BY <2>1, <2>6 DEF LndLists
    <3>2. IsPage(c, Page(m.rpc))
      <4>1. PICK rpc : rpc = m.rpc
        OBVIOUS
      <4>2. /\ rpc.offset = told[c].offset /\ rpc.max \in Nat \ {0}
            /\ rpc.reversed = req[c].reversed /\ rpc.reversed \in BOOLEAN
            /\ rpc.incomplete = req[c].incomplete
        BY <2>3, <4>1, PageRequestIsAsAsked
      <4>3. PICK beyond :
                beyond = [i \in DOMAIN records |->
                             IF rpc.reversed THEN rpc.offset = 0 \/ i < rpc.offset
                                             ELSE i > rpc.offset]
        OBVIOUS
      <4>4. \A i \in DOMAIN records : beyond[i] <=> Beyond(c, i)
        BY <4>2, <4>3 DEF Beyond, Past
      <4>5. PICK page : page = Page(rpc)
        OBVIOUS
      <4>6. IsPageOf(rpc, beyond, page)
        BY <4>2, <4>3, <4>5, PageIsRight DEF RecordTypes
      <4>7. \A i \in told[c].must : i \in DOMAIN records /\ Wanted(rpc, records[i])
        BY <2>2, <4>2 DEF ToldPages, Wanted
      <4>8. \A i \in told[c].must :
                /\ Beyond(c, i)
                /\ page.list # <<>> =>
                       IF req[c].reversed THEN i >= page.first ELSE i <= page.last
                => \E k \in DOMAIN page.list : page.list[k].index = i
        BY <4>2, <4>4, <4>6, <4>7 DEF IsPageOf
      <4>9. \A k \in DOMAIN page.list :
                /\ page.list[k].index \in DOMAIN records
                /\ Beyond(c, page.list[k].index)
                /\ Becomes(page.list[k].record, records[page.list[k].index])
        BY <4>4, <4>6 DEF IsPageOf, Becomes
      <4>10. IsPage(c, page)
        BY <4>6, <4>8, <4>9 DEF IsPageOf, IsPage
      <4>11. QED
        BY <4>1, <4>5, <4>10
    <3>3. IsPage(c, answer[c])'
      BY <1>1, <1>2, <3>1, <3>2 DEF IsPage, Beyond
    <3>4. QED
      BY <1>1, <2>1, <2>3, <2>4, <3>3 DEF PageInv, AnsweredPage
  <2>7. QED
    BY <2>1, <2>5, <2>6
       DEF Lnd, LndListsChannels, LndLeases, LndFunds, LndReleases, LndListsLeases,
           LndCreates, LndUses, ListMethods, SessionMethods,
           ChannelMethods, ChannelLists
<1>6. QED
  BY <1>4, <1>5

\* What a caller is shown is the page it was answered with.
LEMMA ResultOfPage ==
    ASSUME TypeOK, NEW c \in Callers, Pages(c), wire[c] = PageRequest(c), NEW list,
           list \in Seq(Entries), list = answer[c].list
    PROVE  /\ ShowsAll(req[c].method, PageResult(c).list, list)
           /\ req[c].reversed => PageResult(c).first = answer[c].first
           /\ PageResult(c).last = answer[c].last
<1>1. PICK page : page = answer[c]
  OBVIOUS
<1>2. PICK method : method = wire[c].method
  OBVIOUS
<1>3. /\ method \in ListMethods /\ method = req[c].method
      /\ method = "ForwardingHistory" => ~ req[c].reversed
  BY <1>2, PageRequestIsAsAsked DEF Pages
<1>4. CASE method = "ForwardingHistory"
  <2>1. PageResult(c) = ForwardingHistoryResult(page)
    BY <1>1, <1>2, <1>4 DEF PageResult
  <2>2. /\ ShowsAll("ForwardingHistory", ForwardingHistoryResult(page).list, list)
        /\ ForwardingHistoryResult(page).last = page.last
    BY <1>1, ResultsOfPages
  <2>3. QED
    BY <1>1, <1>3, <1>4, <2>1, <2>2
<1>5. CASE method = "ListInvoices"
  <2>1. PageResult(c) = ListInvoicesResult(page)
    BY <1>1, <1>2, <1>5 DEF PageResult
  <2>2. /\ ShowsAll("ListInvoices", ListInvoicesResult(page).list, list)
        /\ ListInvoicesResult(page).first = page.first
        /\ ListInvoicesResult(page).last = page.last
    BY <1>1, ResultsOfPages
  <2>3. QED
    BY <1>1, <1>3, <1>5, <2>1, <2>2
<1>6. CASE method = "ListPayments"
  <2>1. PageResult(c) = ListPaymentsResult(page)
    BY <1>1, <1>2, <1>6 DEF PageResult
  <2>2. /\ ShowsAll("ListPayments", ListPaymentsResult(page).list, list)
        /\ ListPaymentsResult(page).first = page.first
        /\ ListPaymentsResult(page).last = page.last
    BY <1>1, ResultsOfPages
  <2>3. QED
    BY <1>1, <1>3, <1>6, <2>1, <2>2
<1>7. QED
  BY <1>3, <1>4, <1>5, <1>6 DEF ListMethods

\* A page that is returned is added to what its caller has seen, an empty one is the
\* last, and what a call that fails would have shown is asked for again.
LEMMA ReturnKeepsPages ==
    ASSUME TypeOK, CallsInv, NEW c \in Callers, Pages(c), PageInv(c), RecordTypes,
           Return(c) \/ GiveUp(c)
    PROVE  PageInv(c)'
<1>1. /\ at[c] = "waiting" /\ at'[c] = "idle" /\ DOMAIN told = Callers
      /\ answer'[c] = NoValue
      /\ UNCHANGED <<req, records, made>> /\ made[c] \in Nat
  BY ReturnsAreReturns
     DEF ReturnStep, Returns, TypeOK, CallsInv, CallTypes, lndVars
<1>2. ToldPages(c) /\ AnsweredPage(c) /\ GoesOn
  BY <1>1 DEF PageInv, GoesOn, Becomes
<1>3. /\ wire[c] = PageRequest(c) /\ wire[c].method \in ListMethods /\ made[c] > 0
      /\ wire[c].reversed = req[c].reversed /\ req[c].reversed \in BOOLEAN
      /\ ~ told[c].over
  <2>1. made[c] > 0
    BY <1>1 DEF CallsInv, Waits
  <2>2. wire[c] = PageRequest(c) /\ ~ told[c].over
    BY <1>1, <1>2 DEF AnsweredPage
  <2>3. QED
    BY <2>1, <2>2, PageRequestIsAsAsked DEF Pages
<1>4. CASE told' = told
  BY <1>1, <1>2, <1>4, OthersKeepPages
<1>5. CASE ReturnPage(c)
  <2>1. PICK result : result = PageResult(c)
    OBVIOUS
  <2>2. /\ answer[c] # NoValue /\ ~ IsError(c)
        /\ told' = [told EXCEPT ![c] =
               IF result.list = <<>> THEN [told[c] EXCEPT !.over = TRUE]
               ELSE IF wire[c].reversed
               THEN [told[c] EXCEPT !.offset = result.first,
                                    !.seen = result.list \o told[c].seen]
               ELSE [told[c] EXCEPT !.offset = result.last,
                                    !.seen = told[c].seen \o result.list]]
    BY <1>5, <2>1 DEF ReturnPage, Answered
  <2>3. IsPage(c, answer[c])
    BY <1>1, <1>2, <2>2 DEF AnsweredPage
  <2>4. PICK page : page = answer[c]
    OBVIOUS
  <2>5. PICK list : list = page.list
    OBVIOUS
  <2>6. /\ ShowsAll(req[c].method, result.list, list)
        /\ req[c].reversed => result.first = page.first
        /\ result.last = page.last
    BY <1>3, <2>1, <2>3, <2>4, <2>5, ResultOfPage DEF IsPage
  <2>7. PICK shown : shown = result.list
    OBVIOUS
  <2>8. /\ shown \in Seq(Shown) /\ Len(shown) = Len(list) /\ DOMAIN shown = DOMAIN list
        /\ \A k \in DOMAIN list :
               /\ shown[k].index = list[k].index
               /\ Fits(req[c].method, list[k].record, shown[k].is)
    BY <2>6, <2>7 DEF ShowsAll
  <2>9. /\ list \in Seq(Entries)
        /\ InOrder(list)
        /\ \A k \in DOMAIN list :
               /\ list[k].index \in DOMAIN records
               /\ Beyond(c, list[k].index)
               /\ Becomes(list[k].record, records[list[k].index])
        /\ list # <<>> => page.first = list[1].index /\ page.last = list[Len(list)].index
        /\ \A i \in told[c].must :
               /\ Beyond(c, i)
               /\ list # <<>> => IF req[c].reversed THEN i >= page.first
                                                    ELSE i <= page.last
               => \E k \in DOMAIN list : list[k].index = i
    BY <2>3, <2>4, <2>5 DEF IsPage
  <2>10. list = <<>> <=> shown = <<>>
    BY <2>8, <2>9
  <2>11. /\ told[c] \in [offset : Nat, seen : Seq(Shown), must : SUBSET Nat,
                         over : BOOLEAN]
         /\ InOrder(told[c].seen)
         /\ \A k \in DOMAIN told[c].seen :
                /\ told[c].seen[k].index \in DOMAIN records
                /\ ~ Beyond(c, told[c].seen[k].index)
                /\ Fits(req[c].method, records[told[c].seen[k].index],
                        told[c].seen[k].is)
         /\ \A i \in told[c].must :
                /\ i \in DOMAIN records
                /\ req[c].incomplete \/ records[i].state = "done"
                /\ told[c].over \/ ~ Beyond(c, i) =>
                       \E k \in DOMAIN told[c].seen : told[c].seen[k].index = i
    BY <1>2 DEF ToldPages
  <2>12. AnsweredPage(c)'
    BY <1>1 DEF AnsweredPage
  <2>13. CASE shown = <<>>
    <3>1. told' = [told EXCEPT ![c] = [told[c] EXCEPT !.over = TRUE]]
      BY <2>2, <2>7, <2>13
    <3>2. told'[c] = [offset |-> told[c].offset, seen |-> told[c].seen,
                      must |-> told[c].must, over |-> TRUE]
      BY <1>1, <2>11, <3>1
    <3>3. \A i : Beyond(c, i)' <=> Beyond(c, i)
      BY <1>1, <3>2 DEF Beyond
    <3>4. \A i \in told[c].must : ~ Beyond(c, i)
      <4>1. list = <<>> /\ DOMAIN list = {}
        BY <2>8, <2>10, <2>13
      <4>2. QED
        BY <2>9, <4>1
    <3>5. ToldPages(c)'
      BY <1>1, <1>2, <1>3, <2>11, <3>2, <3>3, <3>4 DEF ToldPages
    <3>6. QED
      BY <2>12, <3>5 DEF PageInv
  <2>14. CASE shown # <<>>
    <3>0. PICK offset, seen : offset = told[c].offset /\ seen = told[c].seen
      OBVIOUS
    <3>1. PICK end : end = End(req[c].reversed, shown)
      OBVIOUS
    <3>2. PICK all : all = Added(req[c].reversed, seen, shown)
      OBVIOUS
    <3>3. 1 \in DOMAIN list /\ Len(list) \in DOMAIN list
      <4>1. Len(list) \in Nat /\ DOMAIN list = 1 .. Len(list)
        BY <2>9, LenProperties
      <4>2. Len(list) # 0
        BY <2>9, <2>10, <2>14
      <4>3. QED
        BY <4>1, <4>2
    <3>4. end = IF req[c].reversed THEN page.first ELSE page.last
      BY <2>8, <2>9, <2>10, <2>14, <3>1, <3>3 DEF End
    <3>5. told' = [told EXCEPT ![c] = [told[c] EXCEPT !.offset = end, !.seen = all]]
      <4>1. PICK value :
                value = IF result.list = <<>> THEN [told[c] EXCEPT !.over = TRUE]
                        ELSE IF wire[c].reversed
                        THEN [told[c] EXCEPT !.offset = result.first,
                                             !.seen = result.list \o told[c].seen]
                        ELSE [told[c] EXCEPT !.offset = result.last,
                                             !.seen = told[c].seen \o result.list]
        OBVIOUS
      <4>2. told' = [told EXCEPT ![c] = value]
        BY <2>2, <4>1
      <4>3. CASE req[c].reversed
        <5>1. end = result.first /\ all = result.list \o told[c].seen
          BY <2>6, <2>7, <3>0, <3>2, <3>4, <4>3 DEF Added
        <5>2. wire[c].reversed /\ result.list # <<>>
          BY <1>3, <2>7, <2>14, <4>3
        <5>3. value = [told[c] EXCEPT !.offset = end, !.seen = all]
          BY <4>1, <5>1, <5>2
        <5>4. QED
          BY <4>2, <5>3
      <4>4. CASE ~ req[c].reversed
        <5>1. end = result.last /\ all = told[c].seen \o result.list
          BY <2>6, <2>7, <3>0, <3>2, <3>4, <4>4 DEF Added
        <5>2. ~ wire[c].reversed /\ result.list # <<>>
          BY <1>3, <2>7, <2>14, <4>4
        <5>3. value = [told[c] EXCEPT !.offset = end, !.seen = all]
          BY <4>1, <5>1, <5>2
        <5>4. QED
          BY <4>2, <5>3
      <4>5. QED
        BY <4>3, <4>4
    <3>6. told'[c] = [offset |-> end, seen |-> all, must |-> told[c].must,
                      over |-> told[c].over]
      BY <1>1, <2>11, <3>5
    <3>7. InOrder(shown)
      BY <2>8, <2>9 DEF InOrder
    <3>8. AreBeyond(req[c].reversed, offset, shown)
      BY <2>8, <2>9, <3>0 DEF Beyond, AreBeyond, RecordTypes
    <3>9. /\ ArePassed(req[c].reversed, offset, seen)
          /\ offset \in Nat /\ seen \in Seq(Shown) /\ InOrder(seen)
      BY <2>11, <3>0 DEF Beyond, ArePassed
    <3>10. /\ end \in Nat \ {0}
           /\ all \in Seq(Shown) /\ InOrder(all) /\ HasBoth(all, seen, shown)
           /\ ArePassed(req[c].reversed, end, all)
      BY <1>3, <2>8, <2>14, <3>1, <3>2, <3>7, <3>8, <3>9, PageIsAdded
    <3>11. \A i : Beyond(c, i)' <=> Past(req[c].reversed, end, i)
      BY <1>1, <3>6 DEF Beyond
    <3>12. \A k \in DOMAIN all :
               /\ all[k].index \in DOMAIN records
               /\ Fits(req[c].method, records[all[k].index], all[k].is)
      <4>1. \A k \in DOMAIN shown :
                /\ shown[k].index \in DOMAIN records
                /\ Fits(req[c].method, records[shown[k].index], shown[k].is)
        BY <2>8, <2>9, StaysFit
      <4>2. \A k \in DOMAIN seen :
                /\ seen[k].index \in DOMAIN records
                /\ Fits(req[c].method, records[seen[k].index], seen[k].is)
        BY <2>11, <3>0
      <4>3. ASSUME NEW k \in DOMAIN all
            PROVE  (\E j \in DOMAIN seen : all[k] = seen[j])
                       \/ \E j \in DOMAIN shown : all[k] = shown[j]
        BY <3>10 DEF HasBoth
      <4>4. QED
        BY <4>1, <4>2, <4>3
    <3>13. ASSUME NEW i \in told[c].must, ~ Past(req[c].reversed, end, i)
           PROVE  \E k \in DOMAIN all : all[k].index = i
      <4>1. CASE Beyond(c, i)
        <5>1. IF req[c].reversed THEN i >= page.first ELSE i <= page.last
          <6>1. i \in Nat /\ end \in Nat
            BY <2>11, <3>10
          <6>2. IF req[c].reversed THEN i >= end ELSE i <= end
            BY <3>13, <6>1 DEF Past
          <6>3. QED
            BY <3>4, <6>2
        <5>2. \E j \in DOMAIN shown : shown[j].index = i
          BY <2>8, <2>9, <4>1, <5>1
        <5>3. QED
          BY <3>10, <5>2 DEF HasBoth
      <4>2. CASE ~ Beyond(c, i)
        <5>1. \E k \in DOMAIN seen : seen[k].index = i
          BY <2>11, <3>0, <4>2
        <5>2. QED
          BY <3>10, <5>1 DEF HasBoth
      <4>3. QED
        BY <4>1, <4>2
    <3>14. told'[c] \in [offset : Nat, seen : Seq(Shown), must : SUBSET Nat,
                         over : BOOLEAN]
      BY <2>11, <3>6, <3>10
    <3>15. /\ told'[c].offset # 0 /\ told'[c].seen = all /\ ~ told'[c].over
           /\ told'[c].must = told[c].must
      BY <1>3, <3>6, <3>10
    <3>16. ToldPages(c)'
      BY SMTT(30), <1>1, <1>3, <2>11, <3>10, <3>11, <3>12, <3>13, <3>14, <3>15
         DEF ToldPages, ArePassed
    <3>17. QED
      BY <2>12, <3>16 DEF PageInv
  <2>15. QED
    BY <2>13, <2>14
<1>6. CASE ReturnError(c) \/ GiveUp(c) \/ PageDoesNotConvert(c)
  <2>1. told' = told
    BY <1>3, <1>6 DEF ReturnError, GiveUp, PageDoesNotConvert, Unknowing, ListMethods
  <2>2. QED
    BY <1>4, <2>1
<1>7. QED
  BY <1>3, <1>5, <1>6
     DEF Return, Answered, ReturnChannels, ChannelsDoNotConvert, ReturnLease, ReturnFunds,
         FundsDoNotConvert, ReturnRelease, ReturnLeases, ReturnSession,
         SessionDoesNotConvert, ReturnUse, ListMethods, ChannelMethods,
         ChannelLists, SessionMethods

-----------------------------------------------------------------------------
(* All unary calls. *)

\* The invariant of the unary calls: what they share, and what holds of each caller.
UnaryInv ==
    /\ CallsInv /\ LeaseTypes /\ ChannelTypes /\ RecordTypes
    /\ \A c \in Callers : LeaseInv(c) /\ SessionInv(c) /\ ChannelInv(c) /\ PageInv(c)

\* At first no call has been made, and nobody knows anything.
LEMMA InitUnary ==
    ASSUME AllInit
    PROVE  UnaryInv
<1>1. /\ flight = {} /\ sessions = {} /\ lease = NoValue /\ clock = 0
      /\ channel = [stage |-> "pending open"] /\ records = FirstRecords
      /\ \A c \in Callers : /\ at[c] = "idle" /\ made[c] = 0 /\ answer[c] = NoValue
                            /\ told[c] = ToldAtFirst(req[c])
  BY DEF AllInit, Init
<1>2. CallTypes
  BY DEF CallTypes, AllInit
<1>3. CallsInv
  BY <1>1, <1>2 DEF CallsInv, OnePerCall, Waits
<1>4. LeaseTypes /\ ChannelTypes /\ RecordTypes
  BY <1>1, RecordsAssumption DEF LeaseTypes, ChannelTypes, RecordTypes
<1>5. ASSUME NEW c \in Callers
      PROVE  LeaseInv(c) /\ SessionInv(c) /\ ChannelInv(c) /\ PageInv(c)
  <2>1. /\ Leases(c) => told[c] = NoValue
        /\ Creates(c) => told[c] = [known |-> {}, dropped |-> {}]
        /\ Looks(c) => told[c] = [lists |-> 0, seen |-> {}, must |-> FALSE]
        /\ Pages(c) =>
               told[c] = [offset |-> 0, seen |-> <<>>, must |-> {}, over |-> FALSE]
    BY <1>1 DEF ToldAtFirst, Leases, Creates, Looks, Pages, ListMethods, LeaseMethods
  <2>2. LeaseInv(c)
    BY <1>1, <2>1 DEF LeaseInv, ToldLease, AnsweredLease
  <2>3. SessionInv(c)
    <3>1. Creates(c) => KnownSessions(c)
      <4>1. Creates(c) => told[c].known = {} /\ told[c].dropped = {}
        BY <2>1
      <4>2. Creates(c) => told[c] \in [known : SUBSET Nat, dropped : SUBSET Nat]
        <5>1. {} \in SUBSET Nat
          OBVIOUS
        <5>2. QED
          BY <2>1, <5>1
      <4>3. \A s : <<c, s>> \notin sessions
        BY <1>1
      <4>4. QED
        BY <4>1, <4>2, <4>3 DEF KnownSessions
    <3>2. at[c] # "waiting"
      BY <1>1
    <3>3. QED
      BY <1>1, <3>1, <3>2 DEF SessionInv, CurrentUse, CurrentCreation
  <2>4. ChannelInv(c)
    <3>1. Looks(c) => ToldChannels(c)
      <4>1. Looks(c) => /\ told[c].lists = 0 /\ told[c].seen = {}
                        /\ told[c].must = FALSE
        BY <2>1
      <4>2. QED
        BY <2>1, <4>1 DEF ToldChannels
    <3>2. at[c] # "waiting"
      BY <1>1
    <3>3. QED
      BY <3>1, <3>2 DEF ChannelInv, AnsweredChannels
  <2>5. PageInv(c)
    <3>1. Pages(c) => ToldPages(c)
      <4>1. Pages(c) => /\ told[c].offset = 0 /\ told[c].seen = <<>>
                        /\ told[c].must = {} /\ ~ told[c].over
        BY <2>1
      <4>2. Pages(c) => told[c] \in [offset : Nat, seen : Seq(Shown), must : SUBSET Nat,
                                    over : BOOLEAN]
        <5>1. 0 \in Nat /\ <<>> \in Seq(Shown) /\ {} \in SUBSET Nat /\ FALSE \in BOOLEAN
          OBVIOUS
        <5>2. [offset |-> 0, seen |-> <<>>, must |-> {}, over |-> FALSE]
                  \in [offset : Nat, seen : Seq(Shown), must : SUBSET Nat,
                       over : BOOLEAN]
          BY <5>1
        <5>3. QED
          BY <2>1, <5>2
      <4>3. Pages(c) => InOrder(told[c].seen) /\ DOMAIN told[c].seen = {}
        BY <4>1 DEF InOrder
      <4>4. QED
        BY <4>1, <4>2, <4>3 DEF ToldPages
    <3>2. at[c] # "waiting"
      BY <1>1
    <3>3. QED
      BY <3>1, <3>2 DEF PageInv, AnsweredPage
  <2>6. QED
    BY <2>2, <2>3, <2>4, <2>5
<1>6. QED
  BY <1>3, <1>4, <1>5 DEF UnaryInv

\* What a caller asks for moves no other caller and nothing at lnd.
LEMMA AskKeepsUnary ==
    ASSUME Inv, UnaryInv, NEW c \in Callers, Ask(c)
    PROVE  UnaryInv'
<1>1. TypeOK /\ CallsInv /\ LeaseTypes /\ ChannelTypes /\ RecordTypes
  BY DEF Inv, UnaryInv
<1>2. LeaseInv(c) /\ SessionInv(c) /\ ChannelInv(c) /\ PageInv(c)
  BY DEF UnaryInv
<1>3. /\ \E rpc : Call(c, rpc) /\ RpcOf(c, rpc)
      /\ DOMAIN told' = Callers /\ \A d \in Callers \ {c} : told'[d] = told[d]
      /\ Leases(c) => told' = told
  <2>1. Looks(c) => told[c].lists \in Nat
    BY <1>2 DEF ChannelInv, ToldChannels
  <2>2. QED
    BY <1>1, <1>2, <2>1, AsksAreCalls
<1>4. PICK rpc : Call(c, rpc) /\ RpcOf(c, rpc)
  BY <1>3
<1>5. /\ UNCHANGED <<req, lndVars, answer>> /\ made' = [made EXCEPT ![c] = @ + 1]
      /\ at' = [at EXCEPT ![c] = "waiting"] /\ wire' = [wire EXCEPT ![c] = rpc]
      /\ flight' = flight \cup {[by |-> c, n |-> made[c] + 1, rpc |-> rpc]}
  BY <1>4 DEF Call
<1>6. CallsInv'
  BY <1>1, <1>3, <1>4, CallKeepsCalls
<1>7. /\ UNCHANGED <<clock, lease, sessions, channel>>
      /\ LeaseTypes' /\ ChannelTypes' /\ RecordTypes' /\ GoesOn
  BY <1>1, <1>5 DEF lndVars, LeaseTypes, ChannelTypes, RecordTypes, GoesOn, Becomes
<1>8. ASSUME NEW d \in Callers
      PROVE  LeaseInv(d)' /\ SessionInv(d)' /\ ChannelInv(d)' /\ PageInv(d)'
  <2>1. LeaseInv(d) /\ SessionInv(d) /\ ChannelInv(d) /\ PageInv(d)
    BY DEF UnaryInv
  <2>2. LeaseInv(d)'
    BY <1>1, <1>3, <1>4, <1>7, <2>1, CallKeepsLease
  <2>3. CASE d = c
    <3>1. SessionInv(c)'
      BY <1>1, <1>2, <1>5, AskKeepsSessions DEF SessionInv, Creates
    <3>2. ChannelInv(c)'
      BY <1>1, <1>2, <1>5, AskKeepsChannels DEF ChannelInv, Looks
    <3>3. PageInv(c)'
      BY <1>1, <1>2, <1>5, AskKeepsPages DEF PageInv, Pages
    <3>4. QED
      BY <2>2, <2>3, <3>1, <3>2, <3>3
  <2>4. CASE d # c
    <3>1. /\ at'[d] = at[d] /\ wire'[d] = wire[d] /\ made'[d] = made[d]
          /\ told'[d] = told[d] /\ answer'[d] = answer[d]
          /\ \A m \in flight' : m.by = d => m \in flight
      BY <1>1, <1>3, <1>5, <2>4 DEF TypeOK, CallsInv, CallTypes
    <3>2. SessionInv(d)'
      BY <1>5, <1>7, <2>1, <3>1, OthersKeepSessions
    <3>3. ChannelInv(d)'
      BY <1>1, <1>5, <1>7, <2>1, <3>1, OthersKeepChannels
    <3>4. PageInv(d)'
      BY <1>1, <1>5, <1>7, <2>1, <3>1, OthersKeepPages
    <3>5. QED
      BY <2>2, <3>2, <3>3, <3>4
  <2>5. QED
    BY <2>3, <2>4
<1>9. QED
  BY <1>6, <1>7, <1>8 DEF UnaryInv

\* Nor does the return of a call.
LEMMA ReturnKeepsUnary ==
    ASSUME Inv, UnaryInv, NEW c \in Callers, Return(c) \/ GiveUp(c)
    PROVE  UnaryInv'
<1>1. TypeOK /\ CallsInv /\ LeaseTypes /\ ChannelTypes /\ RecordTypes
  BY DEF Inv, UnaryInv
<1>2. LeaseInv(c) /\ SessionInv(c) /\ ChannelInv(c) /\ PageInv(c)
  BY DEF UnaryInv
<1>3. ReturnStep(c)
  BY ReturnsAreReturns
<1>4. /\ UNCHANGED <<req, lndVars, made>> /\ flight' \subseteq flight
      /\ at' = [at EXCEPT ![c] = "idle"] /\ wire' = [wire EXCEPT ![c] = NoValue]
      /\ answer' = [answer EXCEPT ![c] = NoValue]
      /\ \A d \in Callers \ {c} : told'[d] = told[d]
  BY <1>3 DEF ReturnStep, Returns
<1>5. CallsInv'
  BY <1>1, <1>3, ReturnKeepsCalls
<1>6. /\ UNCHANGED <<clock, lease, sessions, channel>>
      /\ LeaseTypes' /\ ChannelTypes' /\ RecordTypes' /\ GoesOn
  BY <1>1, <1>4 DEF lndVars, LeaseTypes, ChannelTypes, RecordTypes, GoesOn, Becomes
<1>7. ASSUME NEW d \in Callers
      PROVE  LeaseInv(d)' /\ SessionInv(d)' /\ ChannelInv(d)' /\ PageInv(d)'
  <2>1. LeaseInv(d) /\ SessionInv(d) /\ ChannelInv(d) /\ PageInv(d)
    BY DEF UnaryInv
  <2>2. LeaseInv(d)'
    BY <1>1, <2>1, ReturnKeepsLease
  <2>3. CASE d = c
    <3>1. SessionInv(c)'
      BY <1>1, <1>2, <1>4, ReturnKeepsSessions DEF SessionInv, Creates
    <3>2. ChannelInv(c)'
      BY <1>1, <1>2, <1>4, ReturnKeepsChannels DEF ChannelInv, Looks
    <3>3. PageInv(c)'
      BY <1>1, <1>2, <1>4, ReturnKeepsPages DEF PageInv, Pages
    <3>4. QED
      BY <2>2, <2>3, <3>1, <3>2, <3>3
  <2>4. CASE d # c
    <3>1. /\ at'[d] = at[d] /\ wire'[d] = wire[d] /\ made'[d] = made[d]
          /\ told'[d] = told[d] /\ answer'[d] = answer[d]
          /\ \A m \in flight' : m.by = d => m \in flight
      BY <1>1, <1>4, <2>4 DEF TypeOK, CallsInv, CallTypes
    <3>2. SessionInv(d)'
      BY <1>4, <1>6, <2>1, <3>1, OthersKeepSessions
    <3>3. ChannelInv(d)'
      BY <1>1, <1>4, <1>6, <2>1, <3>1, OthersKeepChannels
    <3>4. PageInv(d)'
      BY <1>1, <1>4, <1>6, <2>1, <3>1, OthersKeepPages
    <3>5. QED
      BY <2>2, <3>2, <3>3, <3>4
  <2>5. QED
    BY <2>3, <2>4
<1>8. QED
  BY <1>5, <1>6, <1>7 DEF UnaryInv

\* lnd changes its leases, its sessions and its answer to the caller it serves.
LEMMA LndKeepsUnary ==
    ASSUME Inv, UnaryInv, NEW m \in flight, Lnd(m)
    PROVE  UnaryInv'
<1>1. TypeOK /\ CallsInv /\ LeaseTypes /\ ChannelTypes /\ RecordTypes
  BY DEF Inv, UnaryInv
<1>2. /\ UNCHANGED <<req, at, wire, clock, made, told>> /\ flight' = flight \ {m}
      /\ \A c \in Callers : answer'[c] # answer[c] => m.by = c
  BY <1>1, Executions
<1>3. CallsInv' /\ LeaseTypes'
  BY <1>1, LndStepsAreLndSteps, LndKeepsCalls, LndKeepsLeaseTypes
<1>4. channel' = channel /\ records' = records
  BY DEF Lnd, LndLists, LndListsChannels, LndLeases, LndFunds, LndReleases,
         LndListsLeases, LndCreates, LndUses, LndFails, lndVars
<1>5. ChannelTypes' /\ RecordTypes'
  BY <1>1, <1>4 DEF ChannelTypes, RecordTypes
<1>6. ASSUME NEW d \in Callers
      PROVE  LeaseInv(d)' /\ SessionInv(d)' /\ ChannelInv(d)' /\ PageInv(d)'
  <2>1. LeaseInv(d) /\ SessionInv(d) /\ ChannelInv(d) /\ PageInv(d)
    BY DEF UnaryInv
  <2>2. LeaseInv(d)'
    BY <1>1, <2>1, LndKeepsLease
  <2>3. SessionInv(d)'
    <3>1. CASE m.by = d /\ Creates(d)
      BY <1>1, <2>1, <3>1, LndKeepsSessions
    <3>2. CASE m.by # d
      BY <1>1, <1>2, <2>1, <3>2, LndKeepsOthersSessions, OthersKeepSessions
    <3>3. CASE ~ Creates(d)
      BY <1>2, <3>3 DEF SessionInv, Creates
    <3>4. QED
      BY <3>1, <3>2, <3>3
  <2>4. ChannelInv(d)'
    <3>1. CASE Looks(d)
      BY <1>1, <2>1, <3>1, LndKeepsChannels
    <3>2. CASE ~ Looks(d)
      BY <1>2, <3>2 DEF ChannelInv, Looks
    <3>3. QED
      BY <3>1, <3>2
  <2>5. PageInv(d)'
    <3>1. CASE Pages(d)
      BY <1>1, <2>1, <3>1, LndKeepsPages
    <3>2. CASE ~ Pages(d)
      BY <1>2, <3>2 DEF PageInv, Pages
    <3>3. QED
      BY <3>1, <3>2
  <2>6. QED
    BY <2>2, <2>3, <2>4, <2>5
<1>7. QED
  BY <1>3, <1>5, <1>6 DEF UnaryInv

\* Time passes, lnd's list and its channel change, and simple calls are made, without
\* a step of a unary call.
LEMMA OthersKeepUnary ==
    ASSUME Inv, UnaryInv, req' = req, UNCHANGED <<lease, sessions, callVars>>,
           clock' \in Nat, clock' >= clock,
           channel' = channel \/ ChannelOpens \/ ChannelCloses,
           records' = records \/ NewRecord \/ RecordEnds, CallsInv',
           \A c \in Callers : \/ at'[c] = at[c] /\ wire'[c] = wire[c]
                              \/ req[c].method \in SimpleMethods
    PROVE  UnaryInv'
<1>1. TypeOK /\ CallsInv /\ LeaseTypes /\ ChannelTypes /\ RecordTypes
  BY DEF Inv, UnaryInv
<1>2. UNCHANGED <<flight, made, lastDone, answer, told>>
  BY DEF callVars
<1>3. LeaseTypes' /\ ChannelTypes' /\ RecordTypes' /\ GoesOn
  <2>1. LeaseTypes' /\ ChannelTypes'
    BY <1>1, ChannelMoves DEF LeaseTypes, ChannelTypes
  <2>2. RecordTypes' /\ GoesOn
    BY <1>1, ListGoesOn
  <2>3. QED
    BY <2>1, <2>2
<1>4. ASSUME NEW d \in Callers
      PROVE  LeaseInv(d)' /\ SessionInv(d)' /\ ChannelInv(d)' /\ PageInv(d)'
  <2>1. LeaseInv(d) /\ SessionInv(d) /\ ChannelInv(d) /\ PageInv(d)
    BY DEF UnaryInv
  <2>2. \/ at'[d] = at[d] /\ wire'[d] = wire[d]
        \/ ~ Leases(d) /\ ~ Creates(d) /\ ~ Looks(d) /\ ~ Pages(d)
    BY DEF SimpleMethods, Leases, LeaseMethods, Creates, Looks, Pages, ListMethods
  <2>3. LeaseInv(d)'
    BY <1>1, <2>1, <2>2, OtherStepsKeepLease
  <2>4. SessionInv(d)'
    BY <1>2, <2>1, <2>2, OthersKeepSessions
  <2>5. ChannelInv(d)'
    BY <1>1, <1>2, <2>1, <2>2, OthersKeepChannels
  <2>6. PageInv(d)'
    BY <1>1, <1>2, <1>3, <2>1, <2>2, OthersKeepPages
  <2>7. QED
    BY <2>3, <2>4, <2>5, <2>6
<1>5. QED
  BY <1>3, <1>4 DEF UnaryInv

\* Every step keeps the invariant of the unary calls.
LEMMA StepUnary ==
    ASSUME Inv, UnaryInv, [AllNext]_allVars
    PROVE  UnaryInv'
<1>1. TypeOK /\ CallsInv /\ clock \in Nat /\ \A c \in Callers : WaitsForLnd(c)
  BY DEF Inv, CallerInv, UnaryInv, LeaseTypes
<1>2. CASE \E c \in Callers : Ask(c) \/ Return(c) \/ GiveUp(c)
  BY <1>2, AskKeepsUnary, ReturnKeepsUnary
<1>3. CASE \E m \in flight : Lnd(m)
  BY <1>3, LndKeepsUnary
<1>4. CASE Next /\ UNCHANGED <<lndVars, callVars>>
  <2>1. PICK c \in Callers : SimpleStep(c)
    BY <1>4 DEF Next, SimpleStep
  <2>2. /\ req' = req /\ req[c].method \in SimpleMethods
        /\ \A d \in Callers \ {c} : at'[d] = at[d] /\ wire'[d] = wire[d]
    BY <1>1, <2>1, Frame, SimpleIsApart
  <2>3. UNCHANGED <<clock, lease, records, sessions, channel, callVars>>
    BY <1>4 DEF lndVars
  <2>4. CallsInv'
    BY <1>1, <2>1, <2>3, SimpleKeepsCalls
  <2>5. clock' \in Nat /\ clock' >= clock
    BY <1>1, <2>3
  <2>6. \A d \in Callers : \/ at'[d] = at[d] /\ wire'[d] = wire[d]
                           \/ req[d].method \in SimpleMethods
    BY <2>2
  <2>7. QED
    BY <2>2, <2>3, <2>4, <2>5, <2>6, OthersKeepUnary
<1>5. CASE NewRecord \/ RecordEnds \/ ChannelOpens \/ ChannelCloses \/ Tick
           \/ UNCHANGED allVars
  <2>1. UNCHANGED <<vars, lease, sessions, callVars>>
    BY <1>5 DEF NewRecord, RecordEnds, ChannelOpens, ChannelCloses, Tick, allVars, lndVars
  <2>2. clock' = clock \/ clock' = clock + 1
    BY <1>5 DEF NewRecord, RecordEnds, ChannelOpens, ChannelCloses, Tick, allVars, lndVars
  <2>3. /\ channel' = channel \/ ChannelOpens \/ ChannelCloses
        /\ records' = records \/ NewRecord \/ RecordEnds
    BY <1>5 DEF NewRecord, RecordEnds, ChannelOpens, ChannelCloses, Tick, allVars, lndVars
  <2>4. UNCHANGED <<req, at, wire>>
    BY <2>1 DEF vars
  <2>5. clock' \in Nat /\ clock' >= clock
    BY <1>1, <2>2
  <2>6. CallsInv'
    <3>1. UNCHANGED <<flight, made, lastDone, answer, told>>
      BY <2>1 DEF callVars
    <3>2. \A d \in Callers : \A rpc : RpcOf(d, rpc)' <=> RpcOf(d, rpc)
      BY <2>4 DEF RpcOf, PageRpc, ChannelRpc, LeaseRpc, SessionRpc, Pages, Looks, Leases,
                  Creates, Ids
    <3>3. CallTypes' /\ OnePerCall'
      BY <1>1, <3>1 DEF CallsInv, CallTypes, OnePerCall
    <3>4. \A m \in flight' : InFlight(m)'
      BY <1>1, <2>4, <3>1, <3>2 DEF CallsInv, InFlight, Current
    <3>5. \A d \in Callers : Waits(d)'
      BY <1>1, <2>4, <3>1, <3>2 DEF CallsInv, Waits
    <3>6. QED
      BY <3>3, <3>4, <3>5 DEF CallsInv
  <2>7. QED
    BY <2>1, <2>3, <2>4, <2>5, <2>6, OthersKeepUnary
<1>6. QED
  BY <1>2, <1>3, <1>4, <1>5 DEF AllNext

\* The invariant of the unary calls, with that of all calls.
THEOREM UnaryInvariance == AllSpec => [](Inv /\ UnaryInv)
<1>1. AllInit => Inv /\ UnaryInv
  BY InitInv, InitUnary
<1>2. (Inv /\ UnaryInv) /\ [AllNext]_allVars => (Inv /\ UnaryInv)'
  BY StepInv, StepUnary
<1>3. QED
  BY <1>1, <1>2, PTL DEF AllSpec

\* A caller who reads the lists of channels one after the other misses no channel that
\* was open when it began, and the close initiator it is shown is right, for every
\* way a channel can end and any number of callers (ListChannels, PendingChannels,
\* ClosedChannels, rpcCloseInitiator).
THEOREM ChannelsAreFollowed == AllSpec => []ChannelsAreSeen
<1>1. Inv /\ UnaryInv => ChannelsAreSeen
  <2> SUFFICES ASSUME UnaryInv, NEW c \in Callers, Looks(c)
               PROVE  /\ told[c].lists = Len(ChannelLists) /\ told[c].must =>
                             told[c].seen # {}
                      /\ \A shown \in told[c].seen : shown.list = "closed" =>
                             /\ shown.initiator \in {channel.closer, "unrecorded"}
                             /\ shown.type \in ForceCloses =>
                                    shown.initiator = channel.closer
    BY DEF ChannelsAreSeen
  <2>1. ToldChannels(c)
    BY DEF UnaryInv, ChannelInv
  <2>2. ~ LaterThan(3)
    BY DEF LaterThan
  <2>3. Len(ChannelLists) = 3
    BY DEF ChannelLists
  <2>4. QED
    BY <2>1, <2>2, <2>3 DEF ToldChannels, ShownAsItIs
<1>2. QED
  BY <1>1, UnaryInvariance, PTL

\* A caller holds the coin as it was told and can use the sessions it was told of,
\* however many callers there are and whatever of theirs lnd executes late, if at most
\* one of them uses FundPsbt, for which lnd has only one lock ID (LeaseOutput, FundPsbt,
\* ListLeases, MuSig2CreateSession).
THEOREM WhatIsToldIsHeld == ASSUME OneFunder PROVE AllSpec => []ToldIsHeld
<1>1. Inv /\ UnaryInv => ToldIsHeld
  <2> SUFFICES ASSUME UnaryInv, NEW c \in Callers
               PROVE  /\ Leases(c) /\ told[c] # NoValue =>
                             (lastDone[c] = told[c].by /\ clock < told[c].until =>
                                  lease = [id |-> told[c].id, until |-> told[c].until])
                      /\ Creates(c) =>
                             LET there == {n \in 1 .. made[c] : <<c, n>> \in sessions}
                                 pending == IF at[c] = "waiting" THEN {made[c]} ELSE {}
                             IN  /\ told[c].known \subseteq there
                                 /\ there \subseteq
                                        told[c].known \cup told[c].dropped \cup pending
    BY DEF ToldIsHeld, Leases, Creates
  <2>1. LeaseInv(c) /\ SessionInv(c)
    BY DEF UnaryInv
  <2>2. Leases(c) /\ told[c] # NoValue =>
            (lastDone[c] = told[c].by /\ clock < told[c].until =>
                 lease = [id |-> told[c].id, until |-> told[c].until])
    BY <2>1 DEF LeaseInv, ToldLease, Rely
  <2>3. Creates(c) => KnownSessions(c)
    BY <2>1 DEF SessionInv
  <2>4. QED
    BY <2>2, <2>3 DEF KnownSessions, Accounted, Creating
<1>2. QED
  BY <1>1, UnaryInvariance, PTL

\* Whoever follows the indices of lnd's pages to the end has been shown every record it
\* looked for, once and in order, however long the list and its pages are and however it
\* grows meanwhile; an invoice and the status of a payment have shown a preimage only
\* if they are settled (ForwardingHistory, ListInvoices, ListPayments).
THEOREM PagesMissNothing == AllSpec => []PagesAreComplete
<1>1. Inv /\ UnaryInv => PagesAreComplete
  <2> SUFFICES ASSUME UnaryInv, NEW c \in Callers, Pages(c)
               PROVE  LET seen == told[c].seen
                          passed(i) ==
                              \/ told[c].over
                              \/ /\ told[c].offset # 0
                                 /\ IF req[c].reversed THEN i >= told[c].offset
                                                       ELSE i <= told[c].offset
                      IN  /\ \A k \in 1 .. Len(seen) - 1 :
                                 seen[k].index < seen[k + 1].index
                          /\ \A i \in told[c].must :
                                 passed(i) => \E k \in DOMAIN seen : seen[k].index = i
                          /\ req[c].method # "ForwardingHistory" =>
                                 \A k \in DOMAIN seen :
                                     PreimageFits(req[c].method,
                                                  records[seen[k].index], seen[k].is)
    BY DEF PagesAreComplete, Pages
  <2>1. ToldPages(c)
    BY DEF UnaryInv, PageInv
  <2>2. PICK seen \in Seq(Shown), offset \in Nat :
            seen = told[c].seen /\ offset = told[c].offset
    BY <2>1 DEF ToldPages
  <2>3. PICK n \in Nat : n = Len(seen) /\ DOMAIN seen = 1 .. n
    BY LenProperties
  <2>4. ASSUME NEW k \in 1 .. Len(seen) - 1
        PROVE  seen[k].index < seen[k + 1].index
    <3>1. k \in 1 .. n /\ k + 1 \in 1 .. n /\ k < k + 1
      BY <2>3
    <3>2. QED
      BY <2>1, <2>2, <2>3, <3>1 DEF ToldPages, InOrder
  <2>5. ASSUME NEW i \in told[c].must,
               \/ told[c].over
               \/ offset # 0 /\ IF req[c].reversed THEN i >= offset ELSE i <= offset
        PROVE  \E k \in DOMAIN seen : seen[k].index = i
    <3>1. i \in Nat
      BY <2>1 DEF ToldPages
    <3>2. told[c].over \/ ~ Beyond(c, i)
      BY SMTT(30), <2>2, <2>5, <3>1 DEF Beyond, Past
    <3>3. QED
      BY <2>1, <2>2, <3>2 DEF ToldPages
  <2>6. req[c].method # "ForwardingHistory" =>
            \A k \in DOMAIN seen :
                PreimageFits(req[c].method, records[seen[k].index], seen[k].is)
    BY <2>1, <2>2 DEF ToldPages, Fits
  <2>7. QED
    BY <2>2, <2>4, <2>5, <2>6
<1>2. QED
  BY <1>1, UnaryInvariance, PTL
=============================================================================
