--------------------------- MODULE RetrievalProofs ---------------------------
(***************************************************************************)
(* Proofs about the way in and out of the store: SELECT answers exactly    *)
(* what its WHERE clause accepts, model settings are those a restart       *)
(* brings back, REASON queries answer from the cache only what was         *)
(* computed and stop early without loss, a document's search returns the   *)
(* best of what it verified, chunks have the text and trees follow its     *)
(* headings, summaries are saved from the leaves to the root, and          *)
(* vocabulary terms are lost only to overlaps.                             *)
(***************************************************************************)
EXTENDS RqlExecutor, ReasonQuery, SearchEngine, Summaries, FiniteSetTheorems, FunctionTheorems,
        SequenceTheorems, WellFoundedInduction, TLAPS

(***************************************************************************)
(* Sequences by rank                                                       *)
(***************************************************************************)

\* There are n numbers from 1 to n.
LEMMA CountingTo ==
  ASSUME NEW n \in Nat
  PROVE  IsFiniteSet(1..n) /\ Cardinality(1..n) = n
<1>1. 1 \in Int /\ n \in Int /\ (1 > n => n = 0)
  OBVIOUS
<1>2. IsFiniteSet(1..n) /\ Cardinality(1..n) = IF 1 > n THEN 0 ELSE n - 1 + 1
  BY <1>1, FS_Interval
<1> QED
  BY <1>1, <1>2

\* An order of finitely many elements puts them into a sequence, each once, the smaller ones first.
LEMMA LinedFacts ==
  ASSUME NEW S, IsFiniteSet(S), NEW R,
         \A x, y, z \in S : <<x, y>> \in R /\ <<y, z>> \in R => <<x, z>> \in R,
         \A x \in S : <<x, x>> \notin R,
         \A x, y \in S : x = y \/ <<x, y>> \in R \/ <<y, x>> \in R
  PROVE  /\ Lined(S, R) \in Seq(S) /\ DOMAIN Lined(S, R) = 1..Cardinality(S)
         /\ Len(Lined(S, R)) = Cardinality(S) /\ Cardinality(S) \in Nat
         /\ \A x \in S : \E k \in 1..Cardinality(S) : Lined(S, R)[k] = x
         /\ \A k, l \in 1..Cardinality(S) : k < l <=> <<Lined(S, R)[k], Lined(S, R)[l]>> \in R
<1>a. PICK n : n = Cardinality(S)
  OBVIOUS
<1> DEFINE Under(x) == {y \in S : <<y, x>> \in R}
<1>1. n \in Nat
  BY <1>a, FS_CardinalityType
<1>2. ASSUME NEW x \in S
      PROVE  IsFiniteSet(Under(x)) /\ Cardinality(Under(x)) \in 0..(n - 1)
  <2>1. Under(x) \subseteq S \ {x}
    OBVIOUS
  <2>2. IsFiniteSet(S \ {x}) /\ Cardinality(S \ {x}) = n - 1
    BY <1>a, FS_RemoveElement
  <2>3. /\ IsFiniteSet(Under(x)) /\ Cardinality(Under(x)) <= Cardinality(S \ {x})
    BY <2>1, <2>2, FS_Subset
  <2>4. Cardinality(Under(x)) \in Nat
    BY <2>3, FS_CardinalityType
  <2> QED
    BY <1>1, <2>2, <2>3, <2>4
<1>3. ASSUME NEW x \in S, NEW y \in S, <<x, y>> \in R
      PROVE  Cardinality(Under(x)) < Cardinality(Under(y))
  <2>1. Under(x) \subseteq Under(y) /\ x \in Under(y) /\ x \notin Under(x)
    BY <1>3
  <2>2. /\ Cardinality(Under(x)) <= Cardinality(Under(y))
        /\ Cardinality(Under(x)) = Cardinality(Under(y)) => Under(x) = Under(y)
    BY <1>2, <2>1, FS_Subset
  <2>3. Cardinality(Under(x)) \in Nat /\ Cardinality(Under(y)) \in Nat
    BY <1>2
  <2> QED
    BY <2>1, <2>2, <2>3
<1> HIDE DEF Under
<1> DEFINE r == [x \in S |-> Cardinality(Under(x)) + 1]
<1>4. r \in Injection(S, 1..n)
  <2>1. r \in [S -> 1..n]
    BY <1>1, <1>2
  <2>2. ASSUME NEW x \in S, NEW y \in S, r[x] = r[y] PROVE x = y
    <3>1. Cardinality(Under(x)) = Cardinality(Under(y))
      BY <1>2, <2>2
    <3>2. Cardinality(Under(x)) \in Nat /\ Cardinality(Under(y)) \in Nat
      BY <1>2
    <3>3. <<x, y>> \notin R /\ <<y, x>> \notin R
      BY <1>3, <3>1, <3>2
    <3> QED
      BY <3>3
  <2> HIDE DEF r
  <2> QED
    BY <2>1, <2>2 DEF Injection, IsInjective
<1>5. r \in Surjection(S, 1..n)
  <2>1. IsFiniteSet(1..n) /\ Cardinality(1..n) = n
    BY <1>1, CountingTo
  <2> HIDE DEF r
  <2> QED
    BY <1>a, <1>4, <2>1, FS_Injection
<1>6. \A k \in 1..n : \E x \in S : Cardinality(Under(x)) = k - 1
  <2> TAKE k \in 1..n
  <2>1. PICK x \in S : r[x] = k
    <3> HIDE DEF r
    <3> QED
      BY <1>5 DEF Surjection
  <2>2. Cardinality(Under(x)) + 1 = k /\ Cardinality(Under(x)) \in Nat
    BY <1>2, <2>1
  <2> QED
    BY <2>2
<1>b. PICK s : s = Lined(S, R)
  OBVIOUS
<1>c. s = [k \in 1..n |-> CHOOSE x \in S : Cardinality(Under(x)) = k - 1]
  BY <1>a, <1>b DEF Lined, Under
<1>7. DOMAIN s = 1..n /\ \A k \in 1..n : s[k] \in S /\ Cardinality(Under(s[k])) = k - 1
  BY <1>6, <1>c
<1>8. s \in Seq(S) /\ Len(s) = n
  <2>2. s \in [1..n -> S]
    BY <1>7, <1>c
  <2> QED
    BY <1>1, <1>7, <2>2
<1>9. \A x, y \in S : x = y <=> Cardinality(Under(x)) = Cardinality(Under(y))
  <2> SUFFICES ASSUME NEW x \in S, NEW y \in S, Cardinality(Under(x)) = Cardinality(Under(y)) PROVE x = y
    OBVIOUS
  <2>1. Cardinality(Under(x)) \in Nat /\ Cardinality(Under(y)) \in Nat
    BY <1>2
  <2>2. <<x, y>> \notin R /\ <<y, x>> \notin R
    BY <1>3, <2>1
  <2> QED
    BY <2>2
<1>10. \A x \in S : \E k \in 1..n : s[k] = x
  <2> TAKE x \in S
  <2>1. Cardinality(Under(x)) + 1 \in 1..n /\ (Cardinality(Under(x)) + 1) - 1 = Cardinality(Under(x))
    BY <1>1, <1>2
  <2> QED
    BY <1>7, <1>9, <2>1
<1>11. ASSUME NEW k \in 1..n, NEW l \in 1..n PROVE k < l <=> <<s[k], s[l]>> \in R
  <2>1. s[k] \in S /\ s[l] \in S /\ Cardinality(Under(s[k])) = k - 1 /\ Cardinality(Under(s[l])) = l - 1
    BY <1>7
  <2>2. <<s[k], s[l]>> \in R => k - 1 < l - 1
    BY <1>3, <2>1
  <2>3. <<s[l], s[k]>> \in R => l - 1 < k - 1
    BY <1>3, <2>1
  <2>4. s[k] = s[l] => k - 1 = l - 1
    BY <2>1
  <2>5. s[k] = s[l] \/ <<s[k], s[l]>> \in R \/ <<s[l], s[k]>> \in R
    BY <2>1
  <2> QED
    BY <1>1, <2>2, <2>3, <2>4, <2>5
<1> QED
  BY <1>a, <1>b, <1>1, <1>7, <1>8, <1>10, <1>11

\* Finitely many numbers in ascending order.
LEMMA AscendingFacts ==
  ASSUME NEW S \in SUBSET Int, IsFiniteSet(S)
  PROVE  /\ Ascending(S) \in Seq(S) /\ DOMAIN Ascending(S) = 1..Cardinality(S)
         /\ Len(Ascending(S)) = Cardinality(S) /\ Cardinality(S) \in Nat
         /\ \A x \in S : \E k \in 1..Cardinality(S) : Ascending(S)[k] = x
         /\ \A k \in 1..Cardinality(S) : Ascending(S)[k] \in S
         /\ \A k, l \in 1..Cardinality(S) : k < l <=> Ascending(S)[k] < Ascending(S)[l]
<1> DEFINE R == {p \in S \X S : p[1] < p[2]}
<1>1. \A x, y \in S : <<x, y>> \in R <=> x < y
  OBVIOUS
<1>2. Ascending(S) = Lined(S, R)
  BY DEF Ascending
<1> HIDE DEF R
<1>3. /\ \A x, y, z \in S : <<x, y>> \in R /\ <<y, z>> \in R => <<x, z>> \in R
      /\ \A x \in S : <<x, x>> \notin R
      /\ \A x, y \in S : x = y \/ <<x, y>> \in R \/ <<y, x>> \in R
  BY <1>1
<1>4. /\ Ascending(S) \in Seq(S) /\ DOMAIN Ascending(S) = 1..Cardinality(S)
      /\ Len(Ascending(S)) = Cardinality(S) /\ Cardinality(S) \in Nat
      /\ \A x \in S : \E k \in 1..Cardinality(S) : Ascending(S)[k] = x
      /\ \A k, l \in 1..Cardinality(S) : k < l <=> <<Ascending(S)[k], Ascending(S)[l]>> \in R
  <2>1. /\ Lined(S, R) \in Seq(S) /\ DOMAIN Lined(S, R) = 1..Cardinality(S)
        /\ Len(Lined(S, R)) = Cardinality(S) /\ Cardinality(S) \in Nat
        /\ \A x \in S : \E k \in 1..Cardinality(S) : Lined(S, R)[k] = x
        /\ \A k, l \in 1..Cardinality(S) : k < l <=> <<Lined(S, R)[k], Lined(S, R)[l]>> \in R
    BY <1>3, LinedFacts
  <2> QED
    BY <1>2, <2>1
<1>5. \A k \in 1..Cardinality(S) : Ascending(S)[k] \in S
  BY <1>4
<1> QED
  BY <1>1, <1>4, <1>5

\* What is left of a sequence: its elements of T, each as often as before, in the same order.
LEMMA OnlyFacts ==
  ASSUME NEW S, NEW s \in Seq(S), NEW T
  PROVE  /\ Only(s, T) \in Seq(S) /\ Range(Only(s, T)) = Range(s) \cap T
         /\ Len(Only(s, T)) \in Nat /\ DOMAIN Only(s, T) = 1..Len(Only(s, T)) /\ Len(Only(s, T)) <= Len(s)
         /\ IsInjective(s) => IsInjective(Only(s, T))
<1>a. PICK I : I = {i \in DOMAIN s : s[i] \in T}
  OBVIOUS
<1>b. PICK at : at = Ascending(I)
  OBVIOUS
<1>c. PICK n : n = Cardinality(I)
  OBVIOUS
<1>d. PICK o : o = Only(s, T)
  OBVIOUS
<1>1. Len(s) \in Nat /\ DOMAIN s = 1..Len(s) /\ \A i \in DOMAIN s : s[i] \in S
  BY LenProperties, ElementOfSeq
<1>2. IsFiniteSet(I) /\ n <= Len(s) /\ I \subseteq 1..Len(s) /\ I \in SUBSET Int
  <2>1. IsFiniteSet(1..Len(s)) /\ Cardinality(1..Len(s)) = Len(s)
    BY <1>1, CountingTo
  <2>2. I \subseteq 1..Len(s)
    BY <1>a, <1>1
  <2> QED
    <3>1. IsFiniteSet(I) /\ Cardinality(I) <= Cardinality(1..Len(s))
      BY <2>1, <2>2, FS_Subset
    <3>2. I \subseteq Int
      BY <2>2
    <3> QED
      BY <1>c, <2>1, <2>2, <3>1, <3>2
<1>3. /\ DOMAIN at = 1..n /\ n \in Nat
      /\ \A x \in I : \E k \in 1..n : at[k] = x
      /\ \A k \in 1..n : at[k] \in I
      /\ \A k, l \in 1..n : k < l <=> at[k] < at[l]
  BY <1>b, <1>c, <1>2, AscendingFacts
<1>4. o = [k \in 1..n |-> s[at[k]]]
  BY <1>a, <1>b, <1>d, <1>3 DEF Only
<1>5. \A k \in 1..n : at[k] \in DOMAIN s /\ s[at[k]] \in T /\ s[at[k]] \in S
  BY <1>a, <1>1, <1>3
<1>6. o \in Seq(S) /\ Len(o) = n /\ DOMAIN o = 1..n
  <2>1. o \in [1..n -> S]
    BY <1>4, <1>5
  <2> QED
    BY <1>3, <1>4, <2>1
<1>7. Range(o) = Range(s) \cap T
  <2>1. \A x : x \in Range(o) => x \in Range(s) \cap T
    BY <1>4, <1>5, <1>6 DEF Range
  <2>2. ASSUME NEW x \in Range(s) \cap T PROVE x \in Range(o)
    <3>1. PICK i \in DOMAIN s : s[i] = x
      BY DEF Range
    <3>2. i \in I
      BY <1>a, <3>1
    <3>3. PICK k \in 1..n : at[k] = i
      BY <1>3, <3>2
    <3> QED
      BY <1>4, <1>6, <3>1, <3>3 DEF Range
  <2> QED
    BY <2>1, <2>2
<1>8. ASSUME IsInjective(s) PROVE IsInjective(o)
  <2> SUFFICES ASSUME NEW k \in 1..n, NEW l \in 1..n, o[k] = o[l] PROVE k = l
    BY <1>6 DEF IsInjective
  <2>1. at[k] = at[l]
    BY <1>4, <1>5, <1>8 DEF IsInjective
  <2>2. at[k] \in Int
    BY <1>2, <1>3
  <2> QED
    BY <1>3, <2>1, <2>2
<1> QED
  BY <1>d, <1>2, <1>3, <1>6, <1>7, <1>8

(***************************************************************************)
(* RQL: answers are those of the WHERE clause                              *)
(***************************************************************************)

\* The smaller of two integers, as the community modules pick it.
LEMMA MinOfTwo ==
  ASSUME NEW a \in Int, NEW b \in Int
  PROVE  Min({a, b}) = IF a <= b THEN a ELSE b
<1>1. CASE a <= b
  BY <1>1 DEF Min
<1>2. CASE ~(a <= b)
  BY <1>2 DEF Min
<1> QED
  BY <1>1, <1>2

\* The larger of two integers.
LEMMA MaxOfTwo ==
  ASSUME NEW a \in Int, NEW b \in Int
  PROVE  Max({a, b}) = IF a >= b THEN a ELSE b
<1>1. CASE a >= b
  BY <1>1 DEF Max
<1>2. CASE ~(a >= b)
  BY <1>2 DEF Max
<1> QED
  BY <1>1, <1>2

\* An arrangement of a finite set has every member once and nothing else.
LEMMA Enumerates ==
  ASSUME NEW S, IsFiniteSet(S), NEW s \in SetToSeqs(S)
  PROVE  /\ s \in Seq(S) /\ Len(s) = Cardinality(S) /\ DOMAIN s = 1..Cardinality(S)
         /\ IsInjective(s) /\ Range(s) = S
<1> PICK n : n = Cardinality(S)
  OBVIOUS
<1>1. n \in Nat
  BY FS_CardinalityType
<1>2. s \in [1..n -> S] /\ \A i, j \in 1..n : i # j => s[i] # s[j]
  BY DEF SetToSeqs
<1>3. s \in Injection(1..n, S)
  BY <1>2, Fun_IsInj
<1>4. s \in Surjection(1..n, S)
  BY <1>1, <1>3, FS_Injection, FS_Interval
<1>5. Range(s) = S
  BY <1>4, Fun_SurjectionProperties
<1>6. s \in Seq(S) /\ Len(s) = n
  BY <1>1, <1>2
<1> QED
  BY <1>2, <1>5, <1>6 DEF IsInjective

\* A part of an arrangement has no member twice and no others.
LEMMA PartOfArrangement ==
  ASSUME NEW S, IsFiniteSet(S), NEW s \in SetToSeqs(S), NEW k \in Nat, NEW m \in Nat,
         k >= 1, m <= Cardinality(S)
  PROVE  /\ IsInjective(SubSeq(s, k, m)) /\ Range(SubSeq(s, k, m)) \subseteq S
         /\ Len(SubSeq(s, k, m)) = IF k <= m THEN m - k + 1 ELSE 0
<1> PICK p : p = SubSeq(s, k, m)
  OBVIOUS
<1> PICK n : n = Cardinality(S)
  OBVIOUS
<1>1. n \in Nat /\ s \in Seq(S) /\ Len(s) = n /\ IsInjective(s) /\ DOMAIN s = 1..n
  BY Enumerates, FS_CardinalityType
<1>2. m \in Int /\ k \in Int
  OBVIOUS
<1>3. \A i \in k..m : s[i] \in S
  BY <1>1, <1>2
<1>4. /\ SubSeq(s, k, m) \in Seq(S) /\ Len(SubSeq(s, k, m)) = IF k <= m THEN m - k + 1 ELSE 0
      /\ \A i \in 1..(m - k + 1) : SubSeq(s, k, m)[i] = s[k + i - 1]
  BY <1>2, <1>3, SubSeqProperties
<1>5. /\ p \in Seq(S) /\ Len(p) = IF k <= m THEN m - k + 1 ELSE 0
      /\ \A i \in 1..(m - k + 1) : p[i] = s[k + i - 1]
  BY <1>4
<1>6. DOMAIN p = 1..Len(p) /\ 1..Len(p) = 1..(m - k + 1)
  BY <1>5
<1>7. \A i \in DOMAIN p : i \in Nat /\ p[i] = s[k + i - 1] /\ k + i - 1 \in DOMAIN s
  <2> SUFFICES ASSUME NEW i \in DOMAIN p
               PROVE  i \in Nat /\ p[i] = s[k + i - 1] /\ k + i - 1 \in DOMAIN s
    OBVIOUS
  <2>1. i \in 1..(m - k + 1)
    BY <1>6
  <2>2. i \in Nat /\ k + i - 1 \in 1..n
    BY <1>1, <2>1
  <2> QED
    BY <1>1, <1>5, <2>1, <2>2
<1>8. IsInjective(p)
  <2> SUFFICES ASSUME NEW i \in DOMAIN p, NEW j \in DOMAIN p, p[i] = p[j] PROVE i = j
    BY DEF IsInjective
  <2>1. k + i - 1 = k + j - 1
    BY <1>1, <1>7 DEF IsInjective
  <2> QED
    BY <1>7, <2>1
<1>9. Range(p) \subseteq S
  <2>1. \A j \in DOMAIN s : s[j] \in S
    BY <1>1
  <2>2. \A i \in DOMAIN p : p[i] \in S
    BY <1>7, <2>1
  <2> QED
    BY <2>2 DEF Range
<1> QED
  BY <1>5, <1>8, <1>9

\* A page has as many members as are left after the offset, up to the limit.
LEMMA PageLength ==
  ASSUME NEW n \in Nat, NEW l \in Nat, NEW o \in Nat
  PROVE  /\ Min({o + l, n}) \in Nat /\ Min({o + l, n}) <= n
         /\ (IF o + 1 <= Min({o + l, n}) THEN Min({o + l, n}) - (o + 1) + 1 ELSE 0)
              = Max({0, Min({l, n - o})})
<1>1. Min({o + l, n}) = IF o + l <= n THEN o + l ELSE n
  BY MinOfTwo
<1> PICK r : r = IF l <= n - o THEN l ELSE n - o
  OBVIOUS
<1>2. r \in Int /\ Min({l, n - o}) = r
  BY MinOfTwo
<1>3. Max({0, r}) = IF 0 >= r THEN 0 ELSE r
  BY <1>2, MaxOfTwo
<1>4. (IF o + 1 <= Min({o + l, n}) THEN Min({o + l, n}) - (o + 1) + 1 ELSE 0) = IF 0 >= r THEN 0 ELSE r
  BY <1>1
<1>5. Max({0, Min({l, n - o})}) = Max({0, r})
  BY <1>2
<1>6. Min({o + l, n}) \in Nat /\ Min({o + l, n}) <= n
  BY <1>1
<1> QED
  BY <1>3, <1>4, <1>5, <1>6

------------------------------------------------------------------------------
(* The metadata index *)

Rows == [QDocs -> Document \cup {Gone}]
Listing(table) == UNION {IndexEntries(d, table[d]) : d \in QDocs}

\* The index lists exactly the values that the documents have, and no document is found that the table
\* never had.
Indexed == rows \in Rows /\ metaIdx = Listing(rows) /\ texts \subseteq QDocs

ExecInv == (answer = NoAnswer => Indexed) /\ SelectIsExact

\* Every entry of a document names the document.
LEMMA EntriesNameTheirDocument ==
  ASSUME NEW d, NEW doc, NEW e \in IndexEntries(d, doc)
  PROVE  e = <<doc.meta, d>> /\ e[2] = d
BY DEF IndexEntries, MetadataKey

\* Taking out the entries of some rows and putting in those of what replaces them keeps the index exact.
LEMMA ReindexedIsExact ==
  ASSUME Indexed, NEW ds \in SUBSET QDocs, NEW new \in Rows,
         \A d \in QDocs \ ds : new[d] = rows[d], Reindexed(ds, new)
  PROVE  metaIdx' = Listing(new)
<1>1. ASSUME NEW e \in metaIdx' PROVE e \in Listing(new)
  <2>1. CASE \E d \in ds : e \in IndexEntries(d, new[d])
    BY <2>1 DEF Listing
  <2>2. CASE e \in metaIdx /\ \A d \in ds : e \notin IndexEntries(d, rows[d])
    BY <2>2 DEF Listing, Indexed
  <2> QED
    BY <1>1, <2>1, <2>2 DEF Reindexed
<1>2. ASSUME NEW e \in Listing(new) PROVE e \in metaIdx'
  <2>1. PICK d \in QDocs : e \in IndexEntries(d, new[d])
    BY <1>2 DEF Listing
  <2>2. CASE d \in ds
    BY <2>1, <2>2 DEF Reindexed
  <2>3. CASE d \notin ds
    <3>1. e \in IndexEntries(d, rows[d]) /\ e[2] = d
      BY <2>1, <2>3, EntriesNameTheirDocument
    <3>2. \A b \in ds : e \notin IndexEntries(b, rows[b])
      BY <2>3, <3>1, EntriesNameTheirDocument
    <3>3. e \in metaIdx
      BY <3>1 DEF Indexed, Listing
    <3> QED
      BY <3>2, <3>3 DEF Reindexed
  <2> QED
    BY <2>2, <2>3
<1> QED
  BY <1>1, <1>2

\* What an assignment writes is a document.
LEMMA AssignedIsDocument ==
  ASSUME NEW doc \in Document, NEW a \in Assignments
  PROVE  Assigned(doc, a) \in Document
<1>1. CASE a.field = "tags"
  BY <1>1 DEF Assigned, Assignments, Document
<1>2. CASE a.field # "tags"
  <2>1. a.value \in {<<"number", 1>>, <<"string", 1>>, <<"null", 0>>}
    BY <1>2 DEF Assignments
  <2>2. ToJson(a.value) \in Json
    BY <2>1 DEF ToJson, Json
  <2> QED
    BY <1>2, <2>2 DEF Assigned, Document
<1> QED
  BY <1>1, <1>2

\* UPDATE rewrites the rows that match and their index entries together: the index stays exact.
LEMMA Updates ==
  ASSUME Indexed, NEW c, NEW a \in Assignments, Update(c, a)
  PROVE  Indexed'
<1> PICK ds : ds = Matching(c)
  OBVIOUS
<1> PICK new : new = [d \in QDocs |-> IF d \in ds THEN Assigned(rows[d], a) ELSE rows[d]]
  OBVIOUS
<1>1. rows' = new /\ Reindexed(ds, new) /\ UNCHANGED texts
  BY DEF Update
<1>2. ds \subseteq QDocs /\ \A d \in ds : rows[d] \in Document
  BY DEF Matching, Present, Indexed, Rows
<1>3. new \in Rows
  BY <1>2, AssignedIsDocument DEF Indexed, Rows
<1>4. metaIdx' = Listing(new)
  BY <1>1, <1>2, <1>3, ReindexedIsExact
<1> QED
  BY <1>1, <1>3, <1>4 DEF Indexed

\* DELETE takes the rows that match and their index entries away together: the index stays exact.
LEMMA Deletes ==
  ASSUME Indexed, NEW c, Delete(c)
  PROVE  Indexed'
<1> PICK ds : ds = Matching(c)
  OBVIOUS
<1> PICK new : new = [d \in QDocs |-> IF d \in ds THEN Gone ELSE rows[d]]
  OBVIOUS
<1>1. rows' = new /\ Reindexed(ds, new) /\ UNCHANGED texts
  BY DEF Delete
<1>2. ds \subseteq QDocs
  BY DEF Matching
<1>3. new \in Rows
  BY <1>2 DEF Indexed, Rows
<1>4. metaIdx' = Listing(new)
  BY <1>1, <1>2, <1>3, ReindexedIsExact
<1> QED
  BY <1>1, <1>3, <1>4 DEF Indexed

------------------------------------------------------------------------------
(* The candidates of a SELECT *)

\* A document that WHERE accepts satisfies every equality that is looked up in the index.
LEMMA FilterIsImplied ==
  ASSUME NEW c \in Conditions, NEW doc, MatchesCondition(doc, c), NEW e \in SearchFilter(c)
  PROVE  e \in Comparisons /\ e.op = "=" /\ FieldValue(doc) = e.right
<1>1. e \in Equalities(c)
  BY DEF SearchFilter
<1>2. CASE c.op = "and"
  <2>1. c.left \in Comparisons /\ c.second \in Comparisons
    BY <1>2 DEF Conditions, Comparisons
  <2>2. e \in {c.left, c.second} /\ e.op = "="
    BY <1>1, <1>2 DEF Equalities
  <2>3. MatchesComparison(doc, e)
    BY <1>2, <2>2 DEF MatchesCondition
  <2> QED
    BY <2>1, <2>2, <2>3 DEF MatchesComparison
<1>3. CASE c.op = "="
  <2>1. e = c
    BY <1>1, <1>3 DEF Equalities
  <2>2. c \in Comparisons
    BY <1>3 DEF Conditions
  <2>3. MatchesComparison(doc, e)
    BY <1>3, <2>1 DEF MatchesCondition
  <2> QED
    BY <1>3, <2>1, <2>2, <2>3 DEF MatchesComparison
<1>4. CASE c.op \notin {"and", "="}
  BY <1>1, <1>4 DEF Equalities
<1> QED
  BY <1>2, <1>3, <1>4

\* A string is found in the index under the key that a comparison with it looks up.
LEMMA StringsReadAlike ==
  ASSUME NEW d, NEW doc \in Document, NEW e \in Comparisons, e.op = "=", e.right[1] = "string",
         FieldValue(doc) = e.right
  PROVE  <<MetadataKey(ToJson(e.right)), d>> \in IndexEntries(d, doc)
<1>0. e.right \in {<<"number", 1>>, <<"string", 1>>, <<"null", 0>>}
  BY DEF Comparisons
<1>1. e.right = <<"string", 1>>
  BY <1>0
<1>2. doc.meta # <<Missing>> /\ doc.meta \in Json
  BY <1>1 DEF FieldValue, Document
<1>3. doc.meta = <<"string", 1>>
  BY <1>1, <1>2 DEF FieldValue, JsonToValue, Json
<1>4. ToJson(e.right) = e.right
  BY <1>1 DEF ToJson
<1>5. doc # Gone
  BY RqlAssumption
<1> QED
  BY <1>1, <1>2, <1>3, <1>4, <1>5 DEF IndexEntries, MetadataKey

\* The clauses of a SELECT besides WHERE: a limit is a count and an offset, and both RELATED and the search
\* choose among the documents of the table.
LEMMA ClausesKnown ==
  ASSUME NEW q \in Shapes
  PROVE  /\ q.related \subseteq QDocs /\ q.search \in BOOLEAN
         /\ q.limit = <<>> \/ \E l, o \in Nat : q.limit = <<l, o>>
<1>1. Plain.related = QDocs /\ Plain.search = FALSE /\ Plain.limit = <<>>
  BY DEF Plain
<1>2. \/ q \in {Plain,
               [Plain EXCEPT !.search = TRUE, !.order = "asc", !.fields = "meta"],
               [Plain EXCEPT !.order = "asc", !.limit = <<1, 1>>],
               [Plain EXCEPT !.order = "desc", !.limit = <<1, 0>>],
               [Plain EXCEPT !.kind = "groups"],
               [Plain EXCEPT !.kind = "explain", !.limit = <<1, 0>>]}
      \/ \E d \in QDocs : q = [Plain EXCEPT !.search = TRUE, !.related = {d}, !.limit = <<2, 0>>]
  BY DEF Shapes
<1> DEFINE Fine(x) == /\ x.related \subseteq QDocs /\ x.search \in BOOLEAN
                      /\ x.limit \in {<<>>, <<1, 1>>, <<1, 0>>, <<2, 0>>}
<1>3. /\ Fine(Plain)
      /\ Fine([Plain EXCEPT !.search = TRUE, !.order = "asc", !.fields = "meta"])
      /\ Fine([Plain EXCEPT !.order = "asc", !.limit = <<1, 1>>])
  BY DEF Plain
<1>4. /\ Fine([Plain EXCEPT !.order = "desc", !.limit = <<1, 0>>])
      /\ Fine([Plain EXCEPT !.kind = "groups"])
      /\ Fine([Plain EXCEPT !.kind = "explain", !.limit = <<1, 0>>])
  BY DEF Plain
<1>5. ASSUME NEW d \in QDocs
      PROVE  Fine([Plain EXCEPT !.search = TRUE, !.related = {d}, !.limit = <<2, 0>>])
  BY DEF Plain
<1> HIDE DEF Fine
<1>7. Fine(q)
  BY <1>2, <1>3, <1>4, <1>5
<1> USE DEF Fine
<1>6. q.limit = <<>> \/ \E l, o \in Nat : q.limit = <<l, o>>
  BY <1>7
<1> QED
  BY <1>6, <1>7

\* The documents that a SELECT finds are those it is about.
LEMMA FindsWhatIsMeant ==
  ASSUME Indexed, NEW c \in Conditions, NEW q \in Shapes, q.search \/ IndexReadsAlike(c),
         NEW a, a.where = c, a.query = q
  PROVE  {d \in Candidates(c, q) : MatchesCondition(rows[d], c)} = Meant(a)
<1>1. CASE q.search
  BY <1>1, ClausesKnown DEF Candidates, Meant
<1>2. CASE ~q.search
  <2>1. ASSUME NEW d \in QDocs, Present(d), MatchesCondition(rows[d], c), NEW e \in SearchFilter(c)
        PROVE  <<MetadataKey(ToJson(e.right)), d>> \in metaIdx
    <3>1. e \in Comparisons /\ e.op = "=" /\ FieldValue(rows[d]) = e.right
      BY <2>1, FilterIsImplied
    <3>2. e.right[1] = "string"
      BY <1>2, <2>1 DEF IndexReadsAlike
    <3>3. rows[d] \in Document
      BY <2>1 DEF Present, Indexed, Rows
    <3>4. <<MetadataKey(ToJson(e.right)), d>> \in IndexEntries(d, rows[d])
      BY <3>1, <3>2, <3>3, StringsReadAlike
    <3> QED
      BY <3>4 DEF Indexed, Listing
  <2>2. \A d \in QDocs : Present(d) /\ MatchesCondition(rows[d], c) => d \in FindDocuments(SearchFilter(c))
    BY <2>1 DEF FindDocuments
  <2>3. \A d \in FindDocuments(SearchFilter(c)) : d \in QDocs /\ Present(d)
    BY DEF FindDocuments
  <2> QED
    BY <1>2, <2>2, <2>3, ClausesKnown DEF Candidates, Meant
<1> QED
  BY <1>1, <1>2

------------------------------------------------------------------------------
(* The answer *)

\* An answer made of an arrangement of some rows accounts for these rows: the total, the groups of an
\* aggregate and the page that skip and take leave.
LEMMA AnswersAccount ==
  ASSUME NEW q \in Shapes, NEW ds \in SUBSET QDocs, NEW order, NEW s \in Arranged(ds, order),
         NEW a, a.kind = q.kind, a.query = q,
         a.total = IF q.kind = "explain" THEN 0 ELSE Len(s),
         a.page = IF q.kind = "documents" THEN Page(s, q.limit) ELSE <<>>,
         a.groups = IF q.kind = "groups" THEN Groups(s) ELSE <<>>
  PROVE  Accounts(a, ds)
<1>1. IsFiniteSet(ds) /\ s \in SetToSeqs(ds)
  BY RqlAssumption, FS_Subset DEF Arranged, Orders
<1>2. Len(s) = Cardinality(ds) /\ IsInjective(s) /\ Range(s) = ds
  BY <1>1, Enumerates
<1>3. a.kind # "explain" => a.total = Cardinality(ds)
  BY <1>2
<1>4. ASSUME a.kind = "groups"
      PROVE  /\ \A k \in DOMAIN a.groups : a.groups[k] = Cardinality({d \in ds : FieldValue(rows[d]) = k})
             /\ \A d \in ds : FieldValue(rows[d]) \in DOMAIN a.groups
  BY <1>2, <1>4 DEF Groups
<1>5. ASSUME a.kind = "documents"
      PROVE  /\ IsInjective(a.page) /\ Range(a.page) \subseteq ds
             /\ q.limit = <<>> => Range(a.page) = ds
             /\ q.limit # <<>> => Len(a.page) = Max({0, Min({q.limit[1], Cardinality(ds) - q.limit[2]})})
  <2>1. CASE q.limit = <<>>
    BY <1>2, <1>5, <2>1 DEF Page
  <2>2. CASE q.limit # <<>>
    <3>1. PICK l, o \in Nat : q.limit = <<l, o>>
      BY <2>2, ClausesKnown
    <3>2. a.page = SubSeq(s, o + 1, Min({o + l, Len(s)}))
      <4>1. a.page = Page(s, q.limit)
        BY <1>5
      <4>2. Page(s, q.limit) = SubSeq(s, q.limit[2] + 1, Min({q.limit[2] + q.limit[1], Len(s)}))
        BY <2>2 DEF Page
      <4>3. q.limit[1] = l /\ q.limit[2] = o
        BY <3>1
      <4> QED
        BY <4>1, <4>2, <4>3
    <3>10. PICK n, k, m, p : n = Cardinality(ds) /\ k = o + 1 /\ m = Min({o + l, n}) /\ p = a.page
      OBVIOUS
    <3>4. n \in Nat
      BY <1>1, <3>10, FS_CardinalityType
    <3>6. Len(s) = n
      BY <1>2, <3>10
    <3>7. k \in Nat /\ k >= 1
      BY <3>1, <3>10
    <3>9. p = SubSeq(s, k, m)
      <4>1. SubSeq(s, o + 1, Min({o + l, Len(s)})) = SubSeq(s, k, m)
        BY <3>6, <3>10
      <4> QED
        BY <3>2, <3>10, <4>1
    <3>5. /\ m \in Nat /\ m <= n
          /\ (IF k <= m THEN m - k + 1 ELSE 0) = Max({0, Min({l, n - o})})
      BY <3>1, <3>4, <3>10, PageLength
    <3>8. IsInjective(p) /\ Range(p) \subseteq ds /\ Len(p) = IF k <= m THEN m - k + 1 ELSE 0
      <4>1. m \in Nat /\ m <= Cardinality(ds)
        BY <3>5, <3>10
      <4> QED
        <5>1. /\ IsInjective(SubSeq(s, k, m)) /\ Range(SubSeq(s, k, m)) \subseteq ds
              /\ Len(SubSeq(s, k, m)) = IF k <= m THEN m - k + 1 ELSE 0
          BY <1>1, <3>7, <4>1, PartOfArrangement
        <5> QED
          BY <3>9, <5>1
    <3>3. IsInjective(p) /\ Range(p) \subseteq ds /\ Len(p) = Max({0, Min({l, n - o})})
      BY <3>5, <3>8
    <3> QED
      BY <2>2, <3>1, <3>3, <3>10
  <2> QED
    BY <2>1, <2>2
<1> QED
  BY <1>3, <1>4, <1>5 DEF Accounts

\* A SELECT over an exact index answers for the rows that its clauses accept.
LEMMA SelectsAccount ==
  ASSUME Indexed, NEW c \in Conditions, NEW q \in Shapes, Select(c, q)
  PROVE  answer' # NoAnswer /\ SelectIsExact'
<1> PICK found : found = {d \in Candidates(c, q) : MatchesCondition(rows[d], c)}
  OBVIOUS
<1>1. PICK order, s, shown, plan :
        /\ s \in Arranged(found, order)
        /\ answer' =
             [kind |-> q.kind, where |-> c, query |-> q,
              total |-> IF q.kind = "explain" THEN 0 ELSE Len(s),
              page |-> IF q.kind = "documents" THEN Page(s, q.limit) ELSE <<>>,
              shown |-> shown, plan |-> plan,
              groups |-> IF q.kind = "groups" THEN Groups(s) ELSE <<>>]
        /\ UNCHANGED <<rows, metaIdx, texts>>
  BY DEF Select
<1> PICK a : a = answer'
  OBVIOUS
<1>2. /\ a.kind = q.kind /\ a.where = c /\ a.query = q
      /\ a.total = IF q.kind = "explain" THEN 0 ELSE Len(s)
      /\ a.page = IF q.kind = "documents" THEN Page(s, q.limit) ELSE <<>>
      /\ a.groups = IF q.kind = "groups" THEN Groups(s) ELSE <<>>
  BY <1>1
<1>3. found \subseteq QDocs
  BY ClausesKnown DEF Candidates
<1>4. Accounts(a, found)
  BY <1>1, <1>2, <1>3, AnswersAccount
<1>5. q.search \/ IndexReadsAlike(c) => found = Meant(a)
  BY <1>2, FindsWhatIsMeant
<1>6. answer' # NoAnswer
  BY <1>1 DEF NoAnswer
<1>7. Meant(answer)' = Meant(a) /\ Accounts(answer, Meant(answer))' = Accounts(a, Meant(a))
  BY <1>1 DEF Meant, Present, Accounts
<1> QED
  BY <1>2, <1>4, <1>5, <1>6, <1>7 DEF SelectIsExact, IndexReadsAlike

\* Statements keep the table's types, and the metadata index names values and documents of the table.
THEOREM ExecTypeCorrect == ExecSpec => []ExecTypeOK
<1>1. ASSUME Indexed PROVE rows \in [QDocs -> Document \cup {Gone}] /\ metaIdx \subseteq (Json \X QDocs) /\ texts \subseteq QDocs
  <2>1. ASSUME NEW d \in QDocs, NEW e \in IndexEntries(d, rows[d]) PROVE e \in Json \X QDocs
    <3>1. rows[d] \in Document /\ rows[d].meta # <<Missing>> /\ e = <<rows[d].meta, d>>
      BY <1>1, <2>1 DEF Indexed, Rows, IndexEntries, MetadataKey
    <3>2. rows[d].meta \in Json
      BY <3>1 DEF Document
    <3> QED
      BY <3>1, <3>2
  <2> QED
    BY <1>1, <2>1 DEF Indexed, Rows, Listing
<1>2. ExecInit => Indexed /\ ExecTypeOK
  <2>1. ExecInit => Indexed /\ executed = 0
    BY DEF ExecInit, Indexed, Rows, Listing
  <2> QED
    BY <1>1, <2>1, RqlAssumption DEF ExecTypeOK
<1>3. (answer = NoAnswer => Indexed) /\ ExecTypeOK /\ [ExecuteQuery]_execVars
        => (answer = NoAnswer => Indexed)' /\ ExecTypeOK'
  <2> SUFFICES ASSUME answer = NoAnswer => Indexed, ExecTypeOK, [ExecuteQuery]_execVars
               PROVE  (answer' = NoAnswer => Indexed') /\ ExecTypeOK'
    OBVIOUS
  <2>1. CASE UNCHANGED execVars
    BY <2>1 DEF execVars, Indexed, ExecTypeOK
  <2>2. CASE ExecuteQuery
    <3>1. Indexed /\ executed' = executed + 1 /\ executed < MaxStatements
      BY <2>2 DEF ExecuteQuery
    <3>2. executed' \in 0..MaxStatements
      BY <3>1, RqlAssumption DEF ExecTypeOK
    <3>3. Indexed'
      <4>1. ASSUME NEW c \in Conditions, NEW q \in Shapes, Select(c, q) PROVE Indexed'
        BY <3>1, <4>1 DEF Select, Indexed
      <4> QED
        BY <2>2, <3>1, <4>1, Updates, Deletes DEF ExecuteQuery
    <3>4. /\ rows' \in [QDocs -> Document \cup {Gone}]
          /\ metaIdx' \subseteq (Json \X QDocs) /\ texts' \subseteq QDocs
      <4>1. (rows \in [QDocs -> Document \cup {Gone}] /\ metaIdx \subseteq (Json \X QDocs) /\ texts \subseteq QDocs)'
        BY <3>3, <1>1, PTL
      <4> QED
        BY <4>1
    <3> QED
      BY <3>2, <3>3, <3>4 DEF ExecTypeOK
  <2> QED
    BY <2>1, <2>2
<1> QED
  BY <1>2, <1>3, PTL DEF ExecSpec

\* Taking candidates from the metadata index changes no answer: whatever UPDATE and DELETE statements
\* ran before, a SELECT whose indexed equalities compare with strings, or that searches, returns the
\* rows its clauses accept.
THEOREM SelectsAreExact == ExecSpec => []SelectIsExact
<1>1. ExecInit => ExecInv
  BY DEF ExecInit, ExecInv, Indexed, Rows, Listing, SelectIsExact
<1>2. ExecInv /\ [ExecuteQuery]_execVars => ExecInv'
  <2> SUFFICES ASSUME ExecInv, [ExecuteQuery]_execVars PROVE ExecInv'
    OBVIOUS
  <2>1. CASE UNCHANGED execVars
    BY <2>1 DEF ExecInv, execVars, Indexed, SelectIsExact, Accounts, Meant, Present, IndexReadsAlike
  <2>2. CASE ExecuteQuery
    <3>1. answer = NoAnswer /\ Indexed
      BY <2>2 DEF ExecuteQuery, ExecInv
    <3>2. ASSUME NEW c \in Conditions, NEW q \in Shapes, Select(c, q) PROVE ExecInv'
      BY <3>1, <3>2, SelectsAccount DEF ExecInv
    <3>3. ASSUME NEW c \in Comparisons, NEW a \in Assignments, Update(c, a) PROVE ExecInv'
      <4>1. answer' = NoAnswer
        BY <3>3 DEF Update
      <4>2. Indexed'
        BY <3>1, <3>3, Updates
      <4> QED
        BY <4>1, <4>2 DEF ExecInv, SelectIsExact
    <3>4. ASSUME NEW c \in Comparisons, Delete(c) PROVE ExecInv'
      <4>1. answer' = NoAnswer
        BY <3>4 DEF Delete
      <4>2. Indexed'
        BY <3>1, <3>4, Deletes
      <4> QED
        BY <4>1, <4>2 DEF ExecInv, SelectIsExact
    <3> QED
      BY <2>2, <3>2, <3>3, <3>4 DEF ExecuteQuery
  <2> QED
    BY <2>1, <2>2
<1>3. ExecInv => SelectIsExact
  BY DEF ExecInv
<1> QED
  BY <1>1, <1>2, <1>3, PTL DEF ExecSpec

(***************************************************************************)
(* Model settings: masks, swaps and saves                                  *)
(***************************************************************************)

LlmSpec == LlmInit /\ [][LlmNext]_<<configVars, healthVars>>

Edits == [kind : {"put", "patch"}, settings : Settings, roles : SUBSET Roles, swapped : BOOLEAN]

\* No settings of these hand a mask to a provider.
Unmasked(settings) == \A r \in Roles : settings[r].key # Mask

LlmTyped ==
  /\ stored \in Settings \cup {NoSettings} /\ running \in Settings
  /\ seen \in BOOLEAN /\ torn \in BOOLEAN
  /\ edit \in [Operators -> {Idle} \cup Edits]

\* Masks are handed out only of settings that are stored, and resolved before anything is done with them.
MasksResolved ==
  /\ seen => stored # NoSettings
  /\ Unmasked(running) /\ (stored # NoSettings => Unmasked(stored))
  /\ \A a \in Operators : Busy(a) => Unmasked(edit[a].settings)

\* A request that runs alone has put in place what it is to save, up to the roles still ahead of it.
InStep ==
  ~torn =>
    /\ \A a, b \in Operators : Busy(a) /\ Busy(b) => a = b
    /\ (\A a \in Operators : ~Busy(a)) /\ stored # NoSettings => running = stored
    /\ \A a \in Operators : Busy(a) =>
         /\ \A r \in Roles \ edit[a].roles : running[r] = edit[a].settings[r]
         /\ ~edit[a].swapped /\ stored # NoSettings => running = stored

LlmInv == LlmTyped /\ MasksResolved /\ InStep

\* What UnmaskWith makes of a role's settings is settings without a mask, given ones without.
LEMMA UnmaskedConfig ==
  ASSUME NEW c \in Config, NEW old \in Config, old.key # Mask
  PROVE  UnmaskWith(c, old) \in Config /\ UnmaskWith(c, old).key # Mask
BY DEF UnmaskWith, Config, Mask

\* What a client sends is settings for both roles.
LEMMA SentSettings ==
  ASSUME NEW c \in Config, NEW d \in Config
  PROVE  ForRoles(c, d) \in Settings
BY DEF ForRoles, Settings

\* A request may begin with settings that have no mask and that leave the roles it does not put in
\* place as they are stored.
LEMMA RequestBegins ==
  ASSUME LlmInv, NEW a \in Operators, NEW kind \in {"put", "patch"},
         NEW settings \in Settings, Unmasked(settings), NEW roles \in SUBSET Roles,
         \A r \in Roles \ roles : stored # NoSettings /\ settings[r] = stored[r],
         Requested(a), edit' = [edit EXCEPT ![a] = WithEdit(kind, settings, roles)],
         UNCHANGED <<stored, running, seen>>
  PROVE  LlmInv'
<1>1. WithEdit(kind, settings, roles) \in Edits
  BY DEF Edits, WithEdit
<1>2. edit'[a] = WithEdit(kind, settings, roles) /\ \A b \in Operators \ {a} : edit'[b] = edit[b]
  BY DEF LlmInv, LlmTyped
<1>3. LlmTyped'
  BY <1>1 DEF LlmInv, LlmTyped, Requested
<1>4. MasksResolved'
  BY <1>2 DEF LlmInv, MasksResolved, Busy, WithEdit, Unmasked
<1>5. InStep'
  <2>1. CASE torn'
    BY <2>1 DEF InStep
  <2>2. CASE ~torn'
    <3>1. ~torn /\ \A b \in Operators : ~Busy(b)
      BY <2>2 DEF Requested, LlmInv, LlmTyped
    <3>2. stored # NoSettings => running = stored
      BY <3>1 DEF LlmInv, InStep
    <3>3. \A b \in Operators : Busy(b)' => b = a
      BY <1>2, <3>1 DEF Busy
    <3> QED
      BY <1>2, <3>2, <3>3 DEF InStep, Busy, WithEdit, Idle
  <2> QED
    BY <2>1, <2>2
<1> QED
  BY <1>3, <1>4, <1>5 DEF LlmInv

\* PUT /v1/config/llm: what it is about to put in place has no mask.
LEMMA Puts ==
  ASSUME LlmInv, NEW a \in Operators, NEW c \in Config, NEW d \in Config, PutLlmConfig(a, c, d)
  PROVE  LlmInv'
<1> PICK sent : sent = ForRoles(c, d)
  OBVIOUS
<1> PICK settings : settings = IF stored = NoSettings THEN sent
                               ELSE [r \in Roles |-> UnmaskWith(sent[r], stored[r])]
  OBVIOUS
<1>1. /\ Requested(a) /\ \A r \in Roles : Bodies(sent[r])
      /\ edit' = IF \A r \in Roles : Buildable(settings[r])
                 THEN [edit EXCEPT ![a] = WithEdit("put", settings, Roles)] ELSE edit
      /\ UNCHANGED <<stored, running, seen>>
  BY DEF PutLlmConfig
<1>2. sent \in Settings
  BY SentSettings
<1>3. settings \in Settings /\ Unmasked(settings)
  <2>1. CASE stored = NoSettings
    BY <1>1, <1>2, <2>1 DEF LlmInv, MasksResolved, Bodies, Unmasked
  <2>2. CASE stored # NoSettings
    <3>1. \A r \in Roles : sent[r] \in Config /\ stored[r] \in Config /\ stored[r].key # Mask
      BY <1>2, <2>2 DEF LlmInv, LlmTyped, MasksResolved, Unmasked, Settings
    <3>2. \A r \in Roles : /\ UnmaskWith(sent[r], stored[r]) \in Config
                          /\ UnmaskWith(sent[r], stored[r]).key # Mask
      BY <3>1, UnmaskedConfig
    <3> QED
      BY <2>2, <3>2 DEF Settings, Unmasked
  <2> QED
    BY <2>1, <2>2
<1>4. CASE edit' = edit
  BY <1>1, <1>4 DEF LlmInv, LlmTyped, MasksResolved, InStep, Busy, Requested, Unmasked
<1>5. CASE edit' = [edit EXCEPT ![a] = WithEdit("put", settings, Roles)]
  BY <1>1, <1>3, <1>5, RequestBegins
<1> QED
  BY <1>1, <1>4, <1>5

\* PATCH of one or both roles: the roles it leaves out are as they are stored.
LEMMA Patches ==
  ASSUME LlmInv, NEW a \in Operators, NEW c \in Config, NEW d \in Config,
         NEW roles \in SUBSET Roles, PatchLlmConfig(a, roles, c, d)
  PROVE  LlmInv'
<1> PICK sent : sent = ForRoles(c, d)
  OBVIOUS
<1> PICK settings :
      settings = [r \in Roles |-> IF r \in roles THEN UnmaskWith(sent[r], stored[r]) ELSE stored[r]]
  OBVIOUS
<1>1. /\ stored # NoSettings /\ Requested(a)
      /\ edit' = [edit EXCEPT ![a] = WithEdit("patch", settings, roles)]
      /\ UNCHANGED <<stored, running, seen>>
  BY DEF PatchLlmConfig
<1>2. \A r \in Roles : sent[r] \in Config /\ stored[r] \in Config /\ stored[r].key # Mask
  BY <1>1, SentSettings DEF LlmInv, LlmTyped, MasksResolved, Unmasked, Settings
<1>3. \A r \in Roles : /\ UnmaskWith(sent[r], stored[r]) \in Config
                      /\ UnmaskWith(sent[r], stored[r]).key # Mask
  BY <1>2, UnmaskedConfig
<1>4. settings \in Settings /\ Unmasked(settings)
  BY <1>2, <1>3 DEF Settings, Unmasked
<1> QED
  BY <1>1, <1>4, RequestBegins

\* One role is put in place, or its provider cannot be built and the request ends there.
LEMMA Swaps ==
  ASSUME LlmInv, NEW a \in Operators, SwapRole(a)
  PROVE  LlmInv'
<1> PICK e : e = edit[a]
  OBVIOUS
<1> PICK r : r = IF "ingestion" \in e.roles THEN "ingestion" ELSE "retrieval"
  OBVIOUS
<1>1. Busy(a) /\ e.roles # {} /\ UNCHANGED <<stored, seen>>
  BY DEF SwapRole
<1>2. e \in Edits /\ Unmasked(e.settings)
  BY <1>1 DEF LlmInv, LlmTyped, MasksResolved, Busy
<1>3. r \in e.roles /\ r \in Roles
  BY <1>1, <1>2 DEF Edits, Roles
<1>4. CASE Buildable(e.settings[r])
  <2>1. /\ running' = [running EXCEPT ![r] = e.settings[r]]
        /\ edit' = [edit EXCEPT ![a].roles = @ \ {r}, ![a].swapped = TRUE]
        /\ UNCHANGED torn
    BY <1>4 DEF SwapRole
  <2> PICK f : f = [e EXCEPT !.roles = @ \ {r}, !.swapped = TRUE]
    OBVIOUS
  <2>2. f \in Edits /\ f.settings = e.settings /\ f.roles = e.roles \ {r} /\ f.swapped
    BY <1>2 DEF Edits
  <2>3. edit'[a] = f /\ \A b \in Operators \ {a} : edit'[b] = edit[b]
    BY <2>1 DEF LlmInv, LlmTyped
  <2>4. LlmTyped'
    BY <1>1, <1>2, <1>3, <2>1, <2>2 DEF LlmInv, LlmTyped, Settings, Edits
  <2>5. MasksResolved'
    BY <1>1, <1>2, <2>1, <2>2, <2>3 DEF LlmInv, LlmTyped, MasksResolved, Busy, Unmasked, Settings
  <2>6. InStep'
    <3>1. \A b \in Operators : Busy(b)' => Busy(b)
      BY <1>1, <2>3 DEF Busy
    <3>2. Busy(a)'
      BY <2>2, <2>3 DEF Busy, Edits, Idle
    <3>3. ~torn => \A q \in Roles \ f.roles : running'[q] = f.settings[q]
      BY <1>1, <1>2, <1>3, <2>1, <2>2 DEF LlmInv, LlmTyped, InStep, Settings, Edits
    <3> SUFFICES ASSUME ~torn' PROVE InStep'
      BY DEF InStep
    <3>4. ~torn /\ \A b \in Operators : Busy(b)' => b = a
      BY <1>1, <2>1, <3>1 DEF LlmInv, InStep
    <3>5. \A q \in Roles \ edit'[a].roles : running'[q] = edit'[a].settings[q]
      BY <2>3, <3>3, <3>4
    <3>6. edit'[a].swapped
      BY <2>2, <2>3
    <3> QED
      BY <3>2, <3>4, <3>5, <3>6 DEF InStep
  <2> QED
    BY <2>4, <2>5, <2>6 DEF LlmInv
<1>5. CASE ~Buildable(e.settings[r])
  <2>1. edit' = [edit EXCEPT ![a] = Idle] /\ torn' = (torn \/ e.swapped) /\ UNCHANGED running
    BY <1>5 DEF SwapRole
  <2>2. edit'[a] = Idle /\ \A b \in Operators \ {a} : edit'[b] = edit[b]
    BY <2>1 DEF LlmInv, LlmTyped
  <2>3. LlmTyped' /\ MasksResolved'
    BY <1>1, <1>2, <2>1, <2>2 DEF LlmInv, LlmTyped, MasksResolved, Busy, Unmasked, Edits
  <2>4. InStep'
    BY <1>1, <1>2, <2>1, <2>2 DEF LlmInv, LlmTyped, InStep, Busy, Edits
  <2> QED
    BY <2>3, <2>4 DEF LlmInv
<1> QED
  BY <1>4, <1>5

\* The settings are saved, or the write fails after the models were put in place.
LEMMA Saves ==
  ASSUME LlmInv, NEW a \in Operators, NEW ok \in BOOLEAN, SetLlmSettings(a, ok)
  PROVE  LlmInv'
<1> PICK e : e = edit[a]
  OBVIOUS
<1>1. /\ Busy(a) /\ e.roles = {} /\ UNCHANGED running
      /\ edit' = [edit EXCEPT ![a] = Idle]
      /\ IF ok THEN stored' = e.settings /\ seen' = TRUE /\ UNCHANGED torn
               ELSE torn' = TRUE /\ UNCHANGED <<stored, seen>>
  BY DEF SetLlmSettings
<1>2. e \in Edits /\ Unmasked(e.settings) /\ e.settings \in Settings
  BY <1>1 DEF LlmInv, LlmTyped, MasksResolved, Busy, Edits
<1>3. edit'[a] = Idle /\ \A b \in Operators \ {a} : edit'[b] = edit[b]
  BY <1>1 DEF LlmInv, LlmTyped
<1>4. LlmTyped'
  BY <1>1, <1>2 DEF LlmInv, LlmTyped
<1>5. MasksResolved'
  BY <1>1, <1>2, <1>3, LlmAssumption DEF LlmInv, MasksResolved, Busy, Unmasked
<1>6. InStep'
  <2>1. ~torn => running = e.settings
    BY <1>1, <1>2 DEF LlmInv, LlmTyped, InStep, Settings
  <2> QED
    BY <1>1, <1>3, <2>1 DEF LlmInv, InStep, Busy
<1> QED
  BY <1>4, <1>5, <1>6 DEF LlmInv

\* The server starts with settings in which no key is the mask.
LEMMA LlmStart == LlmInit => LlmInv
<1> SUFFICES ASSUME LlmInit PROVE LlmInv
  OBVIOUS
<1>1. StartSettings \in Settings /\ Unmasked(StartSettings)
  BY LlmAssumption DEF StartSettings, Settings, Config, Unmasked, Mask
<1>2. \A a \in Operators : ~Busy(a)
  BY DEF LlmInit, Busy
<1>3. LlmTyped
  BY <1>1 DEF LlmInit, LlmTyped
<1>4. MasksResolved
  BY <1>1, <1>2 DEF LlmInit, MasksResolved
<1>5. InStep
  BY <1>2 DEF LlmInit, InStep
<1> QED
  BY <1>3, <1>4, <1>5 DEF LlmInv

\* Every request and every start keeps the invariant.
LEMMA LlmStep == LlmInv /\ [LlmNext]_<<configVars, healthVars>> => LlmInv'
<1> SUFFICES ASSUME LlmInv, [LlmNext]_<<configVars, healthVars>> PROVE LlmInv'
  OBVIOUS
<1>1. CASE UNCHANGED configVars
  BY <1>1 DEF LlmInv, LlmTyped, MasksResolved, InStep, Busy, Unmasked, configVars
<1>2. ASSUME NEW a \in Operators, GetLlmConfig(a) PROVE LlmInv'
  BY <1>2 DEF GetLlmConfig, LlmInv, LlmTyped, MasksResolved, InStep, Busy, Unmasked
<1>3. CASE Restart
  <2>1. \A a \in Operators : ~Busy(a)'
    BY <1>3 DEF Restart, Busy
  <2>2. StartSettings \in Settings /\ Unmasked(StartSettings)
    BY LlmAssumption DEF StartSettings, Settings, Config, Unmasked, Mask
  <2>3. LlmTyped'
    BY <1>3, <2>2 DEF Restart, LlmInv, LlmTyped
  <2>4. MasksResolved'
    BY <1>3, <2>1, <2>2 DEF Restart, LlmInv, MasksResolved, Unmasked
  <2>5. InStep'
    BY <1>3, <2>1 DEF Restart, InStep
  <2> QED
    BY <2>3, <2>4, <2>5 DEF LlmInv
<1>4. CASE ConfigStep
  BY <1>2, <1>4, Puts, Patches, Swaps, Saves DEF ConfigStep
<1> QED
  BY <1>1, <1>3, <1>4 DEF LlmNext

\* Whatever operators do at the same time: masks never replace keys, and the models in use are those
\* that a restart brings back unless requests overlapped or one failed half-way.  (llm/dynamic.rs,
\* routes/config.rs.)
THEOREM SettingsAreKept == LlmSpec => []SettingsSurviveRestart
<1>1. LlmInv => SettingsSurviveRestart
  BY DEF LlmInv, MasksResolved, InStep, SettingsSurviveRestart, Unmasked
<1> QED
  BY LlmStart, LlmStep, <1>1, PTL DEF LlmSpec

\* Settings, requests and the health of the models keep their types.
THEOREM LlmTypeCorrect == LlmSpec => []LlmTypeOK
<1> DEFINE Bounded == /\ edits \in 0..MaxEdits /\ now \in 1..MaxNow
                      /\ since \in [Roles -> 0..MaxNow] /\ failedAt \in [Roles -> 0..MaxNow]
<1>1. LlmInit => Bounded
  BY LlmAssumption DEF LlmInit
<1>2. Bounded /\ [LlmNext]_<<configVars, healthVars>> => Bounded'
  <2> SUFFICES ASSUME Bounded, [LlmNext]_<<configVars, healthVars>> PROVE Bounded'
    OBVIOUS
  <2>1. CASE UNCHANGED <<configVars, healthVars>>
    BY <2>1 DEF configVars, healthVars
  <2>2. CASE Restart
    BY <2>2, LlmAssumption DEF Restart
  <2>3. CASE ConfigStep /\ UNCHANGED healthVars
    <3>1. edits' = edits \/ (edits < MaxEdits /\ edits' = edits + 1)
      BY <2>3 DEF ConfigStep, GetLlmConfig, SwapRole, SetLlmSettings, PutLlmConfig, PatchLlmConfig, Requested
    <3> QED
      BY <2>3, <3>1, LlmAssumption DEF healthVars
  <2> QED
    BY <2>1, <2>2, <2>3 DEF LlmNext
<1>3. LlmInv /\ Bounded => LlmTypeOK
  BY DEF LlmInv, LlmTyped, LlmTypeOK, Edits, Busy
<1> QED
  BY LlmStart, LlmStep, <1>1, <1>2, <1>3, PTL DEF LlmSpec

(***************************************************************************)
(* REASON queries: cache hits and refusals                                 *)
(***************************************************************************)

ReasonSpec == LlmInit /\ ReasonInit /\ [][ReasonNext]_<<healthVars, reasonVars>>

\* The health of the retrieval model: it is unhealthy since a failure that no success has followed, and
\* failures may have followed that one.
HealthKnown ==
  /\ now \in Nat \ {0} /\ since \in [Roles -> Nat] /\ failedAt \in [Roles -> Nat]
  /\ since["retrieval"] # 0 =>
       /\ failedAt["retrieval"] # 0
       /\ since["retrieval"] <= failedAt["retrieval"] /\ failedAt["retrieval"] <= now

\* What the cache holds for a text was computed for that text.
CacheComputed ==
  \A k \in DOMAIN cache :
    cache[k] = [page |-> cache[k].page, used |-> cache[k].used] /\ <<k, cache[k].page>> \in computed

\* Every query has a state that it is known by.
QueriesKnown == DOMAIN query = Clients /\ \A c \in Clients : "pc" \in DOMAIN query[c]

ReasonInv == HealthKnown /\ CacheComputed /\ QueriesKnown /\ HitsAndRefusalsAreJustified

\* The server starts with an empty cache, no query under way and no failure of a model.
LEMMA ReasonStart == LlmInit /\ ReasonInit => ReasonInv
<1> SUFFICES ASSUME LlmInit, ReasonInit PROVE ReasonInv
  OBVIOUS
<1>1. HealthKnown
  BY DEF LlmInit, HealthKnown, Roles
<1>2. CacheComputed
  BY DEF ReasonInit, CacheComputed
<1>3. QueriesKnown
  BY DEF ReasonInit, QueriesKnown, Fresh
<1>4. HitsAndRefusalsAreJustified
  BY DEF ReasonInit, Fresh, HitsAndRefusalsAreJustified
<1> QED
  BY <1>1, <1>2, <1>3, <1>4 DEF ReasonInv

\* Marking the model keeps what is known of its health.
LEMMA Marks ==
  ASSUME HealthKnown, MarkHealthy("retrieval") \/ MarkUnhealthy("retrieval")
  PROVE  HealthKnown'
BY DEF HealthKnown, MarkHealthy, MarkUnhealthy, Roles

\* A client's step that answers, refuses or goes on leaves the other queries alone.
LEMMA OthersKeep ==
  ASSUME QueriesKnown, HitsAndRefusalsAreJustified, NEW c \in Clients, NEW q,
         "pc" \in DOMAIN q, query' = [query EXCEPT ![c] = q], computed \subseteq computed',
         q.pc = "answered" => <<q.text, q.page>> \in computed',
         q.pc = "refused" => q.failed # 0 /\ q.at - q.failed < Cooldown
  PROVE  QueriesKnown' /\ HitsAndRefusalsAreJustified'
<1>1. query'[c] = q /\ \A b \in Clients \ {c} : query'[b] = query[b]
  BY DEF QueriesKnown
<1>2. QueriesKnown'
  BY <1>1 DEF QueriesKnown
<1>3. HitsAndRefusalsAreJustified'
  BY <1>1 DEF HitsAndRefusalsAreJustified
<1> QED
  BY <1>2, <1>3

\* A query that goes on neither answers nor refuses.
LEMMA GoesOn ==
  ASSUME ReasonInv, NEW c \in Clients, NEW q, "pc" \in DOMAIN q, q.pc \notin {"answered", "refused"},
         query' = [query EXCEPT ![c] = q], UNCHANGED <<cache, computed>>, HealthKnown'
  PROVE  ReasonInv'
BY OthersKeep DEF ReasonInv, CacheComputed

\* A REASON query is refused, answered from the cache, or goes on to its candidates.
LEMMA Asks ==
  ASSUME ReasonInv, NEW c \in Clients, NEW question, NEW limit, NEW offset, Ask(c, question, limit, offset)
  PROVE  ReasonInv'
<1>1. UNCHANGED <<computed, healthVars>>
  BY DEF Ask
<1>2. HealthKnown'
  BY <1>1 DEF ReasonInv, HealthKnown, healthVars
<1>3. CASE /\ ~IsHealthy("retrieval")
           /\ query' = [query EXCEPT ![c] = Refused] /\ UNCHANGED cache
  <2>1. Refused.failed # 0 /\ Refused.at - Refused.failed < Cooldown
    BY <1>3, LlmAssumption DEF ReasonInv, HealthKnown, IsHealthy, Refused, Roles
  <2>2. "pc" \in DOMAIN Refused /\ Refused.pc = "refused"
    BY DEF Refused
  <2>3. QueriesKnown' /\ HitsAndRefusalsAreJustified'
    BY <1>1, <1>3, <2>1, <2>2, OthersKeep DEF ReasonInv
  <2> QED
    BY <1>1, <1>2, <1>3, <2>3 DEF ReasonInv, CacheComputed
<1>4. CASE /\ Hit(question)
           /\ query' = [query EXCEPT ![c] = FromCache(question)]
           /\ cache' = [cache EXCEPT ![question].used = now]
  <2>1. PICK page, used : cache[question] = [page |-> page, used |-> used] /\ <<question, page>> \in computed
    BY <1>4 DEF Hit, ReasonInv, CacheComputed
  <2>2. "pc" \in DOMAIN FromCache(question) /\ FromCache(question).text = question /\ FromCache(question).page = page
        /\ FromCache(question).pc = "answered"
    BY <2>1 DEF FromCache
  <2>3. QueriesKnown' /\ HitsAndRefusalsAreJustified'
    BY <1>1, <1>4, <2>1, <2>2, OthersKeep DEF ReasonInv
  <2>4. CacheComputed'
    <3>1. DOMAIN cache' = DOMAIN cache /\ cache'[question] = [page |-> page, used |-> now]
      BY <1>4, <2>1 DEF Hit
    <3>2. \A k \in DOMAIN cache : k # question => cache'[k] = cache[k]
      BY <1>4
    <3> QED
      BY <1>1, <2>1, <3>1, <3>2 DEF ReasonInv, CacheComputed
  <2> QED
    BY <1>2, <2>3, <2>4 DEF ReasonInv
<1>5. CASE /\ query' = [query EXCEPT ![c] =
                [pc |-> "candidates", text |-> question, limit |-> limit, offset |-> offset]]
           /\ cache' = Without(question)
  <2> PICK q : q = [pc |-> "candidates", text |-> question, limit |-> limit, offset |-> offset]
    OBVIOUS
  <2>0. "pc" \in DOMAIN q /\ q.pc = "candidates"
    OBVIOUS
  <2>1. QueriesKnown' /\ HitsAndRefusalsAreJustified'
    BY <1>1, <1>5, <2>0, OthersKeep DEF ReasonInv
  <2>2. CacheComputed'
    BY <1>1, <1>5 DEF ReasonInv, CacheComputed, Without
  <2> QED
    BY <1>2, <2>1, <2>2 DEF ReasonInv
<1> QED
  BY <1>3, <1>4, <1>5 DEF Ask

\* From the candidates to the search: a query goes on, and the health of the model may change.
LEMMA Proceeds ==
  ASSUME ReasonInv, NEW c \in Clients,
         GetCandidates(c) \/ Decompose(c) \/ Filter(c) \/ Rank(c) \/ SearchChunk(c) \/ Abort(c)
  PROVE  ReasonInv'
<1> PICK q : q = query[c]
  OBVIOUS
<1>0. HealthKnown /\ "pc" \in DOMAIN q
  BY DEF ReasonInv, QueriesKnown
<1>1. UNCHANGED healthVars => HealthKnown'
  BY <1>0 DEF HealthKnown, healthVars
<1>2. CASE GetCandidates(c)
  <2>1. PICK ds \in Found(c), hits \in Tagged(0) :
          query' = [query EXCEPT ![c] =
            [pc |-> IF Cardinality(ds) >= FewCandidates THEN "filter" ELSE "decompose", text |-> q.text,
             limit |-> q.limit, offset |-> q.offset, subs |-> 0, hits |-> [d \in ds |-> hits]]]
    BY <1>2 DEF GetCandidates
  <2> PICK m : m = [pc |-> IF Cardinality(ds) >= FewCandidates THEN "filter" ELSE "decompose",
                    text |-> q.text, limit |-> q.limit, offset |-> q.offset, subs |-> 0,
                    hits |-> [d \in ds |-> hits]]
    OBVIOUS
  <2>2. "pc" \in DOMAIN m /\ m.pc \in {"filter", "decompose"}
    OBVIOUS
  <2>3. UNCHANGED <<cache, computed, healthVars>>
    BY <1>2 DEF GetCandidates
  <2> QED
    BY <1>1, <2>1, <2>2, <2>3, GoesOn
<1>3. CASE Decompose(c)
  <2>1. HealthKnown' /\ q.pc = "decompose" /\ UNCHANGED <<cache, computed>>
    BY <1>0, <1>1, <1>3, Marks DEF Decompose
  <2>2. CASE query' = [query EXCEPT ![c].pc = "filter"]
    <3>1. query' = [query EXCEPT ![c] = [q EXCEPT !.pc = "filter"]]
      BY <2>2
    <3>2. "pc" \in DOMAIN [q EXCEPT !.pc = "filter"] /\ [q EXCEPT !.pc = "filter"].pc = "filter"
      BY <1>0
    <3> QED
      BY <2>1, <3>1, <3>2, GoesOn
  <2>3. ASSUME NEW ds, NEW hits, NEW m \in Merged(q, ds, hits), query' = [query EXCEPT ![c] = m]
        PROVE  ReasonInv'
    <3>1. "pc" \in DOMAIN m /\ m.pc = "filter"
      BY <1>0, <2>3 DEF Merged
    <3> QED
      BY <2>1, <2>3, <3>1, GoesOn
  <2> QED
    BY <1>3, <2>2, <2>3 DEF Decompose, DecomposeQuery
<1>4. CASE Filter(c)
  <2>1. PICK s : query' = [query EXCEPT ![c] =
            [pc |-> "rank", text |-> q.text, limit |-> q.limit, offset |-> q.offset, subs |-> q.subs,
             hits |-> Restrict(q.hits, Range(s)), docs |-> s]]
    BY <1>4 DEF Filter
  <2> PICK m : m = [pc |-> "rank", text |-> q.text, limit |-> q.limit, offset |-> q.offset, subs |-> q.subs,
                    hits |-> Restrict(q.hits, Range(s)), docs |-> s]
    OBVIOUS
  <2>2. "pc" \in DOMAIN m /\ m.pc = "rank"
    OBVIOUS
  <2>3. UNCHANGED <<cache, computed, healthVars>>
    BY <1>4 DEF Filter
  <2> QED
    BY <1>1, <2>1, <2>2, <2>3, GoesOn
<1>5. CASE Rank(c)
  <2>1. HealthKnown' /\ UNCHANGED <<cache, computed>>
    BY <1>0, <1>1, <1>5, Marks DEF Rank
  <2>2. \E s : query' = [query EXCEPT ![c] = Ranked(q, s)]
    BY <1>5 DEF Rank
  <2>3. \A s : "pc" \in DOMAIN Ranked(q, s) /\ Ranked(q, s).pc = "search"
    BY DEF Ranked
  <2> QED
    BY <2>1, <2>2, <2>3, GoesOn
<1>6. CASE SearchChunk(c)
  <2>1. PICK m : query' = [query EXCEPT ![c] = m] /\ \E new : m = Continued(q, new)
    BY <1>6 DEF SearchChunk
  <2>2. q.pc = "search" /\ UNCHANGED <<cache, computed, healthVars>>
    BY <1>6 DEF SearchChunk
  <2>3. "pc" \in DOMAIN m /\ m.pc = "search"
    BY <1>0, <2>1, <2>2 DEF Continued
  <2> QED
    BY <1>1, <2>1, <2>2, <2>3, GoesOn
<1>7. CASE Abort(c)
  <2>1. "pc" \in DOMAIN Fresh /\ Fresh.pc = "idle"
    BY DEF Fresh
  <2>2. query' = [query EXCEPT ![c] = Fresh] /\ UNCHANGED <<cache, computed, healthVars>>
    BY <1>7 DEF Abort
  <2> QED
    BY <1>1, <2>1, <2>2, GoesOn
<1> QED
  BY <1>2, <1>3, <1>4, <1>5, <1>6, <1>7

\* A query that was computed enters the cache, with its page, before it is answered.
LEMMA Finishes ==
  ASSUME ReasonInv, NEW c \in Clients, Finish(c)
  PROVE  ReasonInv'
<1> PICK q : q = query[c]
  OBVIOUS
<1>1. PICK page, total, unsearched :
        /\ query' = [query EXCEPT ![c] =
             [pc |-> "answered", hit |-> FALSE, text |-> q.text, limit |-> q.limit,
              offset |-> q.offset, page |-> page, total |-> total, unsearched |-> unsearched]]
        /\ cache' \in Inserted(q.text, Entry(page))
        /\ computed' = computed \cup {<<q.text, page>>}
        /\ UNCHANGED healthVars
  BY DEF Finish
<1>2. HealthKnown'
  BY <1>1 DEF ReasonInv, HealthKnown, healthVars
<1> PICK m : m = [pc |-> "answered", hit |-> FALSE, text |-> q.text, limit |-> q.limit,
                  offset |-> q.offset, page |-> page, total |-> total, unsearched |-> unsearched]
  OBVIOUS
<1>0. "pc" \in DOMAIN m /\ m.pc = "answered" /\ m.text = q.text /\ m.page = page
  OBVIOUS
<1>3. QueriesKnown' /\ HitsAndRefusalsAreJustified'
  BY <1>0, <1>1, OthersKeep DEF ReasonInv
<1>4. CacheComputed'
  <2> PICK entry : entry = Entry(page)
    OBVIOUS
  <2>1. PICK old : /\ \A k \in DOMAIN old : k \in DOMAIN cache /\ old[k] = cache[k]
                   /\ cache' = [k \in DOMAIN old \cup {q.text} |-> IF k = q.text THEN entry ELSE old[k]]
    <3>1. CASE cache' = [k \in DOMAIN cache \cup {q.text} |-> IF k = q.text THEN entry ELSE cache[k]]
      BY <3>1
    <3>2. ASSUME NEW j \in Oldest,
                 cache' = [k \in DOMAIN Without(j) \cup {q.text} |-> IF k = q.text THEN entry ELSE Without(j)[k]]
          PROVE  \E old : /\ \A k \in DOMAIN old : k \in DOMAIN cache /\ old[k] = cache[k]
                          /\ cache' = [k \in DOMAIN old \cup {q.text} |-> IF k = q.text THEN entry ELSE old[k]]
      <4>1. \A k \in DOMAIN Without(j) : k \in DOMAIN cache /\ Without(j)[k] = cache[k]
        BY DEF Without
      <4> QED
        BY <3>2, <4>1
    <3> QED
      <4>1. cache' \in Inserted(q.text, entry)
        BY <1>1
      <4> QED
        BY <3>1, <3>2, <4>1 DEF Inserted
  <2> QED
    <3>1. entry = [page |-> page, used |-> now]
      BY DEF Entry
    <3> QED
      BY <1>1, <2>1, <3>1 DEF ReasonInv, CacheComputed
<1> QED
  BY <1>2, <1>3, <1>4 DEF ReasonInv

\* Whatever clients ask and whatever the models answer: a page from the cache was computed for the same
\* text, and a query is refused only during the cooldown of a failure.  (engine/reason.rs, query cache,
\* llm/dynamic.rs.)
THEOREM HitsAreComputed == ReasonSpec => []HitsAndRefusalsAreJustified
<1>1. ReasonInv /\ [ReasonNext]_<<healthVars, reasonVars>> => ReasonInv'
  <2> SUFFICES ASSUME ReasonInv, [ReasonNext]_<<healthVars, reasonVars>> PROVE ReasonInv'
    OBVIOUS
  <2>1. CASE HealthKnown' /\ UNCHANGED <<query, cache, computed>>
    BY <2>1 DEF ReasonInv, CacheComputed, QueriesKnown, HitsAndRefusalsAreJustified
  <2>2. UNCHANGED healthVars => HealthKnown'
    BY DEF ReasonInv, HealthKnown, healthVars
  <2>3. CASE UNCHANGED <<healthVars, reasonVars>>
    BY <2>1, <2>2, <2>3 DEF reasonVars
  <2>4. ASSUME NEW d, DeleteDocument(d) PROVE ReasonInv'
    BY <2>1, <2>2, <2>4 DEF DeleteDocument
  <2>5. CASE TestLlmConfig("retrieval") /\ UNCHANGED <<query, cache, computed>>
    BY <2>1, <2>5, Marks DEF TestLlmConfig, ReasonInv
  <2>6. CASE Tick /\ UNCHANGED reasonVars
    <3>1. HealthKnown'
      BY <2>6 DEF Tick, ReasonInv, HealthKnown, Roles
    <3> QED
      BY <2>1, <2>6, <3>1 DEF reasonVars
  <2> QED
    BY <2>3, <2>4, <2>5, <2>6, Asks, Proceeds, Finishes DEF ReasonNext
<1>2. ReasonInv => HitsAndRefusalsAreJustified
  BY DEF ReasonInv
<1> QED
  BY ReasonStart, <1>1, <1>2, PTL DEF ReasonSpec

(***************************************************************************)
(* REASON queries: stopping early                                          *)
(***************************************************************************)

\* What is known of a query at each stage.
Asking(q) ==
  /\ q = [pc |-> "candidates", text |-> q.text, limit |-> q.limit, offset |-> q.offset]
  /\ q.text \in Texts /\ q.limit \in Nat /\ q.offset \in Nat

Gathering(q) ==
  /\ q = [pc |-> q.pc, text |-> q.text, limit |-> q.limit, offset |-> q.offset, subs |-> q.subs, hits |-> q.hits]
  /\ q.pc \in {"decompose", "filter"} /\ q.text \in Texts /\ q.limit \in Nat /\ q.offset \in Nat
  /\ q.subs \in {0, 1} /\ DOMAIN q.hits \subseteq Corpus

Ranking(q) ==
  /\ q = [pc |-> "rank", text |-> q.text, limit |-> q.limit, offset |-> q.offset, subs |-> q.subs,
          hits |-> q.hits, docs |-> q.docs]
  /\ q.text \in Texts /\ q.limit \in Nat /\ q.offset \in Nat /\ q.subs \in {0, 1}
  /\ q.docs \in Seq(Corpus) /\ IsInjective(q.docs)

\* The documents found are among those searched, each once; a query stops only with enough of them.
Searching(q) ==
  /\ q = [pc |-> "search", text |-> q.text, limit |-> q.limit, offset |-> q.offset, subs |-> q.subs,
          hits |-> q.hits, docs |-> q.docs, at |-> q.at, found |-> q.found, cancel |-> q.cancel]
  /\ q.text \in Texts /\ q.limit \in Nat /\ q.offset \in Nat /\ q.subs \in {0, 1}
  /\ q.docs \in Seq(Corpus) /\ IsInjective(q.docs)
  /\ q.at \in 0..Len(q.docs) /\ q.found \in Seq(Corpus \X Nat)
  /\ \A i \in DOMAIN q.found : \E k \in 1..q.at : q.docs[k] = q.found[i][1]
  /\ \A i, j \in DOMAIN q.found : q.found[i][1] = q.found[j][1] => i = j
  /\ q.cancel => Len(q.found) >= q.limit

Answered(q) ==
  /\ q.pc = "answered" /\ ~q.hit
  /\ q.offset = 0 =>
       /\ IsInjective(q.page)
       /\ Len(q.page) < q.limit => q.unsearched = 0 /\ q.total = Len(q.page)

AtStage(q) ==
  \/ q.pc \in {"idle", "refused"} \/ (q.pc = "answered" /\ q.hit)
  \/ Asking(q) \/ Gathering(q) \/ Ranking(q) \/ Searching(q) \/ Answered(q)

CacheBounded ==
  DOMAIN cache \subseteq Texts /\ IsFiniteSet(DOMAIN cache) /\ Cardinality(DOMAIN cache) <= CacheSize

PagesInv ==
  /\ alive \subseteq Corpus /\ CacheBounded
  /\ DOMAIN query = Clients /\ \A c \in Clients : AtStage(query[c])

\* Bringing a number between two bounds.
LEMMA Clamps ==
  ASSUME NEW n \in Int, NEW low \in Int, NEW high \in Int
  PROVE  Clamp(n, low, high) \in Int /\ Clamp(n, low, high) >= low
         /\ (n \in {0, 1} /\ low = 1 /\ high = 3 => Clamp(n, low, high) = 1)
<1> PICK m : m = Min({n, high})
  OBVIOUS
<1>1. m = (IF n <= high THEN n ELSE high) /\ m \in Int
  BY MinOfTwo
<1>2. Max({low, m}) = IF low >= m THEN low ELSE m
  BY <1>1, MaxOfTwo
<1> QED
  BY <1>1, <1>2 DEF Clamp

\* A part of a sequence of distinct elements is one.
LEMMA PartIsDistinct ==
  ASSUME NEW S, NEW s \in Seq(S), IsInjective(s), NEW k \in Nat \ {0}, NEW m \in Int, m <= Len(s)
  PROVE  /\ SubSeq(s, k, m) \in Seq(S) /\ IsInjective(SubSeq(s, k, m))
         /\ Len(SubSeq(s, k, m)) = (IF k <= m THEN m - k + 1 ELSE 0)
         /\ DOMAIN SubSeq(s, k, m) = 1..Len(SubSeq(s, k, m))
         /\ \A i \in DOMAIN SubSeq(s, k, m) : k + i - 1 \in DOMAIN s /\ SubSeq(s, k, m)[i] = s[k + i - 1]
<1>1. Len(s) \in Nat /\ DOMAIN s = 1..Len(s) /\ \A i \in DOMAIN s : s[i] \in S
  BY LenProperties, ElementOfSeq
<1>2. \A i \in k..m : i \in DOMAIN s /\ s[i] \in S
  BY <1>1
<1>a. PICK p : p = SubSeq(s, k, m)
  OBVIOUS
<1>3. /\ p \in Seq(S) /\ Len(p) = (IF k <= m THEN m - k + 1 ELSE 0)
      /\ \A i \in 1..(m - k + 1) : p[i] = s[k + i - 1]
  BY <1>a, <1>2, SubSeqProperties
<1>4. DOMAIN p = 1..Len(p) /\ Len(p) \in Nat
  BY <1>3, LenProperties
<1>5. ASSUME NEW i \in DOMAIN p PROVE i \in Nat /\ k + i - 1 \in DOMAIN s /\ p[i] = s[k + i - 1]
  <2>1. i \in 1..(m - k + 1) /\ i \in Nat
    BY <1>3, <1>4
  <2>2. k + i - 1 \in k..m
    BY <2>1
  <2> QED
    BY <1>2, <1>3, <2>1, <2>2
<1>6. IsInjective(p)
  <2> SUFFICES ASSUME NEW i \in DOMAIN p, NEW j \in DOMAIN p, p[i] = p[j] PROVE i = j
    BY DEF IsInjective
  <2>1. k + i - 1 = k + j - 1
    BY <1>5 DEF IsInjective
  <2> QED
    BY <1>5, <2>1
<1> QED
  BY <1>a, <1>3, <1>4, <1>5, <1>6

\* A step of one client leaves the stages of the others.
LEMMA StageKept ==
  ASSUME PagesInv, NEW c \in Clients, NEW q, AtStage(q), query' = [query EXCEPT ![c] = q],
         alive' = alive, CacheBounded'
  PROVE  PagesInv'
<1>1. query'[c] = q /\ (\A b \in Clients \ {c} : query'[b] = query[b]) /\ DOMAIN query' = Clients
  BY DEF PagesInv
<1>2. \A b \in Clients : AtStage(query'[b])
  BY <1>1 DEF PagesInv
<1> QED
  BY <1>1, <1>2 DEF PagesInv, AtStage, Asking, Gathering, Ranking, Searching, Answered

\* A REASON query comes with a text of the table and natural numbers; a stale entry is dropped.
LEMMA AskStaged ==
  ASSUME PagesInv, NEW c \in Clients, NEW x \in Queries[c], Ask(c, x[1], x[2], x[3])
  PROVE  PagesInv'
<1>1. x[1] \in Texts /\ x[2] \in Nat /\ x[3] \in Nat /\ alive' = alive
  BY ReasonAssumption DEF Ask
<1>2. CASE query' = [query EXCEPT ![c] = Refused] /\ UNCHANGED cache
  <2>1. AtStage(Refused)
    BY DEF AtStage, Refused
  <2>2. CacheBounded'
    BY <1>2 DEF PagesInv, CacheBounded
  <2> QED
    BY <1>1, <1>2, <2>1, <2>2, StageKept
<1>3. CASE query' = [query EXCEPT ![c] = FromCache(x[1])] /\ cache' = [cache EXCEPT ![x[1]].used = now]
  <2>1. AtStage(FromCache(x[1]))
    BY DEF AtStage, FromCache
  <2>2. CacheBounded'
    BY <1>3 DEF PagesInv, CacheBounded
  <2> QED
    BY <1>1, <1>3, <2>1, <2>2, StageKept
<1>4. CASE /\ query' = [query EXCEPT ![c] =
                [pc |-> "candidates", text |-> x[1], limit |-> x[2], offset |-> x[3]]]
           /\ cache' = Without(x[1])
  <2>a. PICK q : q = [pc |-> "candidates", text |-> x[1], limit |-> x[2], offset |-> x[3]]
    OBVIOUS
  <2>1. AtStage(q)
    BY <1>1, <2>a DEF AtStage, Asking
  <2>2. DOMAIN cache' = DOMAIN cache \ {x[1]}
    BY <1>4 DEF Without
  <2>3. CacheBounded'
    <3>1. DOMAIN cache' \subseteq DOMAIN cache /\ IsFiniteSet(DOMAIN cache)
      BY <2>2 DEF PagesInv, CacheBounded
    <3>2. IsFiniteSet(DOMAIN cache') /\ Cardinality(DOMAIN cache') <= Cardinality(DOMAIN cache)
      BY <3>1, FS_Subset
    <3>3. Cardinality(DOMAIN cache) \in Nat /\ Cardinality(DOMAIN cache') \in Nat /\ CacheSize \in Nat
      BY <3>1, <3>2, FS_CardinalityType, ReasonAssumption
    <3> QED
      BY <3>1, <3>2, <3>3 DEF PagesInv, CacheBounded
  <2> QED
    BY <1>1, <1>4, <2>a, <2>1, <2>3, StageKept
<1> QED
  BY <1>2, <1>3, <1>4 DEF Ask

\* From the candidates to the ranking: documents of the table, none twice.
LEMMA CandidatesStaged ==
  ASSUME PagesInv, NEW c \in Clients, GetCandidates(c) \/ Decompose(c) \/ Filter(c)
  PROVE  PagesInv'
<1>a. PICK q : q = query[c]
  OBVIOUS
<1>1. AtStage(q) /\ alive' = alive /\ cache' = cache /\ CacheBounded'
  BY <1>a DEF PagesInv, CacheBounded, GetCandidates, Decompose, Filter
<1>2. CASE GetCandidates(c)
  <2>1. Asking(q)
    BY <1>a, <1>1, <1>2 DEF GetCandidates, AtStage, Gathering, Ranking, Searching, Answered
  <2>2. PICK ds \in Found(c), hits \in Tagged(0) :
          query' = [query EXCEPT ![c] =
            [pc |-> IF Cardinality(ds) >= FewCandidates THEN "filter" ELSE "decompose", text |-> q.text,
             limit |-> q.limit, offset |-> q.offset, subs |-> 0, hits |-> [d \in ds |-> hits]]]
    BY <1>a, <1>2 DEF GetCandidates
  <2>b. PICK m : m = [pc |-> IF Cardinality(ds) >= FewCandidates THEN "filter" ELSE "decompose", text |-> q.text,
                      limit |-> q.limit, offset |-> q.offset, subs |-> 0, hits |-> [d \in ds |-> hits]]
    OBVIOUS
  <2>3. ds \subseteq Corpus
    BY <2>2 DEF Found, PagesInv
  <2>4. Gathering(m)
    BY <2>1, <2>b, <2>3 DEF Asking, Gathering
  <2> QED
    BY <1>1, <2>2, <2>b, <2>4, StageKept DEF AtStage
<1>3. CASE Decompose(c)
  <2>1. Gathering(q)
    BY <1>a, <1>1, <1>3 DEF Decompose, AtStage, Asking, Ranking, Searching, Answered
  <2>2. CASE query' = [query EXCEPT ![c].pc = "filter"]
    <3>b. PICK m : m = [q EXCEPT !.pc = "filter"]
      OBVIOUS
    <3>1. query' = [query EXCEPT ![c] = m]
      BY <1>a, <2>2, <3>b
    <3>2. Gathering(m)
      BY <2>1, <3>b DEF Gathering
    <3> QED
      BY <1>1, <3>1, <3>2, StageKept DEF AtStage
  <2>3. ASSUME NEW ds \in Found(c), NEW hits, NEW m \in Merged(q, ds, hits), query' = [query EXCEPT ![c] = m]
        PROVE  PagesInv'
    <3>1. ds \subseteq Corpus
      BY DEF Found, PagesInv
    <3>2. m.hits = m.hits /\ DOMAIN m.hits \subseteq DOMAIN q.hits \cup ds /\ m.pc = "filter" /\ m.subs = 1
          /\ m = [pc |-> "filter", text |-> q.text, limit |-> q.limit, offset |-> q.offset, subs |-> 1,
                  hits |-> m.hits]
      BY <2>1, <2>3 DEF Merged, Gathering, kSubset
    <3>3. Gathering(m)
      BY <2>1, <3>1, <3>2 DEF Gathering
    <3> QED
      BY <1>1, <2>3, <3>3, StageKept DEF AtStage
  <2> QED
    BY <1>a, <1>3, <2>2, <2>3 DEF Decompose, DecomposeQuery
<1>4. CASE Filter(c)
  <2>1. Gathering(q)
    BY <1>a, <1>1, <1>4 DEF Filter, AtStage, Asking, Ranking, Searching, Answered
  <2>2. PICK s \in TreeGrep(DOMAIN q.hits) : query' = [query EXCEPT ![c] =
            [pc |-> "rank", text |-> q.text, limit |-> q.limit, offset |-> q.offset, subs |-> q.subs,
             hits |-> Restrict(q.hits, Range(s)), docs |-> s]]
    BY <1>a, <1>4 DEF Filter
  <2>b. PICK m : m = [pc |-> "rank", text |-> q.text, limit |-> q.limit, offset |-> q.offset, subs |-> q.subs,
                      hits |-> Restrict(q.hits, Range(s)), docs |-> s]
    OBVIOUS
  <2>3. PICK scored \in SUBSET DOMAIN q.hits : s \in SetToSeqs(scored)
    BY DEF TreeGrep
  <2>4. scored \subseteq Corpus /\ IsFiniteSet(scored)
    BY <2>1, ReasonAssumption, FS_Subset DEF Gathering
  <2>5. s \in Seq(scored) /\ IsInjective(s)
    BY <2>3, <2>4, Enumerates
  <2>6. s \in Seq(Corpus)
    BY <2>4, <2>5, SeqMonotonic
  <2>7. Ranking(m)
    BY <2>1, <2>b, <2>5, <2>6 DEF Gathering, Ranking
  <2> QED
    BY <1>1, <2>2, <2>b, <2>7, StageKept DEF AtStage
<1> QED
  BY <1>2, <1>3, <1>4

\* From the ranking to the search: some of the documents, none twice, and none searched yet.
LEMMA RankingEnds ==
  ASSUME NEW q, Ranking(q), NEW s \in Seq(Corpus), IsInjective(s)
  PROVE  AtStage(Ranked(q, s))
<1>a. PICK m : m = [pc |-> "search", text |-> q.text, limit |-> q.limit, offset |-> q.offset, subs |-> q.subs,
                    hits |-> Restrict(q.hits, Range(s)), docs |-> s, at |-> 0, found |-> <<>>,
                    cancel |-> FALSE]
  OBVIOUS
<1>1. m = [pc |-> "search", text |-> m.text, limit |-> m.limit, offset |-> m.offset, subs |-> m.subs,
           hits |-> m.hits, docs |-> m.docs, at |-> m.at, found |-> m.found, cancel |-> m.cancel]
  BY <1>a
<1>2. /\ m.text \in Texts /\ m.limit \in Nat /\ m.offset \in Nat /\ m.subs \in {0, 1}
      /\ m.docs = s /\ m.at = 0 /\ m.found = <<>> /\ m.cancel = FALSE
  BY <1>a DEF Ranking
<1>3. Len(s) \in Nat /\ <<>> \in Seq(Corpus \X Nat) /\ DOMAIN (<<>>) = {}
  BY LenProperties, EmptySeq
<1>4. Searching(m)
  BY <1>1, <1>2, <1>3 DEF Searching
<1> QED
  BY <1>a, <1>4 DEF AtStage, Ranked

\* The first elements of a sequence of distinct ones.
LEMMA PrefixIsDistinct ==
  ASSUME NEW S, NEW s \in Seq(S), IsInjective(s), NEW n \in Int
  PROVE  Prefix(s, n) \in Seq(S) /\ IsInjective(Prefix(s, n))
<1>1. Len(s) \in Nat
  BY LenProperties
<1>a. PICK m : m = Min({n, Len(s)})
  OBVIOUS
<1>2. m \in Int /\ m <= Len(s)
  BY <1>1, <1>a, MinOfTwo
<1>3. SubSeq(s, 1, m) \in Seq(S) /\ IsInjective(SubSeq(s, 1, m))
  BY <1>2, PartIsDistinct
<1> QED
  BY <1>a, <1>3 DEF Prefix

\* The ranking takes a part of the documents, in whichever way it goes.
LEMMA RankStaged ==
  ASSUME PagesInv, NEW c \in Clients, Rank(c)
  PROVE  PagesInv'
<1>a. PICK q : q = query[c]
  OBVIOUS
<1>1. AtStage(q) /\ alive' = alive /\ cache' = cache /\ CacheBounded' /\ q.pc = "rank"
  BY <1>a DEF PagesInv, CacheBounded, Rank
<1>2. Ranking(q)
  BY <1>1 DEF AtStage, Asking, Gathering, Searching, Answered
<1>3. q.docs \in Seq(Corpus) /\ IsInjective(q.docs)
  BY <1>2 DEF Ranking
<1>4. TargetDocs(q.limit) \in Int
  <2>1. 2 * q.limit \in Int /\ MinTarget \in Int /\ MaxTarget \in Int
    BY <1>2, ReasonAssumption DEF Ranking
  <2> QED
    BY <2>1, Clamps DEF TargetDocs
<1>5. ASSUME NEW s \in Seq(Corpus), IsInjective(s), query' = [query EXCEPT ![c] = Ranked(q, s)]
      PROVE  PagesInv'
  BY <1>1, <1>2, <1>5, RankingEnds, StageKept
<1>6. CASE query' = [query EXCEPT ![c] = Ranked(q, Prefix(q.docs, TargetDocs(q.limit)))]
  <2>a. PICK s : s = Prefix(q.docs, TargetDocs(q.limit))
    OBVIOUS
  <2>1. s \in Seq(Corpus) /\ IsInjective(s)
    BY <1>3, <1>4, <2>a, PrefixIsDistinct
  <2> QED
    BY <1>5, <1>6, <2>a, <2>1
<1>7. ASSUME NEW T, query' = [query EXCEPT ![c] = Ranked(q, Only(q.docs, T))] PROVE PagesInv'
  <2>a. PICK s : s = Only(q.docs, T)
    OBVIOUS
  <2>1. s \in Seq(Corpus) /\ IsInjective(s)
    BY <1>3, <2>a, OnlyFacts
  <2> QED
    BY <1>5, <1>7, <2>a, <2>1
<1>8. ASSUME NEW T, query' = [query EXCEPT ![c] = Ranked(q, Prefix(Only(q.docs, T), TargetDocs(q.limit)))]
      PROVE PagesInv'
  <2>a. PICK o : o = Only(q.docs, T)
    OBVIOUS
  <2>1. o \in Seq(Corpus) /\ IsInjective(o)
    BY <1>3, <2>a, OnlyFacts
  <2>b. PICK s : s = Prefix(o, TargetDocs(q.limit))
    OBVIOUS
  <2>2. s \in Seq(Corpus) /\ IsInjective(s)
    BY <1>4, <2>1, <2>b, PrefixIsDistinct
  <2> QED
    BY <1>5, <1>8, <2>a, <2>b, <2>2
<1> QED
  BY <1>a, <1>6, <1>7, <1>8 DEF Rank

\* Searching a chunk finds documents of the chunk, each once, and stops the search only once LIMIT
\* documents are found.
LEMMA ChunkStaged ==
  ASSUME PagesInv, NEW c \in Clients, SearchChunk(c)
  PROVE  PagesInv'
<1>a. PICK q : q = query[c]
  OBVIOUS
<1>b. PICK e : e = Min({q.at + MaxConcurrent, Len(q.docs)})
  OBVIOUS
<1>c. PICK chunk : chunk = SubSeq(q.docs, q.at + 1, e)
  OBVIOUS
<1>1. AtStage(q) /\ alive' = alive /\ cache' = cache /\ CacheBounded' /\ q.pc = "search"
  BY <1>a DEF PagesInv, CacheBounded, SearchChunk
<1>2. Searching(q)
  BY <1>1 DEF AtStage, Asking, Gathering, Ranking, Answered
<1>3. /\ q.docs \in Seq(Corpus) /\ IsInjective(q.docs) /\ Len(q.docs) \in Nat /\ DOMAIN q.docs = 1..Len(q.docs)
      /\ q.at \in 0..Len(q.docs) /\ q.at \in Nat
  <2>1. q.docs \in Seq(Corpus) /\ IsInjective(q.docs) /\ q.at \in 0..Len(q.docs)
    BY <1>2 DEF Searching
  <2> QED
    BY <2>1, LenProperties
<1>4. e \in Int /\ e <= Len(q.docs)
  <2>1. q.at + MaxConcurrent \in Int
    BY <1>3, ReasonAssumption
  <2> QED
    BY <1>b, <1>3, <2>1, MinOfTwo
<1>5. /\ chunk \in Seq(Corpus) /\ IsInjective(chunk)
      /\ Len(chunk) = (IF q.at + 1 <= e THEN e - (q.at + 1) + 1 ELSE 0)
      /\ DOMAIN chunk = 1..Len(chunk)
      /\ \A i \in DOMAIN chunk : q.at + 1 + i - 1 \in DOMAIN q.docs /\ chunk[i] = q.docs[q.at + 1 + i - 1]
  <2>1. q.at + 1 \in Nat \ {0}
    BY <1>3
  <2>2. /\ q.docs \in Seq(Corpus) /\ IsInjective(q.docs)
        /\ e \in Int /\ e <= Len(q.docs)
    BY <1>3, <1>4
  <2>a. PICK k : k = q.at + 1
    OBVIOUS
  <2>3. k \in Nat \ {0} /\ chunk = SubSeq(q.docs, k, e)
    BY <1>c, <2>1, <2>a
  <2>4. /\ chunk \in Seq(Corpus) /\ IsInjective(chunk)
        /\ Len(chunk) = (IF k <= e THEN e - k + 1 ELSE 0)
        /\ DOMAIN chunk = 1..Len(chunk)
        /\ \A i \in DOMAIN chunk : k + i - 1 \in DOMAIN q.docs /\ chunk[i] = q.docs[k + i - 1]
    BY <2>2, <2>3, PartIsDistinct
  <2> QED
    BY <2>a, <2>4
<1>6. Len(chunk) \in Nat /\ q.at + Len(chunk) \in 0..Len(q.docs)
  BY <1>3, <1>4, <1>5
<1>7. ASSUME NEW i \in DOMAIN chunk
      PROVE  i \in 1..Len(chunk) /\ q.at + i \in (q.at + 1)..(q.at + Len(chunk)) /\ q.at + i \in DOMAIN q.docs
             /\ chunk[i] = q.docs[q.at + i]
  <2>1. i \in 1..Len(chunk) /\ q.at + 1 + i - 1 \in DOMAIN q.docs /\ chunk[i] = q.docs[q.at + 1 + i - 1]
    BY <1>5
  <2>2. q.at + 1 + i - 1 = q.at + i
    BY <1>3, <1>6, <2>1
  <2> QED
    BY <1>3, <1>6, <2>1, <2>2
<1>8. PICK p \in [Range(chunk) -> 0..MaxScore], t \in [Range(chunk) -> 0..MaxScore] :
        query' = [query EXCEPT ![c] = Continued(q, Matches(q, p, t))]
  BY <1>a, <1>b, <1>c DEF SearchChunk, Together
<1> DEFINE result(d) == DocumentResult(q, d, p[d], t[d])
<1>d. PICK more : more = Only(chunk, {d \in Range(chunk) : result(d) > 0})
  OBVIOUS
<1>e. PICK new : new = Matches(q, p, t)
  OBVIOUS
<1>9. new = [i \in DOMAIN more |-> <<more[i], result(more[i])>>]
  BY <1>b, <1>c, <1>d, <1>e DEF Matches, Together
<1>f. PICK all : all = q.found \o new
  OBVIOUS
<1>10. /\ more \in Seq(Corpus) /\ IsInjective(more) /\ Len(more) \in Nat /\ DOMAIN more = 1..Len(more)
       /\ Range(more) \subseteq Range(chunk)
  BY <1>5, <1>d, OnlyFacts
<1>11. ASSUME NEW d \in Range(chunk) PROVE result(d) \in Nat
  <2>1. p[d] \in 0..MaxScore /\ t[d] \in 0..MaxScore
    OBVIOUS
  <2>2. p[d] \in Nat /\ t[d] \in Nat
    BY <2>1
  <2>a. PICK a : a = IF 0 \in q.hits[d] \/ q.hits[d] = {} THEN p[d] ELSE 0
    OBVIOUS
  <2>b. PICK b : b = IF 1 \in q.hits[d] THEN t[d] ELSE 0
    OBVIOUS
  <2>3. a \in Nat /\ b \in Nat
    BY <2>2, <2>a, <2>b
  <2>4. Max({a, b}) \in Nat
    BY <2>3, MaxOfTwo
  <2> QED
    BY <2>a, <2>b, <2>4 DEF DocumentResult
<1> HIDE DEF result
<1>12. ASSUME NEW i \in DOMAIN more
       PROVE  more[i] \in Corpus /\ more[i] \in Range(chunk) /\ new[i] = <<more[i], result(more[i])>>
              /\ new[i] \in Corpus \X Nat
  <2>1. more[i] \in Corpus
    BY <1>10, ElementOfSeq
  <2>2. more[i] \in Range(chunk)
    BY <1>10 DEF Range
  <2> QED
    BY <1>9, <1>11, <2>1, <2>2
<1>13. new \in Seq(Corpus \X Nat) /\ Len(new) = Len(more) /\ DOMAIN new = 1..Len(more)
  <2>1. new \in [1..Len(more) -> Corpus \X Nat]
    BY <1>9, <1>10, <1>12
  <2>2. new \in Seq(Corpus \X Nat)
    BY <1>10, <2>1, SeqDef
  <2> QED
    BY <1>10, <2>1, <2>2, LenProperties
<1>14. q.found \in Seq(Corpus \X Nat) /\ Len(q.found) \in Nat /\ DOMAIN q.found = 1..Len(q.found)
  <2>1. q.found \in Seq(Corpus \X Nat)
    BY <1>2 DEF Searching
  <2> QED
    BY <2>1, LenProperties
<1>15. /\ all \in Seq(Corpus \X Nat) /\ Len(all) = Len(q.found) + Len(more)
       /\ DOMAIN all = 1..(Len(q.found) + Len(more))
       /\ \A i \in 1..(Len(q.found) + Len(more)) :
            all[i] = IF i <= Len(q.found) THEN q.found[i] ELSE new[i - Len(q.found)]
  <2>a. PICK old : old = q.found
    OBVIOUS
  <2>b. PICK S : S = Corpus \X Nat
    OBVIOUS
  <2>c. old \in Seq(S) /\ new \in Seq(S) /\ all = old \o new
    BY <1>13, <1>14, <1>f, <2>a, <2>b
  <2>d. /\ old \o new \in Seq(S) /\ Len(old \o new) = Len(old) + Len(new)
        /\ \A i \in 1..(Len(old) + Len(new)) :
             (old \o new)[i] = IF i <= Len(old) THEN old[i] ELSE new[i - Len(old)]
    BY <2>c, ConcatProperties
  <2>1. /\ all \in Seq(Corpus \X Nat) /\ Len(all) = Len(q.found) + Len(new)
        /\ \A i \in 1..(Len(q.found) + Len(new)) :
             all[i] = IF i <= Len(q.found) THEN q.found[i] ELSE new[i - Len(q.found)]
    BY <2>a, <2>b, <2>c, <2>d
  <2>2. DOMAIN all = 1..Len(all)
    BY <2>1, LenProperties
  <2> QED
    BY <1>13, <2>1, <2>2
<1>16. \A i \in 1..Len(q.found) : all[i] = q.found[i]
  BY <1>10, <1>14, <1>15
<1>17. ASSUME NEW i \in DOMAIN all, ~(i <= Len(q.found))
       PROVE  i - Len(q.found) \in 1..Len(more) /\ all[i] = new[i - Len(q.found)]
  BY <1>10, <1>14, <1>15, <1>17
<1>18. ASSUME NEW i \in DOMAIN all
       PROVE  \/ i \in DOMAIN q.found /\ \E k \in 1..q.at : q.docs[k] = all[i][1]
              \/ /\ ~(i <= Len(q.found)) /\ all[i][1] = more[i - Len(q.found)]
                 /\ \E k \in (q.at + 1)..(q.at + Len(chunk)) : k \in DOMAIN q.docs /\ q.docs[k] = all[i][1]
  <2>1. CASE i <= Len(q.found)
    <3>1. i \in DOMAIN q.found
      BY <1>10, <1>14, <1>15, <2>1
    <3> QED
      BY <1>2, <1>14, <1>16, <3>1 DEF Searching
  <2>2. CASE ~(i <= Len(q.found))
    <3>a. PICK j : j = i - Len(q.found)
      OBVIOUS
    <3>1. j \in DOMAIN more /\ all[i] = new[j]
      BY <1>10, <1>17, <2>2, <3>a
    <3>2. all[i][1] = more[j] /\ more[j] \in Range(chunk)
      BY <1>12, <3>1
    <3>3. PICK n \in DOMAIN chunk : chunk[n] = more[j]
      BY <3>2 DEF Range
    <3> QED
      BY <1>7, <2>2, <3>a, <3>2, <3>3
  <2> QED
    BY <2>1, <2>2
<1>19. \A i \in DOMAIN all : \E k \in 1..(q.at + Len(chunk)) : q.docs[k] = all[i][1]
  <2>1. 1..q.at \subseteq 1..(q.at + Len(chunk)) /\ (q.at + 1)..(q.at + Len(chunk)) \subseteq 1..(q.at + Len(chunk))
    BY <1>3, <1>6
  <2> QED
    BY <1>18, <2>1
<1>20. ASSUME NEW i \in DOMAIN all, NEW j \in DOMAIN all, all[i][1] = all[j][1] PROVE i = j
  <2>1. ASSUME NEW x \in 1..q.at, NEW y \in (q.at + 1)..(q.at + Len(chunk)), y \in DOMAIN q.docs
        PROVE  q.docs[x] # q.docs[y]
    <3>1. x \in DOMAIN q.docs /\ x # y
      BY <1>3, <1>6
    <3> QED
      BY <1>3, <2>1, <3>1 DEF IsInjective
  <2>2. CASE i \in DOMAIN q.found /\ j \in DOMAIN q.found
    <3>1. q.found[i][1] = q.found[j][1]
      BY <1>14, <1>16, <1>20, <2>2
    <3> QED
      BY <1>2, <2>2, <3>1 DEF Searching
  <2>3. CASE ~(i <= Len(q.found)) /\ ~(j <= Len(q.found))
    <3>a. PICK u : u = i - Len(q.found)
      OBVIOUS
    <3>b. PICK v : v = j - Len(q.found)
      OBVIOUS
    <3>1. u \in DOMAIN more /\ v \in DOMAIN more /\ all[i] = new[u] /\ all[j] = new[v]
      BY <1>10, <1>17, <2>3, <3>a, <3>b
    <3>2. all[i][1] = more[u] /\ all[j][1] = more[v]
      BY <1>12, <3>1
    <3>3. u = v
      BY <1>10, <1>20, <3>1, <3>2 DEF IsInjective
    <3>4. i \in Nat /\ j \in Nat
      BY <1>15
    <3> QED
      BY <1>14, <3>a, <3>b, <3>3, <3>4
  <2>4. \A n \in DOMAIN all : n \in DOMAIN q.found => n <= Len(q.found)
    BY <1>14
  <2> QED
    BY <1>18, <1>20, <2>1, <2>2, <2>3, <2>4
<1>21. CancelThreshold(q) = q.limit
  <2>1. q.subs \in {0, 1} /\ q.limit \in Nat
    BY <1>2 DEF Searching
  <2>a. PICK n : n = q.subs
    OBVIOUS
  <2>b. n \in {0, 1} /\ n \in Int
    BY <2>1, <2>a
  <2>c. Min({n, 3}) = n /\ Max({1, n}) = 1
    BY <2>b, MinOfTwo, MaxOfTwo
  <2>2. Clamp(n, 1, 3) = 1
    BY <2>c DEF Clamp
  <2> QED
    BY <2>1, <2>a, <2>2 DEF CancelThreshold
<1>g. PICK m : m = Continued(q, new)
  OBVIOUS
<1>h. PICK at2 : at2 = q.at + Len(chunk)
  OBVIOUS
<1>i. PICK stop : stop = (new # <<>> /\ Len(all) >= CancelThreshold(q))
  OBVIOUS
<1>22. m = [q EXCEPT !.at = at2, !.found = all, !.cancel = stop]
  BY <1>b, <1>c, <1>f, <1>g, <1>h, <1>i DEF Continued, Together
<1>23. Searching(m)
  <2>a. q = [pc |-> "search", text |-> q.text, limit |-> q.limit, offset |-> q.offset, subs |-> q.subs,
             hits |-> q.hits, docs |-> q.docs, at |-> q.at, found |-> q.found, cancel |-> q.cancel]
    BY <1>2 DEF Searching
  <2>b. /\ DOMAIN m = {"pc", "text", "limit", "offset", "subs", "hits", "docs", "at", "found", "cancel"}
        /\ m.pc = "search" /\ m.text = q.text /\ m.limit = q.limit /\ m.offset = q.offset /\ m.subs = q.subs
        /\ m.docs = q.docs /\ m.at = at2 /\ m.found = all /\ m.cancel = stop
    BY <1>22, <2>a
  <2>c. m = [x \in DOMAIN m |-> m[x]]
    BY <1>22, <2>a
  <2>1. m = [pc |-> "search", text |-> m.text, limit |-> m.limit, offset |-> m.offset, subs |-> m.subs,
             hits |-> m.hits, docs |-> m.docs, at |-> m.at, found |-> m.found, cancel |-> m.cancel]
    BY <2>b, <2>c
  <2>2. q.text \in Texts /\ q.limit \in Nat /\ q.offset \in Nat /\ q.subs \in {0, 1}
    BY <1>2 DEF Searching
  <2>3. /\ m.text \in Texts /\ m.limit \in Nat /\ m.offset \in Nat /\ m.subs \in {0, 1}
        /\ m.docs \in Seq(Corpus) /\ IsInjective(m.docs)
        /\ m.at \in 0..Len(m.docs) /\ m.found \in Seq(Corpus \X Nat)
    BY <1>3, <1>6, <1>15, <1>h, <2>b, <2>2
  <2>4. \A i \in DOMAIN m.found : \E k \in 1..m.at : m.docs[k] = m.found[i][1]
    BY <1>19, <1>h, <2>b
  <2>5. \A i, j \in DOMAIN m.found : m.found[i][1] = m.found[j][1] => i = j
    BY <1>20, <2>b
  <2>6. m.cancel => Len(m.found) >= m.limit
    BY <1>21, <1>i, <2>b
  <2> QED
    BY <2>1, <2>3, <2>4, <2>5, <2>6 DEF Searching
<1>24. query' = [query EXCEPT ![c] = m]
  BY <1>8, <1>e, <1>g
<1> QED
  BY <1>1, <1>23, <1>24, StageKept DEF AtStage

\* Putting an answer into the cache drops another when the cache is full.
LEMMA InsertionStaysBounded ==
  ASSUME CacheBounded, NEW k \in Texts, NEW entry, cache' \in Inserted(k, entry)
  PROVE  CacheBounded'
<1>a. PICK n : n = Cardinality(DOMAIN cache)
  OBVIOUS
<1>1. IsFiniteSet(DOMAIN cache) /\ DOMAIN cache \subseteq Texts /\ n \in Nat /\ n <= CacheSize /\ CacheSize \in Nat
  BY <1>a, FS_CardinalityType, ReasonAssumption DEF CacheBounded
<1>2. ASSUME NEW D \in SUBSET DOMAIN cache, IsFiniteSet(D), Cardinality(D) < CacheSize,
             DOMAIN cache' = D \cup {k}
      PROVE  CacheBounded'
  <2>1. IsFiniteSet(D \cup {k}) /\ Cardinality(D \cup {k}) = IF k \in D THEN Cardinality(D) ELSE Cardinality(D) + 1
    BY <1>2, FS_AddElement
  <2>2. Cardinality(D) \in Nat
    BY <1>2, FS_CardinalityType
  <2>3. Cardinality(D \cup {k}) <= CacheSize
    BY <1>1, <1>2, <2>1, <2>2
  <2>4. D \cup {k} \subseteq Texts
    BY <1>1
  <2> QED
    BY <1>2, <2>1, <2>3, <2>4 DEF CacheBounded
<1>3. CASE n < CacheSize
  <2>1. DOMAIN cache' = DOMAIN cache \cup {k}
    BY <1>3, <1>a DEF Inserted
  <2> QED
    BY <1>1, <1>2, <1>3, <1>a, <2>1
<1>4. CASE ~(n < CacheSize)
  <2>1. PICK j \in Oldest : DOMAIN cache' = DOMAIN Without(j) \cup {k}
    BY <1>4, <1>a DEF Inserted
  <2>2. j \in DOMAIN cache /\ DOMAIN Without(j) = DOMAIN cache \ {j}
    BY <2>1 DEF Oldest, Without
  <2>3. IsFiniteSet(DOMAIN cache \ {j}) /\ Cardinality(DOMAIN cache \ {j}) = n - 1
    BY <1>1, <1>a, <2>2, FS_RemoveElement
  <2> QED
    BY <1>1, <1>2, <2>1, <2>2, <2>3
<1> QED
  BY <1>3, <1>4

\* An answer has every document found, and a query that stopped early found as many as LIMIT asks.
LEMMA FinishStaged ==
  ASSUME PagesInv, NEW c \in Clients, Finish(c)
  PROVE  PagesInv'
<1>a. PICK q : q = query[c]
  OBVIOUS
<1>1. AtStage(q) /\ alive' = alive /\ Searched(q)
  BY <1>a DEF PagesInv, Finish
<1>2. Searching(q)
  BY <1>1 DEF Searched, AtStage, Asking, Gathering, Ranking, Answered
<1>3. PICK s \in ByConfidence(q.found) :
        /\ query' = [query EXCEPT ![c] =
             [pc |-> "answered", hit |-> FALSE, text |-> q.text, limit |-> q.limit, offset |-> q.offset,
              page |-> ResultPage(q, s), total |-> Len(s), unsearched |-> Len(q.docs) - q.at]]
        /\ cache' \in Inserted(q.text, Entry(ResultPage(q, s)))
  BY <1>a DEF Finish
<1>b. PICK page : page = ResultPage(q, s)
  OBVIOUS
<1>c. PICK m : m = [pc |-> "answered", hit |-> FALSE, text |-> q.text, limit |-> q.limit, offset |-> q.offset,
                    page |-> page, total |-> Len(s), unsearched |-> Len(q.docs) - q.at]
  OBVIOUS
<1>d. PICK n : n = Len(q.found)
  OBVIOUS
<1>4. q.limit \in Nat /\ q.offset \in Nat /\ q.text \in Texts /\ q.at \in 0..Len(q.docs) /\ Len(q.docs) \in Nat
      /\ (q.cancel => n >= q.limit)
  BY <1>2, <1>d, LenProperties DEF Searching
<1>5. CacheBounded'
  BY <1>3, <1>4, InsertionStaysBounded DEF PagesInv
<1>6. q.found \in Seq(Corpus \X Nat) /\ n \in Nat /\ DOMAIN q.found = 1..n /\ IsInjective(q.found)
  <2>1. q.found \in Seq(Corpus \X Nat) /\ \A i, j \in DOMAIN q.found : q.found[i][1] = q.found[j][1] => i = j
    BY <1>2 DEF Searching
  <2>2. n \in Nat /\ DOMAIN q.found = 1..n
    BY <1>d, <2>1, LenProperties
  <2>3. IsInjective(q.found)
    BY <2>1 DEF IsInjective
  <2> QED
    BY <2>1, <2>2, <2>3
<1>e. PICK S : S = Range(q.found)
  OBVIOUS
<1>7. IsFiniteSet(S) /\ Cardinality(S) = n
  <2>1. q.found \in Surjection(1..n, S) /\ q.found \in Injection(1..n, S)
    <3>1. q.found \in [1..n -> S]
      <4>1. q.found \in [1..n -> Corpus \X Nat]
        BY <1>6, <1>d, LenProperties
      <4> QED
        BY <4>1, <1>e, <1>6 DEF Range
    <3>2. \A x \in S : \E i \in 1..n : q.found[i] = x
      BY <1>e, <1>6 DEF Range
    <3> QED
      BY <3>1, <3>2, <1>6, Fun_IsInj DEF Surjection, Injection
  <2>2. ExistsBijection(1..n, S)
    BY <2>1, Fun_IsBij DEF ExistsBijection
  <2>3. IsFiniteSet(1..n) /\ Cardinality(1..n) = n
    <3>1. n \in Nat
      BY <1>6
    <3> QED
      BY <3>1, CountingTo
  <2> QED
    BY <2>2, <2>3, FS_Bijection
<1>8. s \in SetToSeqs(S)
  BY <1>3, <1>e DEF ByConfidence
<1>9. Len(s) = n
  BY <1>7, <1>8, Enumerates
<1>10. ASSUME q.offset = 0
       PROVE  IsInjective(page) /\ (Len(page) < q.limit => Len(q.docs) - q.at = 0 /\ n = Len(page))
  <2>a. PICK e : e = Min({q.offset + q.limit, n})
    OBVIOUS
  <2>1. e \in Nat /\ e <= n /\ (e < n => e = q.limit) /\ e <= q.limit
    <3>1. q.offset + q.limit = q.limit /\ q.limit \in Int /\ n \in Int
      BY <1>4, <1>6, <1>10
    <3>2. e = IF q.limit <= n THEN q.limit ELSE n
      BY <2>a, <3>1, MinOfTwo
    <3>3. q.limit \in Nat /\ n \in Nat
      BY <1>4, <1>6
    <3> QED
      BY <3>2, <3>3
  <2>2. page = SubSeq(s, 1, e)
    BY <1>b, <1>9, <1>10, <2>a DEF ResultPage
  <2>3. IsInjective(SubSeq(s, 1, e)) /\ Len(SubSeq(s, 1, e)) = IF 1 <= e THEN e - 1 + 1 ELSE 0
    BY <1>7, <1>8, <2>1, PartOfArrangement
  <2>4. Len(page) = e
    BY <2>1, <2>2, <2>3
  <2>5. ASSUME e < q.limit PROVE Len(q.docs) - q.at = 0 /\ n = e
    <3>1. n = e
      BY <1>6, <2>1, <2>5
    <3>a. ~(n >= q.limit)
      BY <1>4, <1>6, <2>5, <3>1
    <3>b. ~q.cancel
      BY <1>4, <3>a
    <3>2. q.at = Len(q.docs)
      BY <1>1, <3>b DEF Searched
    <3> QED
      BY <1>4, <3>1, <3>2
  <2> QED
    BY <2>2, <2>3, <2>4, <2>5
<1>11. Answered(m)
  BY <1>9, <1>10, <1>c DEF Answered
<1>12. query' = [query EXCEPT ![c] = m]
  BY <1>3, <1>b, <1>c
<1> QED
  BY <1>1, <1>5, <1>11, <1>12, StageKept DEF AtStage

\* Every step keeps what is known of the queries and the cache.
LEMMA PagesKept == PagesInv /\ [ReasonNext]_<<healthVars, reasonVars>> => PagesInv'
<1> SUFFICES ASSUME PagesInv, [ReasonNext]_<<healthVars, reasonVars>> PROVE PagesInv'
  OBVIOUS
<1>1. CASE UNCHANGED <<query, cache>> /\ alive' \subseteq alive
  BY <1>1 DEF PagesInv, CacheBounded, AtStage, Asking, Gathering, Ranking, Searching, Answered
<1>2. ASSUME NEW c \in Clients, Abort(c) PROVE PagesInv'
  <2>1. AtStage(Fresh)
    BY DEF AtStage, Fresh
  <2>2. alive' = alive /\ CacheBounded' /\ query' = [query EXCEPT ![c] = Fresh]
    BY <1>2 DEF Abort, PagesInv, CacheBounded
  <2> QED
    BY <2>1, <2>2, StageKept
<1>3. ASSUME NEW d, DeleteDocument(d) PROVE PagesInv'
  BY <1>1, <1>3 DEF DeleteDocument
<1>4. CASE UNCHANGED reasonVars
  BY <1>1, <1>4 DEF reasonVars
<1>5. ASSUME NEW c \in Clients, NEW x \in Queries[c], Ask(c, x[1], x[2], x[3]) PROVE PagesInv'
  BY <1>5, AskStaged
<1> QED
  BY <1>1, <1>2, <1>3, <1>4, <1>5, CandidatesStaged, RankStaged, ChunkStaged, FinishStaged DEF ReasonNext

\* The server starts with an empty cache and idle clients.
LEMMA PagesStart == ReasonInit => PagesInv
<1> SUFFICES ASSUME ReasonInit PROVE PagesInv
  OBVIOUS
<1>1. CacheBounded
  BY FS_EmptySet, ReasonAssumption DEF ReasonInit, CacheBounded
<1>2. \A c \in Clients : AtStage(query[c])
  BY DEF ReasonInit, AtStage, Fresh
<1> QED
  BY <1>1, <1>2 DEF ReasonInit, PagesInv

\* Documents, cache and queries stay what they should be, and the cache within its size.  (query_cache.rs,
\* routes/query.)
THEOREM ReasonTypeCorrect == ReasonSpec => []ReasonTypeOK
<1>1. PagesInv => ReasonTypeOK
  BY DEF PagesInv, CacheBounded, ReasonTypeOK, AtStage, Asking, Gathering, Ranking, Searching, Answered
<1> QED
  BY <1>1, PagesStart, PagesKept, PTL DEF ReasonSpec

\* Whatever the index, the model and the deletions do: a computed answer without OFFSET names no document
\* twice, and one shorter than LIMIT comes from a search of every ranked document and leaves out none that
\* matched.  (Phase 4 of rql/executor/reason.rs.)
THEOREM EarlyStopsKeepTheFirstPage == ReasonSpec => []EarlyStopKeepsFirstPage
<1>1. PagesInv => EarlyStopKeepsFirstPage
  BY DEF PagesInv, EarlyStopKeepsFirstPage, AtStage, Asking, Gathering, Ranking, Searching, Answered
<1> QED
  BY <1>1, PagesStart, PagesKept, PTL DEF ReasonSpec

(***************************************************************************)
(* The search of one document                                              *)
(***************************************************************************)

EngineSpec == EngineInit /\ [][EngineNext]_engineVars

\* The nodes at or below a node: those in every set that has it and the children of its members.
Below(n) == {m \in PageNodes : \A S \in SUBSET PageNodes : n \in S /\ (\A x \in S : Kids(x) \subseteq S) => m \in S}

\* The nodes a traversal may still report.
Claims(b) == IF b.pc \in {"verify", "batch"} THEN Range(b.inputs) ELSE Below(b.node)

\* What is known of a traversal, and where it is when the tree is searched.
BranchKnown(b, w) ==
  /\ b = [at |-> b.at, node |-> b.node, pc |-> b.pc, inputs |-> b.inputs]
  /\ b.at \in Seq(Nat) /\ b.node \in PageNodes /\ b.inputs \in Seq(PageNodes)
  /\ b.pc \in {"visit", "decide", "verify", "batch"}
  /\ Len(b.at) <= MaxDepth + 1 /\ (b.pc # "visit" => Len(b.at) <= MaxDepth)
  /\ w = "tree" =>
       WayTo(b.node, Len(b.at)) /\ (b.pc \in {"verify", "batch"} => Range(b.inputs) \subseteq Reachable)

\* Traversals share no node that they may still report, and none that is reported.
Separate ==
  /\ \A i, j \in DOMAIN results : results[i][1] = results[j][1] => i = j
  /\ \A b \in branches :
       /\ b.pc \in {"verify", "batch"} => IsInjective(b.inputs)
       /\ \A i \in DOMAIN results : results[i][1] \notin Claims(b)
  /\ \A a, b \in branches : a # b => Claims(a) \cap Claims(b) = {}

Flags == halted \in BOOLEAN /\ failed \in BOOLEAN /\ repeated \in BOOLEAN

Progress ==
  /\ way = "none" => branches = {} /\ results = <<>> /\ response = <<>>
  /\ response # <<>> => branches = {}

ResultsKnown ==
  /\ results \in Seq(PageNodes \X (MinScore..TopScore))
  /\ way = "tree" => \A i \in DOMAIN results : results[i][1] \in Reachable

EngineInv ==
  /\ Flags /\ Progress /\ ResultsKnown /\ (\A b \in branches : BranchKnown(b, way))
  /\ (~repeated => Separate) /\ ReturnsTheBest

\* A node is at or below itself, so are its children, and any other node below it has its parent there.
LEMMA BelowFacts ==
  ASSUME NEW n \in PageNodes
  PROVE  /\ n \in Below(n) /\ Below(n) \subseteq PageNodes
         /\ \A m \in Below(n) : Kids(m) \subseteq Below(n)
         /\ \A m \in Below(n) : m = n \/ \E p \in Below(n) : m \in Kids(p)
         /\ \A m \in Below(n) : Below(m) \subseteq Below(n)
<1>0. \A x \in PageNodes : Kids(x) \subseteq PageNodes
  BY EngineAssumption, ElementOfSeq, LenProperties DEF Kids, Range
<1>1. n \in Below(n) /\ Below(n) \subseteq PageNodes
  BY DEF Below
<1>2. \A m \in Below(n) : Kids(m) \subseteq Below(n)
  BY <1>0 DEF Below
<1>3. \A m \in Below(n) : m = n \/ \E p \in Below(n) : m \in Kids(p)
  <2>a. PICK C : C = {n} \cup {m \in Below(n) : \E p \in Below(n) : m \in Kids(p)}
    OBVIOUS
  <2>1. C \in SUBSET PageNodes /\ n \in C /\ C \subseteq Below(n)
    BY <1>1, <2>a
  <2>2. \A x \in C : Kids(x) \subseteq C
    BY <1>2, <2>1, <2>a
  <2>3. Below(n) \subseteq C
    BY <2>1, <2>2 DEF Below
  <2> QED
    BY <2>3, <2>a
<1>4. \A m \in Below(n) : Below(m) \subseteq Below(n)
  BY DEF Below
<1> QED
  BY <1>1, <1>2, <1>3, <1>4

\* No node is below one of its children.
LEMMA NoCycles ==
  ASSUME NEW n \in PageNodes, NEW k \in Kids(n), k \in PageNodes
  PROVE  n \notin Below(k)
<1> SUFFICES ASSUME n \in Below(k) PROVE FALSE
  OBVIOUS
<1>a. PICK C : C = {m \in Below(k) : n \in Below(m)}
  OBVIOUS
<1>0. Below(k) \subseteq PageNodes /\ k \in Below(k) /\ n \in Below(n)
  BY BelowFacts
<1>1. C \in (SUBSET PageNodes) \ {{}} /\ n \in C /\ k \in C
  BY <1>0, <1>a
<1>2. PICK x \in C : \A m \in C : x \notin Kids(m)
  BY <1>1, EngineAssumption
<1>3. x # k
  BY <1>1, <1>2
<1>4. PICK p \in Below(k) : x \in Kids(p)
  BY <1>2, <1>3, <1>a, BelowFacts
<1>5. p \in PageNodes /\ x \in Below(p)
  BY <1>4, BelowFacts
<1>6. n \in Below(p)
  BY <1>2, <1>5, <1>a, BelowFacts
<1> QED
  BY <1>2, <1>4, <1>6, <1>a

\* Nothing is below two children of a node.
LEMMA SiblingsApart ==
  ASSUME NEW n \in PageNodes, NEW k \in Kids(n), NEW l \in Kids(n), k \in PageNodes, l \in PageNodes, k # l
  PROVE  Below(k) \cap Below(l) = {}
<1> SUFFICES ASSUME Below(k) \cap Below(l) # {} PROVE FALSE
  OBVIOUS
<1>1. PICK x \in Below(k) \cap Below(l) : \A m \in Below(k) \cap Below(l) : x \notin Kids(m)
  <2>1. Below(k) \cap Below(l) \in (SUBSET PageNodes) \ {{}}
    <3>1. Below(k) \subseteq PageNodes
      BY BelowFacts
    <3> QED
      BY <3>1
  <2> QED
    BY <2>1, EngineAssumption
<1>2. \A m \in PageNodes, y \in PageNodes : y \in Kids(m) /\ y \in Kids(n) => m = n
  BY EngineAssumption
<1>3. n \notin Below(k) /\ n \notin Below(l)
  BY NoCycles
<1>4. x # k
  <2>1. k \in Below(l) => \E p \in Below(l) : k \in Kids(p)
    BY BelowFacts
  <2>2. Below(l) \subseteq PageNodes
    BY BelowFacts
  <2> QED
    BY <1>1, <1>2, <1>3, <2>1, <2>2
<1>5. x # l
  <2>1. l \in Below(k) => \E p \in Below(k) : l \in Kids(p)
    BY BelowFacts
  <2>2. Below(k) \subseteq PageNodes
    BY BelowFacts
  <2> QED
    BY <1>1, <1>2, <1>3, <2>1, <2>2
<1>6. PICK p \in Below(k), q \in Below(l) : x \in Kids(p) /\ x \in Kids(q)
  <2>1. PICK p \in Below(k) : x \in Kids(p)
    BY <1>1, <1>4, BelowFacts
  <2>2. PICK q \in Below(l) : x \in Kids(q)
    BY <1>1, <1>5, BelowFacts
  <2> QED
    BY <2>1, <2>2
<1>7. p = q
  <2>1. p \in PageNodes /\ q \in PageNodes
    BY <1>6, BelowFacts
  <2> QED
    BY <1>6, <2>1, EngineAssumption
<1> QED
  BY <1>1, <1>6, <1>7

\* The children of a node are one link further from the root.
LEMMA WayOn ==
  ASSUME NEW n \in PageNodes, NEW d \in Nat, WayTo(n, d), NEW k \in Kids(n)
  PROVE  k \in PageNodes /\ WayTo(k, d + 1)
<1>1. k \in PageNodes
  BY EngineAssumption, ElementOfSeq, LenProperties DEF Kids, Range
<1>2. PICK path \in [0..d -> PageNodes] :
        path[0] = RootNode /\ path[d] = n /\ \A i \in 1..d : path[i] \in Kids(path[i - 1])
  BY DEF WayTo
<1>a. PICK longer : longer = [i \in 0..(d + 1) |-> IF i = d + 1 THEN k ELSE path[i]]
  OBVIOUS
<1>3. longer \in [0..(d + 1) -> PageNodes]
  BY <1>1, <1>2, <1>a
<1>4. longer[0] = RootNode /\ longer[d + 1] = k
  BY <1>2, <1>a
<1>5. ASSUME NEW i \in 1..(d + 1) PROVE longer[i] \in Kids(longer[i - 1])
  <2>1. CASE i = d + 1
    <3>1. i - 1 = d /\ i - 1 \in 0..(d + 1) /\ i - 1 # d + 1
      BY <2>1
    <3> QED
      BY <1>2, <1>a, <2>1, <3>1
  <2>2. CASE i # d + 1
    <3>1. i \in 1..d /\ i - 1 \in 0..(d + 1) /\ i - 1 # d + 1 /\ i \in 0..(d + 1)
      BY <2>2
    <3> QED
      BY <1>2, <1>a, <2>2, <3>1
  <2> QED
    BY <2>1, <2>2
<1> QED
  BY <1>1, <1>3, <1>4, <1>5 DEF WayTo

\* A traversal gives way to others that report nothing it would not have reported.
LEMMA BranchGivesWay ==
  ASSUME EngineInv, NEW b \in branches, NEW new, Replaced(b, new),
         UNCHANGED <<way, results, response>>, Flags', ~repeated' => ~repeated,
         \A a \in new : BranchKnown(a, way),
         ~repeated' =>
           /\ \A a \in new : Claims(a) \subseteq Claims(b) /\ (a.pc \in {"verify", "batch"} => IsInjective(a.inputs))
           /\ \A a, d \in new : a # d => Claims(a) \cap Claims(d) = {}
  PROVE  EngineInv'
<1>0. branches' = (branches \ {b}) \cup new
  BY DEF Replaced
<1>1. response = <<>> /\ way # "none"
  BY DEF EngineInv, Progress
<1>2. Progress'
  BY <1>1 DEF Progress
<1>3. ResultsKnown'
  BY DEF EngineInv, ResultsKnown
<1>4. \A a \in branches' : BranchKnown(a, way')
  BY <1>0 DEF EngineInv
<1>5. ReturnsTheBest'
  BY <1>1 DEF ReturnsTheBest
<1>6. ASSUME ~repeated' PROVE Separate'
  <2>1. Separate
    BY <1>6 DEF EngineInv
  <2>2. \A i, j \in DOMAIN results' : results'[i][1] = results'[j][1] => i = j
    BY <2>1 DEF Separate
  <2>3. ASSUME NEW a \in branches'
        PROVE  (a.pc \in {"verify", "batch"} => IsInjective(a.inputs))
               /\ \A i \in DOMAIN results' : results'[i][1] \notin Claims(a)
    <3>1. CASE a \in branches
      BY <2>1, <3>1 DEF Separate
    <3>2. CASE a \in new
      BY <1>6, <2>1, <3>2 DEF Separate
    <3> QED
      BY <1>0, <3>1, <3>2
  <2>4. ASSUME NEW a \in branches', NEW d \in branches', a # d PROVE Claims(a) \cap Claims(d) = {}
    <3>1. CASE a \in branches \ {b} /\ d \in branches \ {b}
      BY <2>1, <2>4, <3>1 DEF Separate
    <3>2. CASE a \in branches \ {b} /\ d \in new
      <4>1. Claims(a) \cap Claims(b) = {} /\ Claims(d) \subseteq Claims(b)
        BY <1>6, <2>1, <3>2 DEF Separate
      <4> QED
        BY <4>1
    <3>3. CASE a \in new /\ d \in branches \ {b}
      <4>1. Claims(d) \cap Claims(b) = {} /\ Claims(a) \subseteq Claims(b)
        BY <1>6, <2>1, <3>3 DEF Separate
      <4> QED
        BY <4>1
    <3>4. CASE a \in new /\ d \in new
      BY <1>6, <2>4, <3>4
    <3> QED
      BY <1>0, <3>1, <3>2, <3>3, <3>4
  <2> QED
    BY <2>2, <2>3, <2>4 DEF Separate, Claims
<1> QED
  BY <1>2, <1>3, <1>4, <1>5, <1>6 DEF EngineInv

\* The children of a node, and any selection of them, are nodes below it, one link further.
LEMMA SelectionKnown ==
  ASSUME NEW b, NEW w, BranchKnown(b, w), NEW s \in Seq(PageNodes), Range(s) \subseteq Kids(b.node)
  PROVE  /\ Range(s) \subseteq Below(b.node)
         /\ w = "tree" => \A k \in Range(s) : WayTo(k, Len(b.at) + 1)
         /\ w = "tree" /\ MayBatch(b) => Range(s) \subseteq Reachable
<1>1. b.node \in PageNodes /\ Len(b.at) \in Nat
  BY LenProperties DEF BranchKnown
<1>2. Kids(b.node) \subseteq Below(b.node)
  BY <1>1, BelowFacts
<1>3. ASSUME w = "tree", NEW k \in Range(s) PROVE k \in PageNodes /\ WayTo(k, Len(b.at) + 1)
  <2>1. WayTo(b.node, Len(b.at)) /\ k \in Kids(b.node)
    BY <1>3 DEF BranchKnown
  <2> QED
    BY <1>1, <2>1, WayOn
<1>4. ASSUME MayBatch(b) PROVE Len(b.at) + 1 \in 0..MaxDepth
  BY <1>1, <1>4, EngineAssumption DEF MayBatch, Depth
<1> QED
  BY <1>2, <1>3, <1>4 DEF Reachable

\* A traversal that waits for the model's verdict on some nodes.
LEMMA WaitsForVerdict ==
  ASSUME NEW b, BranchKnown(b, way), NEW s \in Seq(PageNodes), NEW pc \in {"verify", "batch"},
         Len(b.at) <= MaxDepth, way = "tree" => Range(s) \subseteq Reachable
  PROVE  BranchKnown(Waiting(b, pc, s), way) /\ Claims(Waiting(b, pc, s)) = Range(s)
         /\ Waiting(b, pc, s).inputs = s
<1>a. PICK m : m = Waiting(b, pc, s)
  OBVIOUS
<1>b. PICK at, node, q, t : b = [at |-> at, node |-> node, pc |-> q, inputs |-> t]
  BY DEF BranchKnown
<1>1. m = [at |-> at, node |-> node, pc |-> pc, inputs |-> s]
  BY <1>a, <1>b DEF Waiting
<1>2. b.at = at /\ b.node = node
  BY <1>b
<1>3. m.at = at /\ m.node = node /\ m.pc = pc /\ m.inputs = s
  BY <1>1
<1>4. m = [at |-> m.at, node |-> m.node, pc |-> m.pc, inputs |-> m.inputs]
  BY <1>1, <1>3
<1>5. m.at \in Seq(Nat) /\ m.node \in PageNodes /\ Len(m.at) <= MaxDepth + 1
  BY <1>2, <1>3 DEF BranchKnown
<1>6. way = "tree" => WayTo(m.node, Len(m.at)) /\ Range(m.inputs) \subseteq Reachable
  BY <1>2, <1>3 DEF BranchKnown
<1>7. Len(m.at) <= MaxDepth
  BY <1>2, <1>3
<1>8. BranchKnown(m, way)
  BY <1>3, <1>4, <1>5, <1>6, <1>7 DEF BranchKnown
<1> QED
  BY <1>3, <1>8, <1>a DEF Claims

\* Up to its first call of the model a traversal stays with the nodes below its own.
LEMMA VisitKept ==
  ASSUME EngineInv, NEW b \in branches, Visit(b)
  PROVE  EngineInv'
<1>1. BranchKnown(b, way) /\ b.pc = "visit" /\ b.node \in PageNodes /\ Claims(b) = Below(b.node)
  BY DEF EngineInv, Visit, BranchKnown, Claims
<1>2. UNCHANGED <<way, results, halted, failed, repeated, response>> /\ Flags'
  BY DEF Visit, EngineInv, Flags
<1>3. CASE Replaced(b, {})
  BY <1>2, <1>3, BranchGivesWay
<1>4. ASSUME NEW m, BranchKnown(m, way), Replaced(b, {m}), Claims(m) \subseteq Below(b.node),
             ~repeated => (m.pc \in {"verify", "batch"} => IsInjective(m.inputs))
      PROVE  EngineInv'
  BY <1>1, <1>2, <1>4, BranchGivesWay
<1>5. CASE Depth(b) <= MaxDepth /\ Replaced(b, {Waiting(b, "verify", <<b.node>>)})
  <2>a. PICK s : s = <<b.node>>
    OBVIOUS
  <2>1. s \in Seq(PageNodes) /\ Range(s) = {b.node} /\ IsInjective(s)
    BY <1>1, <2>a DEF Range, IsInjective
  <2>2. way = "tree" => b.node \in Reachable
    <3>1. Len(b.at) \in 0..MaxDepth
      BY <1>1, <1>5, LenProperties DEF Depth, BranchKnown
    <3> QED
      BY <1>1, <3>1 DEF BranchKnown, Reachable
  <2>3. Len(b.at) <= MaxDepth
    BY <1>5 DEF Depth
  <2>b. PICK m : m = Waiting(b, "verify", s)
    OBVIOUS
  <2>4. BranchKnown(m, way) /\ Claims(m) = {b.node} /\ m.inputs = s
    BY <1>1, <2>1, <2>2, <2>3, <2>b, WaitsForVerdict
  <2>5. {b.node} \subseteq Below(b.node)
    BY <1>1, BelowFacts
  <2> QED
    BY <1>4, <1>5, <2>1, <2>4, <2>5, <2>a, <2>b
<1>6. ASSUME NEW cs \in Prefiltered(b.node), Depth(b) <= MaxDepth
      PROVE  /\ MayBatch(b) /\ Replaced(b, {Waiting(b, "batch", cs)}) => EngineInv'
             /\ Replaced(b, {Waiting(b, "decide", cs)}) => EngineInv'
  <2>1. Children[b.node] \in Seq(PageNodes) /\ IsInjective(Children[b.node])
    BY <1>1, EngineAssumption
  <2>2. \E T : cs = Only(Children[b.node], T) \/ cs = Children[b.node]
    BY DEF Prefiltered
  <2>3. cs \in Seq(PageNodes) /\ IsInjective(cs) /\ Range(cs) \subseteq Kids(b.node)
    <3>1. ASSUME NEW T
          PROVE  /\ Only(Children[b.node], T) \in Seq(PageNodes) /\ IsInjective(Only(Children[b.node], T))
                 /\ Range(Only(Children[b.node], T)) \subseteq Range(Children[b.node])
      BY <2>1, OnlyFacts
    <3> QED
      BY <2>1, <2>2, <3>1 DEF Kids
  <2>4. Len(b.at) <= MaxDepth
    BY <1>6 DEF Depth
  <2>5. ASSUME MayBatch(b), Replaced(b, {Waiting(b, "batch", cs)}) PROVE EngineInv'
    <3>b. PICK m : m = Waiting(b, "batch", cs)
      OBVIOUS
    <3>1. Range(cs) \subseteq Below(b.node) /\ (way = "tree" => Range(cs) \subseteq Reachable)
      BY <1>1, <2>3, <2>5, SelectionKnown
    <3>2. BranchKnown(m, way) /\ Claims(m) = Range(cs) /\ m.inputs = cs
      BY <1>1, <2>3, <2>4, <3>1, <3>b, WaitsForVerdict
    <3> QED
      BY <1>4, <2>3, <2>5, <3>1, <3>2, <3>b
  <2>6. ASSUME Replaced(b, {Waiting(b, "decide", cs)}) PROVE EngineInv'
    <3>a. PICK m : m = Waiting(b, "decide", cs)
      OBVIOUS
    <3>b. PICK at, node, q, t : b = [at |-> at, node |-> node, pc |-> q, inputs |-> t]
      BY <1>1 DEF BranchKnown
    <3>1. m = [at |-> at, node |-> node, pc |-> "decide", inputs |-> cs]
      BY <3>a, <3>b DEF Waiting
    <3>2. b.at = at /\ b.node = node
      BY <3>b
    <3>3. m.at = at /\ m.node = node /\ m.pc = "decide" /\ m.inputs = cs
      BY <3>1
    <3>4. m = [at |-> m.at, node |-> m.node, pc |-> m.pc, inputs |-> m.inputs]
      BY <3>1, <3>3
    <3>5. BranchKnown(m, way)
      BY <1>1, <2>3, <2>4, <3>2, <3>3, <3>4 DEF BranchKnown
    <3>6. Claims(m) = Below(b.node)
      BY <3>2, <3>3 DEF Claims
    <3> QED
      BY <1>4, <2>6, <3>3, <3>5, <3>6, <3>a
  <2> QED
    BY <2>5, <2>6
<1>7. Depth(b) <= MaxDepth \/ Replaced(b, {})
  BY DEF Visit
<1> QED
  BY <1>3, <1>5, <1>6, <1>7 DEF Visit

\* A selection by the model keeps to the children of the node, and names one twice only as a repetition.
LEMMA DecideKept ==
  ASSUME EngineInv, NEW b \in branches, Decide(b)
  PROVE  EngineInv'
<1>1. BranchKnown(b, way) /\ b.pc = "decide" /\ b.node \in PageNodes /\ Claims(b) = Below(b.node)
      /\ Len(b.at) \in Nat /\ Len(b.at) <= MaxDepth /\ b.at \in Seq(Nat)
  BY LenProperties DEF EngineInv, Decide, BranchKnown, Claims
<1>2. PICK decisions \in DecideNextStep(b) :
        LET chosen == Only(decisions, Kids(b.node))
        IN  /\ repeated' = (repeated \/ ~IsInjective(chosen))
            /\ \/ Replaced(b, {})
               \/ MayBatch(b) /\ Replaced(b, {Waiting(b, "batch", chosen)})
               \/ Replaced(b, {Branch(Append(b.at, i), chosen[i]) : i \in DOMAIN chosen})
  BY DEF Decide
<1>a. PICK s : s = Only(decisions, Kids(b.node))
  OBVIOUS
<1>3. UNCHANGED <<way, results, halted, failed, response>> /\ Flags' /\ repeated' = (repeated \/ ~IsInjective(s))
      /\ (~repeated' => ~repeated)
  BY <1>2, <1>a DEF Decide, EngineInv, Flags
<1>4. Kids(b.node) \subseteq PageNodes
  BY <1>1, BelowFacts
<1>5. s \in Seq(PageNodes) /\ Range(s) \subseteq Kids(b.node) /\ Len(s) \in Nat /\ DOMAIN s = 1..Len(s)
  <2>1. decisions \in Seq(Kids(b.node) \cup {Foreign})
    <3>1. EffectiveBeam(b.node) \in Int
      BY EngineAssumption DEF EffectiveBeam
    <3>2. PICK n \in 0..EffectiveBeam(b.node) : decisions \in [1..n -> Kids(b.node) \cup {Foreign}]
      BY DEF DecideNextStep, SeqOf
    <3>3. n \in Nat
      BY <3>1
    <3> QED
      BY <3>2, <3>3, SeqDef
  <2>2. /\ Range(s) \subseteq Kids(b.node) /\ Len(s) \in Nat /\ DOMAIN s = 1..Len(s)
    BY <2>1, <1>a, OnlyFacts
  <2>3. \A i \in 1..Len(s) : s[i] \in PageNodes
    BY <1>4, <2>2 DEF Range
  <2>4. s \in [1..Len(s) -> PageNodes]
    <3>1. s \in Seq(Kids(b.node) \cup {Foreign})
      BY <2>1, <1>a, OnlyFacts
    <3>2. s \in [1..Len(s) -> Kids(b.node) \cup {Foreign}]
      BY <3>1, LenProperties
    <3> QED
      BY <2>3, <3>2
  <2>5. s \in Seq(PageNodes)
    BY <2>2, <2>4, SeqDef
  <2> QED
    BY <2>2, <2>5
<1>6. Range(s) \subseteq Below(b.node) /\ (way = "tree" => \A k \in Range(s) : WayTo(k, Len(b.at) + 1))
      /\ (way = "tree" /\ MayBatch(b) => Range(s) \subseteq Reachable)
  BY <1>1, <1>5, SelectionKnown
<1>7. CASE Replaced(b, {})
  BY <1>3, <1>7, BranchGivesWay
<1>8. CASE MayBatch(b) /\ Replaced(b, {Waiting(b, "batch", s)})
  <2>a. PICK m : m = Waiting(b, "batch", s)
    OBVIOUS
  <2>1. BranchKnown(m, way) /\ Claims(m) = Range(s) /\ m.inputs = s
    BY <1>1, <1>5, <1>6, <1>8, <2>a, WaitsForVerdict
  <2>2. Replaced(b, {m}) /\ (~repeated' => IsInjective(m.inputs))
    BY <1>3, <1>8, <2>1, <2>a
  <2> QED
    BY <1>1, <1>3, <1>6, <2>1, <2>2, BranchGivesWay
<1>9. CASE Replaced(b, {Branch(Append(b.at, i), s[i]) : i \in DOMAIN s})
  <2>a. PICK new : new = {Branch(Append(b.at, i), s[i]) : i \in DOMAIN s}
    OBVIOUS
  <2>1. ASSUME NEW i \in DOMAIN s
        PROVE  LET m == Branch(Append(b.at, i), s[i])
               IN  BranchKnown(m, way) /\ m.pc = "visit" /\ Claims(m) = Below(s[i]) /\ s[i] \in Kids(b.node)
                   /\ s[i] \in PageNodes
    <3>a. PICK m : m = Branch(Append(b.at, i), s[i])
      OBVIOUS
    <3>b. PICK at : at = Append(b.at, i)
      OBVIOUS
    <3>c. PICK n : n = s[i]
      OBVIOUS
    <3>1. i \in Nat /\ n \in Range(s) /\ n \in Kids(b.node) /\ n \in PageNodes
      BY <1>4, <1>5, <3>c DEF Range
    <3>2. at \in Seq(Nat) /\ Len(at) = Len(b.at) + 1
      BY <1>1, <3>1, <3>b, AppendProperties
    <3>3. Len(at) <= MaxDepth + 1
      BY <1>1, <3>2, EngineAssumption
    <3>4. m = [at |-> at, node |-> n, pc |-> "visit", inputs |-> <<>>]
      BY <3>a, <3>b, <3>c DEF Branch
    <3>5. m.at = at /\ m.node = n /\ m.pc = "visit" /\ m.inputs = <<>>
          /\ m = [at |-> m.at, node |-> m.node, pc |-> m.pc, inputs |-> m.inputs]
      BY <3>4
    <3>6. <<>> \in Seq(PageNodes)
      BY EmptySeq
    <3>7. way = "tree" => WayTo(n, Len(at))
      BY <1>6, <3>1, <3>2
    <3>8. BranchKnown(m, way)
      BY <3>1, <3>2, <3>3, <3>5, <3>6, <3>7 DEF BranchKnown
    <3>9. Claims(m) = Below(n)
      BY <3>5 DEF Claims
    <3> QED
      BY <3>1, <3>5, <3>8, <3>9, <3>a, <3>c
  <2>2. \A m \in new : BranchKnown(m, way) /\ m.pc = "visit"
    BY <2>1, <2>a
  <2>3. \A m \in new : Claims(m) \subseteq Claims(b)
    <3>1. \A n \in Kids(b.node) : Below(n) \subseteq Below(b.node)
      BY <1>1, BelowFacts
    <3> QED
      BY <1>1, <2>1, <2>a, <3>1
  <2>4. ASSUME ~repeated', NEW m \in new, NEW d \in new, m # d PROVE Claims(m) \cap Claims(d) = {}
    <3>1. PICK i \in DOMAIN s : m = Branch(Append(b.at, i), s[i])
      BY <2>a
    <3>2. PICK j \in DOMAIN s : d = Branch(Append(b.at, j), s[j])
      BY <2>a
    <3>3. s[i] # s[j]
      BY <1>3, <2>4, <3>1, <3>2 DEF IsInjective
    <3>4. s[i] \in Kids(b.node) /\ s[j] \in Kids(b.node) /\ s[i] \in PageNodes /\ s[j] \in PageNodes
          /\ Claims(m) = Below(s[i]) /\ Claims(d) = Below(s[j])
      BY <2>1, <3>1, <3>2
    <3> QED
      BY <1>1, <3>3, <3>4, SiblingsApart
  <2>5. Replaced(b, new)
    BY <1>9, <2>a
  <2> QED
    BY <1>3, <2>2, <2>3, <2>4, <2>5, BranchGivesWay
<1> QED
  BY <1>2, <1>7, <1>8, <1>9, <1>a

\* The relevant nodes of a batch join the results; they are its own, each once.
LEMMA VerifiedKept ==
  ASSUME EngineInv, NEW b \in branches, Verified(b)
  PROVE  EngineInv'
<1>1. BranchKnown(b, way) /\ b.pc \in {"verify", "batch"} /\ Claims(b) = Range(b.inputs)
      /\ b.inputs \in Seq(PageNodes) /\ (way = "tree" => Range(b.inputs) \subseteq Reachable)
  BY DEF EngineInv, Verified, BranchKnown, Claims
<1>2. UNCHANGED <<way, halted, failed, repeated, response>> /\ branches' = branches \ {b} /\ Flags'
      /\ response = <<>> /\ way # "none"
  BY DEF Verified, Replaced, EngineInv, Flags, Progress
<1>a. PICK e : e = Min({Len(b.inputs), BatchCap})
  OBVIOUS
<1>b. PICK top : top = SubSeq(b.inputs, 1, e)
  OBVIOUS
<1>3. Len(b.inputs) \in Nat /\ DOMAIN b.inputs = 1..Len(b.inputs) /\ e \in Nat /\ e <= Len(b.inputs)
  <2>1. Len(b.inputs) \in Nat /\ DOMAIN b.inputs = 1..Len(b.inputs)
    BY <1>1, LenProperties
  <2>2. BatchCap \in Nat
    BY EngineAssumption
  <2>3. e = IF Len(b.inputs) <= BatchCap THEN Len(b.inputs) ELSE BatchCap
    <3>1. Len(b.inputs) \in Int /\ BatchCap \in Int
      BY <2>1, <2>2
    <3> QED
      BY <3>1, <1>a, MinOfTwo
  <2> QED
    BY <2>1, <2>2, <2>3
<1>4. top \in Seq(PageNodes) /\ Len(top) = e /\ DOMAIN top = 1..e
      /\ \A i \in 1..e : i \in DOMAIN b.inputs /\ top[i] = b.inputs[i]
  <2>1. \A i \in 1..e : i \in DOMAIN b.inputs /\ b.inputs[i] \in PageNodes
    BY <1>1, <1>3, ElementOfSeq
  <2>2. top \in Seq(PageNodes) /\ Len(top) = (IF 1 <= e THEN e - 1 + 1 ELSE 0)
        /\ \A i \in 1..(e - 1 + 1) : top[i] = b.inputs[1 + i - 1]
    BY <1>3, <1>b, <2>1, SubSeqProperties
  <2>3. Len(top) = e /\ e - 1 + 1 = e /\ \A i \in 1..e : 1 + i - 1 = i
    BY <1>3, <2>2
  <2>4. DOMAIN top = 1..e
    BY <2>2, <2>3, LenProperties
  <2> QED
    BY <2>1, <2>2, <2>3, <2>4
<1>5. PICK score \in BatchVerifyAnswers(top) :
        LET scored == [i \in DOMAIN top |-> <<top[i], score[i]>>]
        IN  results' = results \o Only(scored, {r \in Range(scored) : r[2] >= MinScore})
  BY <1>a, <1>b DEF Verified
<1>c. PICK scored : scored = [i \in DOMAIN top |-> <<top[i], score[i]>>]
  OBVIOUS
<1>d. PICK good : good = {r \in Range(scored) : r[2] >= MinScore}
  OBVIOUS
<1>e. PICK add : add = Only(scored, good)
  OBVIOUS
<1>6. results' = results \o add
  BY <1>5, <1>c, <1>d, <1>e
<1>7. ASSUME NEW i \in 1..e
      PROVE  scored[i] = <<top[i], score[i]>> /\ top[i] \in PageNodes /\ score[i] \in (MinScore - 1)..TopScore
             /\ top[i] \in Range(b.inputs) /\ top[i] = b.inputs[i] /\ i \in DOMAIN b.inputs
  BY <1>3, <1>4, <1>5, <1>c, ElementOfSeq DEF BatchVerifyAnswers, VerifyAnswer, Range
<1>8. scored \in Seq(PageNodes \X Int) /\ DOMAIN scored = 1..e
  <2>1. \A i \in 1..e : scored[i] \in PageNodes \X Int
    <3>1. MinScore \in Int /\ TopScore \in Int
      BY EngineAssumption
    <3>2. ASSUME NEW i \in 1..e PROVE score[i] \in Int
      BY <1>7, <3>1
    <3>3. ASSUME NEW i \in 1..e PROVE scored[i] = <<top[i], score[i]>> /\ top[i] \in PageNodes
      BY <1>7
    <3> QED
      BY <3>2, <3>3
  <2>2. scored \in [1..e -> PageNodes \X Int]
    BY <1>4, <1>c, <2>1
  <2> QED
    BY <1>3, <2>2, SeqDef
<1>9. add \in Seq(PageNodes \X Int) /\ Range(add) = Range(scored) \cap good /\ Len(add) \in Nat
      /\ DOMAIN add = 1..Len(add) /\ (IsInjective(scored) => IsInjective(add))
  <2>a. PICK S : S = PageNodes \X Int
    OBVIOUS
  <2>1. scored \in Seq(S)
    BY <1>8, <2>a
  <2>2. Only(scored, good) \in Seq(S) /\ Range(Only(scored, good)) = Range(scored) \cap good
        /\ Len(Only(scored, good)) \in Nat /\ DOMAIN Only(scored, good) = 1..Len(Only(scored, good))
        /\ (IsInjective(scored) => IsInjective(Only(scored, good)))
    BY <2>1, OnlyFacts
  <2> QED
    BY <1>e, <2>2, <2>a
<1>10. ASSUME NEW k \in DOMAIN add
       PROVE  /\ add[k] \in PageNodes \X (MinScore..TopScore)
              /\ \E i \in 1..e : add[k] = scored[i] /\ add[k][1] = b.inputs[i]
              /\ add[k][1] \in Range(b.inputs)
  <2>1. add[k] \in Range(scored) /\ add[k] \in good
    BY <1>9 DEF Range
  <2>2. PICK i \in 1..e : add[k] = scored[i]
    BY <1>8, <2>1 DEF Range
  <2>3. add[k] = <<top[i], score[i]>> /\ add[k][2] >= MinScore
    BY <1>7, <1>d, <2>1, <2>2
  <2>4. score[i] \in MinScore..TopScore
    BY <1>7, <2>3, EngineAssumption
  <2> QED
    BY <1>7, <2>2, <2>3, <2>4
<1>11. add \in Seq(PageNodes \X (MinScore..TopScore))
  <2>1. add \in [1..Len(add) -> PageNodes \X (MinScore..TopScore)]
    BY <1>9, <1>10, LenProperties
  <2> QED
    BY <1>9, <2>1, SeqDef
<1>f. PICK old : old = results
  OBVIOUS
<1>12. old \in Seq(PageNodes \X (MinScore..TopScore)) /\ Len(old) \in Nat /\ DOMAIN old = 1..Len(old)
  BY <1>f, LenProperties DEF EngineInv, ResultsKnown
<1>13. /\ results' \in Seq(PageNodes \X (MinScore..TopScore))
       /\ DOMAIN results' = 1..(Len(old) + Len(add))
       /\ \A i \in 1..(Len(old) + Len(add)) : results'[i] = IF i <= Len(old) THEN old[i] ELSE add[i - Len(old)]
  <2>a. PICK S : S = PageNodes \X (MinScore..TopScore)
    OBVIOUS
  <2>b. PICK all : all = old \o add
    OBVIOUS
  <2>1. old \in Seq(S) /\ add \in Seq(S)
    BY <1>11, <1>12, <2>a
  <2>2. /\ all \in Seq(S) /\ Len(all) = Len(old) + Len(add)
        /\ \A i \in 1..(Len(old) + Len(add)) : all[i] = IF i <= Len(old) THEN old[i] ELSE add[i - Len(old)]
    BY <2>1, <2>b, ConcatProperties
  <2>3. DOMAIN all = 1..Len(all)
    BY <2>2, LenProperties
  <2> QED
    BY <1>6, <1>f, <2>2, <2>3, <2>a, <2>b
<1>14. ASSUME NEW i \in DOMAIN results'
       PROVE  \/ i \in DOMAIN old /\ results'[i] = old[i]
              \/ i - Len(old) \in DOMAIN add /\ results'[i] = add[i - Len(old)] /\ ~(i \in DOMAIN old)
  BY <1>9, <1>12, <1>13
<1>15. ResultsKnown'
  <2>1. ASSUME way = "tree", NEW i \in DOMAIN results' PROVE results'[i][1] \in Reachable
    <3>1. CASE i \in DOMAIN old /\ results'[i] = old[i]
      BY <1>f, <2>1, <3>1 DEF EngineInv, ResultsKnown
    <3>2. CASE i - Len(old) \in DOMAIN add /\ results'[i] = add[i - Len(old)]
      <4>a. PICK k : k = i - Len(old)
        OBVIOUS
      <4>1. add[k][1] \in Range(b.inputs)
        BY <1>10, <3>2, <4>a
      <4> QED
        BY <1>1, <2>1, <3>2, <4>1, <4>a
    <3> QED
      BY <1>14, <3>1, <3>2
  <2> QED
    BY <1>2, <1>13, <2>1 DEF ResultsKnown
<1>16. ASSUME ~repeated' PROVE Separate'
  <2>1. Separate /\ IsInjective(b.inputs)
    BY <1>1, <1>2, <1>16 DEF EngineInv, Separate
  <2>2. ASSUME NEW k \in DOMAIN add, NEW l \in DOMAIN add, add[k][1] = add[l][1] PROVE k = l
    <3>1. PICK i \in 1..e : add[k] = scored[i] /\ add[k][1] = b.inputs[i]
      BY <1>10
    <3>2. PICK j \in 1..e : add[l] = scored[j] /\ add[l][1] = b.inputs[j]
      BY <1>10
    <3>3. i = j
      BY <1>7, <2>1, <2>2, <3>1, <3>2 DEF IsInjective
    <3>4. IsInjective(scored)
      <4>1. ASSUME NEW x \in DOMAIN scored, NEW y \in DOMAIN scored, scored[x] = scored[y] PROVE x = y
        <5>1. x \in 1..e /\ y \in 1..e
          BY <1>8
        <5>2. top[x] = top[y]
          BY <1>7, <4>1, <5>1
        <5> QED
          BY <1>7, <2>1, <5>1, <5>2 DEF IsInjective
      <4> QED
        BY <4>1 DEF IsInjective
    <3>5. add[k] = add[l]
      BY <3>1, <3>2, <3>3
    <3> QED
      BY <1>9, <3>4, <3>5 DEF IsInjective
  <2>3. ASSUME NEW i \in DOMAIN old, NEW k \in DOMAIN add PROVE old[i][1] # add[k][1]
    BY <1>1, <1>10, <1>f, <2>1 DEF Separate
  <2>4. ASSUME NEW i \in DOMAIN results', NEW j \in DOMAIN results', results'[i][1] = results'[j][1] PROVE i = j
    <3>a. PICK k : k = i - Len(old)
      OBVIOUS
    <3>b. PICK l : l = j - Len(old)
      OBVIOUS
    <3>1. \/ i \in DOMAIN old /\ results'[i] = old[i]
          \/ k \in DOMAIN add /\ results'[i] = add[k] /\ ~(i \in DOMAIN old)
      BY <1>14, <3>a
    <3>2. \/ j \in DOMAIN old /\ results'[j] = old[j]
          \/ l \in DOMAIN add /\ results'[j] = add[l] /\ ~(j \in DOMAIN old)
      BY <1>14, <3>b
    <3>3. CASE i \in DOMAIN old
      <4>1. j \in DOMAIN old /\ old[i][1] = old[j][1]
        BY <2>3, <2>4, <3>1, <3>2, <3>3
      <4> QED
        BY <1>f, <2>1, <3>3, <4>1 DEF Separate
    <3>4. CASE ~(i \in DOMAIN old)
      <4>1. k \in DOMAIN add /\ l \in DOMAIN add /\ add[k][1] = add[l][1]
        BY <2>3, <2>4, <3>1, <3>2, <3>4
      <4>2. k = l
        BY <2>2, <4>1
      <4>3. i \in Nat /\ j \in Nat
        BY <1>13
      <4> QED
        BY <1>12, <3>a, <3>b, <4>2, <4>3
    <3> QED
      BY <3>3, <3>4
  <2>5. ASSUME NEW a \in branches', NEW i \in DOMAIN results' PROVE results'[i][1] \notin Claims(a)
    <3>1. a \in branches /\ a # b
      BY <1>2
    <3>a. PICK k : k = i - Len(old)
      OBVIOUS
    <3>2. CASE i \in DOMAIN old /\ results'[i] = old[i]
      BY <1>f, <2>1, <3>1, <3>2 DEF Separate
    <3>3. CASE k \in DOMAIN add /\ results'[i] = add[k]
      <4>1. add[k][1] \in Claims(b)
        BY <1>1, <1>10, <3>3
      <4>2. Claims(a) \cap Claims(b) = {}
        BY <2>1, <3>1 DEF Separate
      <4> QED
        BY <3>3, <4>1, <4>2
    <3> QED
      BY <1>14, <3>2, <3>3, <3>a
  <2>6. \A a \in branches' : a.pc \in {"verify", "batch"} => IsInjective(a.inputs)
    BY <1>2, <2>1 DEF Separate
  <2>7. \A a, d \in branches' : a # d => Claims(a) \cap Claims(d) = {}
    BY <1>2, <2>1 DEF Separate
  <2> QED
    BY <2>4, <2>5, <2>6, <2>7 DEF Separate, Claims
<1>17. (\A a \in branches' : BranchKnown(a, way')) /\ Progress' /\ ReturnsTheBest'
  BY <1>2 DEF EngineInv, Progress, ReturnsTheBest
<1> QED
  BY <1>2, <1>15, <1>16, <1>17 DEF EngineInv

\* Arranging a sequence by confidence loses nothing and repeats nothing.
LEMMA SortedFacts ==
  ASSUME NEW S, NEW s \in Seq(S), \A k \in 1..Len(s) : s[k][2] \in Int
  PROVE  /\ Sorted(s) \in Seq(S) /\ Len(Sorted(s)) = Len(s) /\ DOMAIN Sorted(s) = 1..Len(s) /\ Len(s) \in Nat
         /\ \A i \in 1..Len(s) : \E k \in 1..Len(s) : Sorted(s)[i] = s[k]
         /\ \A k \in 1..Len(s) : \E i \in 1..Len(s) : Sorted(s)[i] = s[k]
         /\ \A i, j \in 1..Len(s) : i < j => Sorted(s)[i][2] >= Sorted(s)[j][2]
         /\ (\A k, l \in 1..Len(s) : s[k][1] = s[l][1] => k = l)
              => \A i, j \in 1..Len(s) : Sorted(s)[i][1] = Sorted(s)[j][1] => i = j
<1>a. PICK n : n = Len(s)
  OBVIOUS
<1>b. PICK m : m = Sorted(s)
  OBVIOUS
<1>1. n \in Nat /\ DOMAIN s = 1..n /\ \A k \in 1..n : s[k] \in S
  BY <1>a, LenProperties, ElementOfSeq
<1>c. PICK R : R = {p \in (1..n) \X (1..n) : Higher(s, p[1], p[2])}
  OBVIOUS
<1>2. \A i, j \in 1..n : <<i, j>> \in R <=> Higher(s, i, j)
  BY <1>c
<1>d. PICK order : order = Lined(1..n, R)
  OBVIOUS
<1>3. m = [k \in DOMAIN order |-> s[order[k]]]
  BY <1>1, <1>b, <1>c, <1>d DEF Sorted
<1>4. IsFiniteSet(1..n) /\ Cardinality(1..n) = n
  <2>1. 0 \in Int /\ 1 \in Int /\ n \in Int
    BY <1>1
  <2> QED
    BY <1>1, <2>1, FS_Interval
<1>5. \A i \in 1..n : i \in Int /\ s[i][2] \in Int
  BY <1>1, <1>a
<1>6. /\ \A i, j, k \in 1..n : <<i, j>> \in R /\ <<j, k>> \in R => <<i, k>> \in R
      /\ \A i \in 1..n : <<i, i>> \notin R
      /\ \A i, j \in 1..n : i = j \/ <<i, j>> \in R \/ <<j, i>> \in R
  <2>1. ASSUME NEW i \in 1..n, NEW j \in 1..n, NEW k \in 1..n, Higher(s, i, j), Higher(s, j, k)
        PROVE  Higher(s, i, k)
    BY <1>5, <2>1 DEF Higher
  <2>2. ASSUME NEW i \in 1..n PROVE ~Higher(s, i, i)
    BY <1>5 DEF Higher
  <2>3. ASSUME NEW i \in 1..n, NEW j \in 1..n PROVE i = j \/ Higher(s, i, j) \/ Higher(s, j, i)
    BY <1>5 DEF Higher
  <2> QED
    BY <1>2, <2>1, <2>2, <2>3
<1>7. /\ Lined(1..n, R) \in Seq(1..n) /\ DOMAIN Lined(1..n, R) = 1..Cardinality(1..n)
      /\ \A x \in 1..n : \E k \in 1..Cardinality(1..n) : Lined(1..n, R)[k] = x
      /\ \A k, l \in 1..Cardinality(1..n) : k < l <=> <<Lined(1..n, R)[k], Lined(1..n, R)[l]>> \in R
  BY <1>4, <1>6, LinedFacts
<1>8. /\ order \in Seq(1..n) /\ DOMAIN order = 1..n
      /\ \A x \in 1..n : \E k \in 1..n : order[k] = x
      /\ \A k, l \in 1..n : k < l <=> <<order[k], order[l]>> \in R
  BY <1>4, <1>7, <1>d
<1>9. \A k \in 1..n : order[k] \in 1..n /\ m[k] = s[order[k]]
  <2>1. Len(order) = n
    BY <1>1, <1>8, LenProperties
  <2> QED
    BY <1>3, <1>8, <2>1, ElementOfSeq
<1>10. DOMAIN m = 1..n /\ m \in [1..n -> S]
  BY <1>1, <1>3, <1>8, <1>9
<1>11. m \in Seq(S) /\ Len(m) = n
  <2>1. m \in Seq(S)
    BY <1>1, <1>10, SeqDef
  <2> QED
    BY <1>1, <1>10, <2>1, LenProperties
<1>12. ASSUME NEW i \in 1..n, NEW j \in 1..n, i < j PROVE m[i][2] >= m[j][2]
  <2>1. Higher(s, order[i], order[j])
    BY <1>2, <1>8, <1>9, <1>12
  <2>2. s[order[i]][2] \in Int /\ s[order[j]][2] \in Int
    BY <1>5, <1>9
  <2>3. s[order[i]][2] > s[order[j]][2] \/ s[order[i]][2] = s[order[j]][2]
    BY <2>1 DEF Higher
  <2>4. s[order[i]][2] >= s[order[j]][2]
    BY <2>2, <2>3
  <2>5. m[i] = s[order[i]] /\ m[j] = s[order[j]]
    BY <1>9
  <2> QED
    BY <2>4, <2>5
<1>13. \A i \in 1..n : \E k \in 1..n : m[i] = s[k]
  BY <1>9
<1>14. ASSUME NEW k \in 1..n PROVE \E i \in 1..n : m[i] = s[k]
  <2>1. PICK i \in 1..n : order[i] = k
    BY <1>8
  <2> QED
    BY <1>9, <2>1
<1>15. ASSUME \A k, l \in 1..n : s[k][1] = s[l][1] => k = l, NEW i \in 1..n, NEW j \in 1..n, m[i][1] = m[j][1]
       PROVE  i = j
  <2>1. order[i] = order[j]
    BY <1>9, <1>15
  <2>2. ~(i < j) /\ ~(j < i)
    BY <1>6, <1>8, <1>9, <2>1
  <2> QED
    BY <1>1, <2>2
<1> QED
  BY <1>1, <1>10, <1>11, <1>12, <1>13, <1>14, <1>15, <1>a, <1>b

\* The answer is the first of the arranged results.
LEMMA RespondKept ==
  ASSUME EngineInv, Respond
  PROVE  EngineInv'
<1>1. UNCHANGED <<way, branches, results, halted, failed, repeated>> /\ branches = {} /\ way # "none"
  BY DEF Respond
<1>2. Flags' /\ Progress' /\ ResultsKnown' /\ (\A b \in branches' : BranchKnown(b, way')) /\ (~repeated' => Separate')
  BY <1>1 DEF EngineInv, Flags, Progress, ResultsKnown, Separate, Claims
<1>3. ASSUME response' # <<>>, response'[1] = "ok" PROVE ReturnsTheBest'
  <2>0. ~failed /\ response' = <<"ok", Best(results)>>
    <3>1. ~failed
      BY <1>3 DEF Respond
    <3> QED
      BY <3>1 DEF Respond
  <2>c. PICK page : page = Best(results)
    OBVIOUS
  <2>1. response' = <<"ok", page>>
    BY <2>0, <2>c
  <2>2. response'[2] = page
    BY <2>1
  <2>a. PICK n : n = Len(results)
    OBVIOUS
  <2>3. results \in Seq(PageNodes \X (MinScore..TopScore)) /\ n \in Nat /\ DOMAIN results = 1..n
    BY <2>a, LenProperties DEF EngineInv, ResultsKnown
  <2>d. PICK m : m = Sorted(results)
    OBVIOUS
  <2>4. page = SubSeq(m, 1, Min({MaxResults, n}))
    BY <2>a, <2>c, <2>d DEF Best
  <2>5. /\ Len(m) = n /\ DOMAIN m = 1..n
        /\ \A i \in 1..n : \E k \in 1..n : m[i] = results[k]
        /\ \A k \in 1..n : \E i \in 1..n : m[i] = results[k]
        /\ \A i, j \in 1..n : i < j => m[i][2] >= m[j][2]
        /\ (\A k, l \in 1..n : results[k][1] = results[l][1] => k = l)
             => \A i, j \in 1..n : m[i][1] = m[j][1] => i = j
        /\ m \in Seq(PageNodes \X (MinScore..TopScore))
    <3>a. PICK S : S = PageNodes \X (MinScore..TopScore)
      OBVIOUS
    <3>b. PICK s : s = results
      OBVIOUS
    <3>1. s \in Seq(S) /\ Len(s) = n
      BY <2>3, <2>a, <3>a, <3>b
    <3>2. \A k \in 1..Len(s) : s[k][2] \in Int
      <4>1. MinScore \in Int /\ TopScore \in Int
        BY EngineAssumption
      <4>2. \A k \in 1..Len(s) : s[k] \in S
        BY <3>1, ElementOfSeq
      <4> QED
        BY <3>a, <4>1, <4>2
    <3>3. /\ Sorted(s) \in Seq(S) /\ Len(Sorted(s)) = Len(s) /\ DOMAIN Sorted(s) = 1..Len(s) /\ Len(s) \in Nat
          /\ \A i \in 1..Len(s) : \E k \in 1..Len(s) : Sorted(s)[i] = s[k]
          /\ \A k \in 1..Len(s) : \E i \in 1..Len(s) : Sorted(s)[i] = s[k]
          /\ \A i, j \in 1..Len(s) : i < j => Sorted(s)[i][2] >= Sorted(s)[j][2]
          /\ (\A k, l \in 1..Len(s) : s[k][1] = s[l][1] => k = l)
               => \A i, j \in 1..Len(s) : Sorted(s)[i][1] = Sorted(s)[j][1] => i = j
      BY <3>1, <3>2, SortedFacts
    <3>4. m = Sorted(s) /\ Len(s) = n
      BY <2>d, <3>1, <3>b
    <3> QED
      BY <3>3, <3>4, <3>a, <3>b
  <2>b. PICK e : e = Min({MaxResults, n})
    OBVIOUS
  <2>6. e \in Nat /\ e <= n
    <3>1. MaxResults \in Nat /\ MaxResults \in Int /\ n \in Int
      BY <2>3, EngineAssumption
    <3>2. e = IF MaxResults <= n THEN MaxResults ELSE n
      BY <2>b, <3>1, MinOfTwo
    <3> QED
      BY <2>3, <3>1, <3>2
  <2>7. page = SubSeq(m, 1, e)
    BY <2>4, <2>b
  <2>8. Len(page) = e /\ DOMAIN page = 1..e /\ \A i \in 1..e : page[i] = m[i] /\ i \in 1..n
    <3>a. PICK S : S = PageNodes \X (MinScore..TopScore)
      OBVIOUS
    <3>1. \A i \in 1..e : i \in 1..n /\ m[i] \in S
      BY <2>5, <2>6, <2>3, <3>a, ElementOfSeq
    <3>2. page \in Seq(S) /\ Len(page) = (IF 1 <= e THEN e - 1 + 1 ELSE 0)
          /\ \A i \in 1..(e - 1 + 1) : page[i] = m[1 + i - 1]
      BY <2>6, <2>7, <3>1, SubSeqProperties
    <3>3. Len(page) = e /\ e - 1 + 1 = e /\ \A i \in 1..e : 1 + i - 1 = i
      BY <2>6, <3>2
    <3>4. DOMAIN page = 1..e
      BY <3>2, <3>3, LenProperties
    <3> QED
      BY <3>1, <3>2, <3>3, <3>4
  <2>9. ASSUME NEW i \in DOMAIN page
        PROVE  page[i] \in Range(results) /\ (way = "tree" => page[i][1] \in Reachable)
    <3>0. i \in 1..n /\ page[i] = m[i]
      BY <2>8
    <3>a. \A x \in 1..n : \E k \in 1..n : m[x] = results[k]
      BY <2>5
    <3>1. PICK k \in 1..n : m[i] = results[k]
      BY <3>0, <3>a
    <3> QED
      BY <2>3, <3>0, <3>1 DEF Range, EngineInv, ResultsKnown
  <2>10. ASSUME NEW i \in DOMAIN page, NEW r \in Range(results) PROVE r \in Range(page) \/ r[2] <= page[i][2]
    <3>1. PICK k \in 1..n : r = results[k]
      BY <2>3 DEF Range
    <3>2. PICK j \in 1..n : m[j] = r
      BY <2>5, <3>1
    <3>3. CASE j <= e
      <4>1. j \in DOMAIN page /\ page[j] = r
        BY <2>3, <2>6, <2>8, <3>2, <3>3
      <4> QED
        BY <4>1 DEF Range
    <3>4. CASE ~(j <= e)
      <4>1. i \in 1..n /\ i < j /\ page[i] = m[i]
        BY <2>3, <2>6, <2>8, <3>4
      <4>2. m[i][2] >= r[2]
        BY <2>5, <3>2, <4>1
      <4>3. m[i][2] \in Int /\ r[2] \in Int
        <5>1. MinScore \in Int /\ TopScore \in Int
          BY EngineAssumption
        <5>2. m[i] \in PageNodes \X (MinScore..TopScore) /\ m[j] \in PageNodes \X (MinScore..TopScore)
          BY <2>5, <4>1, ElementOfSeq
        <5>3. m[i][2] \in MinScore..TopScore /\ m[j][2] \in MinScore..TopScore
          BY <5>2
        <5> QED
          BY <3>2, <5>1, <5>3
      <4> QED
        BY <4>1, <4>2, <4>3
    <3> QED
      BY <3>3, <3>4
  <2>11. repeated \/ \A i, j \in DOMAIN page : page[i][1] = page[j][1] => i = j
    <3>1. ASSUME ~repeated PROVE \A k, l \in 1..n : results[k][1] = results[l][1] => k = l
      BY <2>3, <3>1 DEF EngineInv, Separate
    <3>2. ASSUME ~repeated PROVE \A i, j \in 1..n : m[i][1] = m[j][1] => i = j
      BY <2>5, <3>1, <3>2
    <3> QED
      BY <2>8, <3>2
  <2> QED
    BY <1>1, <2>2, <2>8, <2>9, <2>10, <2>11, <2>a, <2>b DEF ReturnsTheBest
<1>4. ReturnsTheBest'
  BY <1>3 DEF ReturnsTheBest
<1> QED
  BY <1>2, <1>4 DEF EngineInv

\* The root is where a search starts.
LEMMA RootKnown ==
  ASSUME NEW w
  PROVE  LET b == Branch(<<>>, RootNode)
         IN  BranchKnown(b, w) /\ Len(b.at) = 0 /\ b.pc = "visit"
<1>a. PICK b : b = Branch(<<>>, RootNode)
  OBVIOUS
<1>1. b = [at |-> <<>>, node |-> RootNode, pc |-> "visit", inputs |-> <<>>]
  BY <1>a DEF Branch
<1>2. b.at = <<>> /\ b.node = RootNode /\ b.pc = "visit" /\ b.inputs = <<>>
      /\ b = [at |-> b.at, node |-> b.node, pc |-> b.pc, inputs |-> b.inputs]
  BY <1>1
<1>3. <<>> \in Seq(Nat) /\ <<>> \in Seq(PageNodes) /\ Len(<<>>) = 0
  BY EmptySeq
<1>4. RootNode \in PageNodes /\ MaxDepth \in Nat
  BY EngineAssumption
<1>5. WayTo(RootNode, 0)
  <2>a. PICK path : path = [i \in 0..0 |-> RootNode]
    OBVIOUS
  <2>1. path \in [0..0 -> PageNodes] /\ path[0] = RootNode /\ \A i \in 1..0 : path[i] \in Kids(path[i - 1])
    BY <1>4, <2>a
  <2> QED
    BY <2>1 DEF WayTo
<1>6. BranchKnown(b, w)
  BY <1>2, <1>3, <1>4, <1>5 DEF BranchKnown
<1> QED
  BY <1>2, <1>3, <1>6, <1>a

\* A search starts with one traversal, or ends at once.
LEMMA StartKept ==
  ASSUME EngineInv, way = "none", NEW b, way' \in {"tree", "hits"}, UNCHANGED <<results, halted, failed, repeated>>,
         BranchKnown(b, way'), b.pc = "batch" => IsInjective(b.inputs), b.pc \in {"visit", "batch"},
         \/ response' = <<"ok", <<>>>> /\ UNCHANGED branches
         \/ branches' = {b} /\ UNCHANGED response
  PROVE  EngineInv'
<1>1. branches = {} /\ results = <<>> /\ response = <<>> /\ way' # "none" /\ results' = <<>>
  BY DEF EngineInv, Progress
<1>2. Flags'
  BY DEF EngineInv, Flags
<1>3. <<>> \in Seq(PageNodes \X (MinScore..TopScore)) /\ DOMAIN <<>> = {} /\ Len(<<>>) = 0
  BY EmptySeq
<1>4. ResultsKnown' /\ Progress' /\ (\A a \in branches' : BranchKnown(a, way'))
  BY <1>1, <1>3 DEF ResultsKnown, Progress
<1>5. Separate'
  BY <1>1, <1>3 DEF Separate, Claims
<1>6. CASE branches' = {b} /\ UNCHANGED response
  BY <1>1, <1>2, <1>4, <1>5, <1>6 DEF EngineInv, ReturnsTheBest
<1>7. CASE response' = <<"ok", <<>>>>
  <2>1. response'[2] = <<>> /\ Min({MaxResults, 0}) = 0
    BY <1>7, EngineAssumption, MinOfTwo
  <2>2. ReturnsTheBest'
    BY <1>1, <1>3, <2>1 DEF ReturnsTheBest
  <2> QED
    BY <1>2, <1>4, <1>5, <2>2 DEF EngineInv
<1> QED
  BY <1>6, <1>7

\* The fast path starts with the hits of this document, each once.
LEMMA HitsKept ==
  ASSUME EngineInv, NEW hits \in SeqOf(PageNodes \cup {Foreign}, 2), IsInjective(hits), VerifyBm25Hits(hits)
  PROVE  EngineInv'
<1>a. PICK nodes : nodes = HitNodes(hits)
  OBVIOUS
<1>b. PICK root : root = Branch(<<>>, RootNode)
  OBVIOUS
<1>1. hits \in Seq(PageNodes \cup {Foreign})
  <2>1. PICK n \in 0..2 : hits \in [1..n -> PageNodes \cup {Foreign}]
    BY DEF SeqOf
  <2>2. n \in Nat
    OBVIOUS
  <2> QED
    BY <2>1, <2>2, SeqDef
<1>2. nodes \in Seq(PageNodes) /\ IsInjective(nodes)
  <2>1. nodes \in Seq(PageNodes \cup {Foreign}) /\ Range(nodes) \subseteq PageNodes /\ IsInjective(nodes)
        /\ Len(nodes) \in Nat /\ DOMAIN nodes = 1..Len(nodes)
    BY <1>1, <1>a, OnlyFacts DEF HitNodes
  <2>2. nodes \in [1..Len(nodes) -> PageNodes]
    <3>1. nodes \in [1..Len(nodes) -> PageNodes \cup {Foreign}]
      BY <2>1, LenProperties
    <3>2. \A i \in 1..Len(nodes) : nodes[i] \in PageNodes
      BY <2>1 DEF Range
    <3> QED
      BY <3>1, <3>2
  <2> QED
    BY <2>1, <2>2, SeqDef
<1>3. BranchKnown(root, "tree") /\ BranchKnown(root, "hits") /\ Len(root.at) = 0 /\ root.pc = "visit"
  BY <1>b, RootKnown
<1>4. /\ way = "none" /\ way' = (IF nodes = <<>> THEN "tree" ELSE "hits")
      /\ UNCHANGED <<results, halted, failed, repeated>>
      /\ \/ response' = <<"ok", <<>>>> /\ UNCHANGED branches
         \/ /\ branches' = {IF nodes = <<>> THEN root ELSE Waiting(root, "batch", nodes)}
            /\ UNCHANGED response
  BY <1>a, <1>b DEF VerifyBm25Hits
<1>5. CASE nodes = <<>>
  BY <1>3, <1>4, <1>5, StartKept
<1>6. CASE nodes # <<>>
  <2>a. PICK b : b = Waiting(root, "batch", nodes)
    OBVIOUS
  <2>b. root = [at |-> root.at, node |-> root.node, pc |-> root.pc, inputs |-> root.inputs]
        /\ root.at \in Seq(Nat) /\ root.node \in PageNodes
    BY <1>3 DEF BranchKnown
  <2>c. PICK at, node, q, t : root = [at |-> at, node |-> node, pc |-> q, inputs |-> t]
    BY <2>b
  <2>1. b = [at |-> at, node |-> node, pc |-> "batch", inputs |-> nodes]
    BY <2>a, <2>c DEF Waiting
  <2>2. root.at = at /\ root.node = node
    BY <2>c
  <2>3. b.at = at /\ b.node = node /\ b.pc = "batch" /\ b.inputs = nodes
    BY <2>1
  <2>4. b = [at |-> b.at, node |-> b.node, pc |-> b.pc, inputs |-> b.inputs]
    BY <2>1, <2>3
  <2>5. Len(b.at) = 0 /\ MaxDepth \in Nat
    BY <1>3, <2>2, <2>3, EngineAssumption
  <2>6. BranchKnown(b, "hits")
    BY <1>2, <2>2, <2>3, <2>4, <2>5, <2>b DEF BranchKnown
  <2> QED
    BY <1>2, <1>4, <1>6, <2>3, <2>6, <2>a, StartKept
<1> QED
  BY <1>5, <1>6

\* Every step of a search keeps what is known of it.
LEMMA EngineKept == EngineInv /\ [EngineNext]_engineVars => EngineInv'
<1> SUFFICES ASSUME EngineInv, [EngineNext]_engineVars PROVE EngineInv'
  OBVIOUS
<1>1. CASE UNCHANGED <<way, branches, results, repeated, response>> /\ Flags'
  BY <1>1 DEF EngineInv, Progress, ResultsKnown, Separate, Claims, ReturnsTheBest
<1>2. CASE SearchDocument
  <2>1. BranchKnown(Branch(<<>>, RootNode), "tree") /\ Branch(<<>>, RootNode).pc = "visit"
    BY RootKnown
  <2>2. way = "none" /\ way' = "tree" /\ UNCHANGED <<results, halted, failed, repeated>>
        /\ (\/ response' = <<"ok", <<>>>> /\ UNCHANGED branches
            \/ branches' = {Branch(<<>>, RootNode)} /\ UNCHANGED response)
    BY <1>2 DEF SearchDocument
  <2> QED
    BY <2>1, <2>2, StartKept
<1>3. ASSUME NEW b \in branches, CallFails(b) PROVE EngineInv'
  BY <1>3, BranchGivesWay DEF CallFails, EngineInv, Flags
<1>4. CASE Halt
  BY <1>1, <1>4 DEF Halt, EngineInv, Flags
<1>5. CASE UNCHANGED engineVars
  BY <1>1, <1>5 DEF engineVars, EngineInv, Flags
<1> QED
  BY <1>2, <1>3, <1>4, <1>5, HitsKept, VisitKept, DecideKept, VerifiedKept, RespondKept DEF EngineNext

\* Before a search nothing is under way.
LEMMA EngineStart == EngineInit => EngineInv
<1> SUFFICES ASSUME EngineInit PROVE EngineInv
  OBVIOUS
<1>1. <<>> \in Seq(PageNodes \X (MinScore..TopScore)) /\ DOMAIN <<>> = {}
  BY EmptySeq
<1> QED
  BY <1>1 DEF EngineInit, EngineInv, Flags, Progress, ResultsKnown, Separate, ReturnsTheBest

\* Traversals stay at nodes of the document, at most one level below the deepest, and results are nodes
\* that were verified as relevant.  (SearchEngine::traverse.)
THEOREM EngineTypeCorrect == EngineSpec => []EngineTypeOK
<1>1. EngineInv => EngineTypeOK
  BY DEF EngineInv, Flags, ResultsKnown, BranchKnown, EngineTypeOK, Depth
<1> QED
  BY <1>1, EngineStart, EngineKept, PTL DEF EngineSpec

\* On any tree, however the traversals interleave and whatever the model answers: a search returns the
\* best of all that was verified as relevant, no more than asked for, nothing below the deepest level,
\* and no node twice unless the model selected one twice.  (engine.rs.)
THEOREM SearchesReturnTheBest == EngineSpec => []ReturnsTheBest
<1>1. EngineInv => ReturnsTheBest
  BY DEF EngineInv
<1> QED
  BY <1>1, EngineStart, EngineKept, PTL DEF EngineSpec

\* Among finitely many numbers is a least one.
LEMMA LeastExists ==
  ASSUME NEW n \in Nat, NEW S \in SUBSET (0..n), S # {}
  PROVE  \E i \in S : \A j \in S : i <= j
<1> DEFINE Under(i) == {k \in 0..n : k < i}
           T == {Under(i) : i \in S}
<1>1. IsWellFoundedOn(StrictSubsetOrdering(0..n), SUBSET (0..n))
  <2>1. IsFiniteSet(0..n)
    BY FS_Interval
  <2> QED
    BY <2>1, FS_StrictSubsetOrderingWellFounded, FS_FiniteSubsetsOfFinite
<1>2. T \subseteq SUBSET (0..n) /\ T # {}
  OBVIOUS
<1>3. PICK x \in T : \A y \in T : <<y, x>> \notin StrictSubsetOrdering(0..n)
  <2> HIDE DEF T
  <2> QED
    BY <1>1, <1>2, WFMin
<1>4. PICK i \in S : x = Under(i)
  BY <1>3
<1>5. \A j \in S : i <= j
  <2> SUFFICES ASSUME NEW j \in S, j < i PROVE FALSE
    OBVIOUS
  <2>1. Under(j) \subseteq Under(i) /\ j \in Under(i) /\ j \notin Under(j)
    OBVIOUS
  <2>2. <<Under(j), Under(i)>> \in StrictSubsetOrdering(0..n)
    BY <2>1 DEF StrictSubsetOrdering
  <2> QED
    BY <1>3, <1>4, <2>2
<1> QED
  BY <1>5

\* The community modules' Min and Max of such numbers are members, and bound the others.
LEMMA MinAndMax ==
  ASSUME NEW n \in Nat, NEW S \in SUBSET (0..n), S # {}
  PROVE  /\ Min(S) \in S /\ \A j \in S : Min(S) <= j
         /\ Max(S) \in S /\ \A j \in S : Max(S) >= j
<1>1. \E i \in S : \A j \in S : i <= j
  BY LeastExists
<1>2. Min(S) \in S /\ \A j \in S : Min(S) <= j
  BY <1>1 DEF Min
<1>a. PICK T : T = {n - i : i \in S}
  OBVIOUS
<1>3. T \in SUBSET (0..n) /\ T # {}
  <2>1. \A i \in S : i \in 0..n /\ n - i \in 0..n
    OBVIOUS
  <2> QED
    BY <1>a, <2>1
<1>4. PICK t \in T : \A u \in T : t <= u
  BY <1>3, LeastExists
<1>5. PICK i \in S : t = n - i
  BY <1>4, <1>a
<1>6. \A j \in S : i >= j
  <2> SUFFICES ASSUME NEW j \in S PROVE i >= j
    OBVIOUS
  <2>1. n - j \in T
    BY <1>a
  <2>2. n - i <= n - j
    BY <1>4, <1>5, <2>1
  <2>3. i \in Int /\ j \in Int
    OBVIOUS
  <2> QED
    BY <2>2, <2>3
<1>7. \E x \in S : \A j \in S : x >= j
  BY <1>6
<1>8. Max(S) \in S /\ \A j \in S : Max(S) >= j
  BY <1>7 DEF Max
<1> QED
  BY <1>2, <1>8

(***************************************************************************)
(* Chunks: every line reaches one                                          *)
(***************************************************************************)

ChunkingSpec == ChunkingInit /\ [][ChunkingNext]_chunkVars

\* Windows move on by a positive step that is at most their size.
LEMMA StepsForward == Overlap \in Nat /\ WindowSize - Overlap \in 1..WindowSize /\ WindowSize \in Nat
<1>1. WindowSize \in Nat /\ MinOverlap \in Nat /\ WindowSize \div 10 \in Nat /\ WindowSize > Overlap
  BY ChunkingAssumption
<1>2. Overlap = IF WindowSize \div 10 >= MinOverlap THEN WindowSize \div 10 ELSE MinOverlap
  BY <1>1, MaxOfTwo DEF Overlap
<1> QED
  BY <1>1, <1>2

\* The windows of a document: each one within it, and every line is in one that the window before does
\* not reach to.
LEMMA WindowsCover ==
  ASSUME NEW n \in Nat \ {0}
  PROVE  /\ \E count \in Nat \ {0} : DOMAIN Windows(n) = 1..count
         /\ \A k \in DOMAIN Windows(n) :
              Windows(n)[k].first \in 1..n /\ Windows(n)[k].last \in Windows(n)[k].first..n
         /\ \A l \in 1..n : \E k \in DOMAIN Windows(n) :
              /\ l \in Windows(n)[k].first..Windows(n)[k].last
              /\ k # 1 => k - 1 \in DOMAIN Windows(n) /\ l > Windows(n)[k - 1].last
<1>a. PICK step : step = WindowSize - Overlap
  OBVIOUS
<1>b. PICK w : w = WindowSize
  OBVIOUS
<1>1. step \in 1..w /\ w \in Nat
  BY <1>a, <1>b, StepsForward
<1>c. PICK Ends : Ends = {k \in 0..n : k * step + w >= n}
  OBVIOUS
<1>2. n \in Ends
  <2>1. n * step >= n
    BY <1>1
  <2> QED
    BY <1>1, <1>c, <2>1
<1>d. PICK end : end = Min(Ends)
  OBVIOUS
<1>3. end \in Ends /\ \A k \in Ends : end <= k
  <2>1. Ends \in SUBSET (0..n) /\ Ends # {}
    BY <1>2, <1>c
  <2> QED
    BY <1>d, <2>1, MinAndMax
<1>4. end \in 0..n /\ end * step + w >= n /\ \A k \in 0..n : k * step + w >= n => end <= k
  BY <1>3, <1>c
<1>e. PICK W : W = Windows(n)
  OBVIOUS
<1>5. W = [k \in 1..(1 + end) |->
             [first  |-> (k - 1) * step + 1, last |-> Min({(k - 1) * step + w, n}),
              cutoff |-> (k - 1) * step + 1 + IF k = 1 THEN 0 ELSE Overlap]]
  BY <1>a, <1>b, <1>c, <1>d, <1>e DEF Windows
<1>6. ASSUME NEW k \in 1..(1 + end)
      PROVE  /\ W[k].first = (k - 1) * step + 1 /\ (k - 1) * step \in Nat
             /\ W[k].last = IF (k - 1) * step + w <= n THEN (k - 1) * step + w ELSE n
  <2>1. (k - 1) * step \in Nat
    BY <1>1, <1>4
  <2>2. (k - 1) * step + w \in Int /\ n \in Int
    BY <1>1, <2>1
  <2>3. Min({(k - 1) * step + w, n}) = IF (k - 1) * step + w <= n THEN (k - 1) * step + w ELSE n
    BY <2>2, MinOfTwo
  <2> QED
    BY <1>5, <2>1, <2>3
<1>7. ASSUME NEW k \in 1..(1 + end) PROVE W[k].first \in 1..n /\ W[k].last \in W[k].first..n
  <2>1. (k - 1) * step + 1 <= n
    <3>1. CASE k = 1
      BY <1>1, <3>1
    <3>2. CASE k # 1
      <4>1. k - 2 \in 0..n /\ ~(end <= k - 2)
        BY <1>4, <3>2
      <4>2. ~((k - 2) * step + w >= n)
        BY <1>4, <4>1
      <4>3. (k - 1) * step = (k - 2) * step + step /\ (k - 2) * step \in Int
        BY <1>1, <4>1
      <4> QED
        BY <1>1, <4>2, <4>3
    <3> QED
      BY <3>1, <3>2
  <2> QED
    BY <1>1, <1>6, <2>1
<1>8. W[1 + end].last = n
  <2>a. PICK m : m = 1 + end
    OBVIOUS
  <2>1. m \in 1..(1 + end) /\ m - 1 = end
    BY <1>4, <2>a
  <2>b. W[m].last = IF (m - 1) * step + w <= n THEN (m - 1) * step + w ELSE n
    BY <1>6, <2>1
  <2>2. W[1 + end].last = IF end * step + w <= n THEN end * step + w ELSE n
    BY <2>1, <2>a, <2>b
  <2>3. end * step \in Int
    BY <1>1, <1>4
  <2> QED
    BY <1>1, <1>4, <2>2, <2>3
<1>9. ASSUME NEW l \in 1..n
      PROVE  \E k \in 1..(1 + end) :
               l \in W[k].first..W[k].last /\ (k # 1 => k - 1 \in 1..(1 + end) /\ l > W[k - 1].last)
  <2>a. PICK K : K = {k \in 1..(1 + end) : l <= W[k].last}
    OBVIOUS
  <2>1. K \in SUBSET (0..(1 + end)) /\ 1 + end \in K /\ 1 + end \in Nat
    BY <1>4, <1>8, <2>a
  <2>2. PICK k \in K : \A j \in K : k <= j
    BY <2>1, LeastExists
  <2>3. k \in 1..(1 + end) /\ l <= W[k].last /\ W[k].last \in Int /\ W[k].first \in Int
    BY <1>7, <2>2, <2>a
  <2>4. CASE k = 1
    <3>1. (k - 1) * step + 1 = 1
      BY <1>1, <2>4
    <3>2. W[k].first = 1
      BY <1>6, <2>3, <3>1
    <3> QED
      BY <2>3, <2>4, <3>2
  <2>5. CASE k # 1
    <3>1. k - 1 \in 1..(1 + end) /\ k - 1 \notin K
      <4>1. k - 1 \in 1..(1 + end) /\ ~(k <= k - 1)
        BY <1>4, <2>3, <2>5
      <4> QED
        BY <2>2, <4>1
    <3>2. l > W[k - 1].last
      BY <1>7, <2>a, <3>1
    <3>3. W[k - 1].last = IF (k - 2) * step + w <= n THEN (k - 2) * step + w ELSE n
      <4>1. k - 1 - 1 = k - 2
        BY <2>3
      <4> QED
        BY <1>6, <3>1, <4>1
    <3>4. (k - 1) * step = (k - 2) * step + step /\ (k - 2) * step \in Int
      BY <1>1, <2>3
    <3>5. W[k].first = (k - 1) * step + 1
      BY <1>6, <2>3
    <3>6. W[k].first <= l
      BY <1>1, <3>2, <3>3, <3>4, <3>5
    <3> QED
      BY <2>3, <3>1, <3>2, <3>6
  <2> QED
    BY <2>4, <2>5
<1>10. DOMAIN W = 1..(1 + end) /\ 1 + end \in Nat \ {0}
  BY <1>4, <1>5
<1> QED
  BY <1>7, <1>9, <1>10, <1>e

IsWindow(w) == w.first \in Nat \ {0} /\ w.last \in Nat /\ w.first <= w.last

GroupsWithin(w) == [first : w.first..w.last, last : w.first..w.last, headed : BOOLEAN]

\* Groups within a window that have all its lines.
Covering(w, a) ==
  /\ a \in Seq(GroupsWithin(w))
  /\ \A l \in w.first..w.last : \E i \in DOMAIN a : l \in a[i].first..a[i].last

\* Groups that follow upon each other from the first line of the window to its last.
Contiguous(w, p) ==
  /\ Covering(w, p) /\ \A i \in DOMAIN p : p[i].first = IF i = 1 THEN w.first ELSE p[i - 1].last + 1

\* The groups between given ends are contiguous.
LEMMA EndsMakeGroups ==
  ASSUME NEW w, IsWindow(w), NEW S \in SUBSET (w.first..(w.last - 1))
  PROVE  Contiguous(w, EndGroups(w, S \cup {w.last}))
<1>a. PICK a : a = w.first
  OBVIOUS
<1>b. PICK b : b = w.last
  OBVIOUS
<1>c. PICK G : G = GroupsWithin(w)
  OBVIOUS
<1>d. PICK E : E = S \cup {w.last}
  OBVIOUS
<1>e. PICK ends : ends = Ascending(E)
  OBVIOUS
<1>f. PICK c : c = Cardinality(E)
  OBVIOUS
<1>g. PICK p : p = EndGroups(w, E)
  OBVIOUS
<1>0. a \in Nat \ {0} /\ b \in Nat /\ a <= b /\ G = [first : a..b, last : a..b, headed : BOOLEAN]
  BY <1>a, <1>b, <1>c DEF GroupsWithin, IsWindow
<1>1. E \in SUBSET (a..b) /\ b \in E /\ E \in SUBSET Int
  <2>1. S \in SUBSET (a..(b - 1)) /\ E = S \cup {b}
    BY <1>a, <1>b, <1>d
  <2> QED
    BY <1>0, <2>1
<1>2. IsFiniteSet(E)
  <2>1. IsFiniteSet(a..b)
    BY <1>0, FS_Interval
  <2> QED
    BY <1>1, <2>1, FS_Subset
<1>3. /\ DOMAIN ends = 1..c /\ c \in Nat /\ \A k \in 1..c : ends[k] \in a..b
      /\ \A x \in E : \E k \in 1..c : ends[k] = x
      /\ \A k, l \in 1..c : k < l <=> ends[k] < ends[l]
  <2>1. /\ DOMAIN Ascending(E) = 1..Cardinality(E) /\ Cardinality(E) \in Nat
        /\ \A x \in E : \E k \in 1..Cardinality(E) : Ascending(E)[k] = x
        /\ \A k \in 1..Cardinality(E) : Ascending(E)[k] \in E
        /\ \A k, l \in 1..Cardinality(E) : k < l <=> Ascending(E)[k] < Ascending(E)[l]
    BY <1>1, <1>2, AscendingFacts
  <2> QED
    BY <1>1, <1>e, <1>f, <2>1
<1>4. p = [i \in 1..c |-> [first |-> IF i = 1 THEN a ELSE ends[i - 1] + 1, last |-> ends[i], headed |-> TRUE]]
  BY <1>3, <1>a, <1>e, <1>g DEF EndGroups
<1>5. ASSUME NEW i \in 1..c
      PROVE  /\ p[i].first = (IF i = 1 THEN a ELSE ends[i - 1] + 1) /\ p[i].last = ends[i]
             /\ p[i] \in G
             /\ i # 1 => i - 1 \in 1..c /\ ends[i - 1] + 1 \in a..b
  <2>a. PICK f : f = IF i = 1 THEN a ELSE ends[i - 1] + 1
    OBVIOUS
  <2>b. PICK e : e = ends[i]
    OBVIOUS
  <2>c. PICK h : h = TRUE
    OBVIOUS
  <2>1. p[i] = [first |-> f, last |-> e, headed |-> h] /\ h \in BOOLEAN
    BY <1>4, <2>a, <2>b, <2>c
  <2>2. ASSUME i # 1 PROVE i - 1 \in 1..c /\ ends[i - 1] + 1 \in a..b
    <3>1. i - 1 \in 1..c /\ i - 1 < i
      BY <1>3, <2>2
    <3>2. ends[i - 1] < ends[i] /\ ends[i - 1] \in a..b /\ ends[i] \in a..b
      BY <1>3, <3>1
    <3>3. ends[i - 1] + 1 \in a..b
      BY <1>0, <3>2
    <3> QED
      BY <3>1, <3>3
  <2>3. f \in a..b
    BY <1>0, <2>2, <2>a
  <2>4. p[i] \in G
    <3>1. e \in a..b
      BY <1>3, <2>b
    <3>2. G = [first : a..b, last : a..b, headed : BOOLEAN]
      BY <1>0
    <3> QED
      BY <2>1, <2>3, <3>1, <3>2
  <2>5. p[i].first = f /\ p[i].last = e
    BY <2>1
  <2> QED
    BY <2>2, <2>4, <2>5, <2>a, <2>b
<1>6. p \in Seq(G) /\ DOMAIN p = 1..c
  <2>1. p \in [1..c -> G]
    BY <1>4, <1>5
  <2>2. c \in Nat
    BY <1>3
  <2>3. DOMAIN p = 1..c
    BY <1>4
  <2> QED
    BY <2>1, <2>2, <2>3, SeqDef
<1>7. ASSUME NEW l \in a..b PROVE \E i \in DOMAIN p : l \in p[i].first..p[i].last
  <2>a. PICK K : K = {k \in 1..c : l <= ends[k]}
    OBVIOUS
  <2>1. K \in SUBSET (0..c) /\ K # {}
    <3>1. PICK k \in 1..c : ends[k] = b
      BY <1>1, <1>3
    <3>2. k \in K
      BY <1>0, <2>a, <3>1
    <3> QED
      BY <1>3, <2>a, <3>2
  <2>2. PICK k \in K : \A j \in K : k <= j
    BY <1>3, <2>1, LeastExists
  <2>3. k \in 1..c /\ l <= ends[k] /\ ends[k] \in a..b
    BY <1>3, <2>2, <2>a
  <2>4. p[k].first <= l /\ p[k].first \in Int
    <3>1. CASE k = 1
      <4>1. p[k].first = a
        BY <1>5, <2>3, <3>1
      <4> QED
        BY <1>0, <4>1
    <3>2. CASE k # 1
      <4>1. k - 1 \in 1..c /\ ~(k <= k - 1)
        BY <1>3, <2>3, <3>2
      <4>2. ~(l <= ends[k - 1])
        BY <2>2, <2>a, <4>1
      <4>3. p[k].first = ends[k - 1] + 1 /\ ends[k - 1] \in a..b
        BY <1>3, <1>5, <2>3, <3>2, <4>1
      <4> QED
        BY <1>0, <4>2, <4>3
    <3> QED
      BY <3>1, <3>2
  <2>5. p[k].last = ends[k]
    BY <1>5, <2>3
  <2>6. l \in p[k].first..p[k].last
    BY <1>0, <2>3, <2>4, <2>5
  <2> QED
    BY <1>6, <2>3, <2>6
<1>8. \A i \in DOMAIN p : p[i].first = IF i = 1 THEN a ELSE p[i - 1].last + 1
  <2> SUFFICES ASSUME NEW i \in 1..c PROVE p[i].first = IF i = 1 THEN a ELSE p[i - 1].last + 1
    BY <1>6
  <2>1. i # 1 => p[i - 1].last = ends[i - 1]
    BY <1>5
  <2> QED
    BY <1>5, <2>1
<1> QED
  BY <1>6, <1>7, <1>8, <1>a, <1>b, <1>c, <1>d, <1>g DEF Contiguous, Covering

\* Filling in what is missing of contiguous groups gives them back, with their headings or without.
LEMMA RepairedCovers ==
  ASSUME NEW w, IsWindow(w), NEW p, Contiguous(w, p), NEW q, DOMAIN q = DOMAIN p,
         \A i \in DOMAIN p : /\ q[i] = [first |-> q[i].first, last |-> p[i].last, headed |-> q[i].headed]
                             /\ q[i].first \in {0, p[i].first} /\ q[i].headed \in BOOLEAN
  PROVE  Covering(w, Repaired(w, q))
<1>a. PICK r : r = Repaired(w, q)
  OBVIOUS
<1>1. p \in Seq(GroupsWithin(w)) /\ DOMAIN p = 1..Len(p) /\ Len(p) \in Nat
  BY LenProperties DEF Contiguous, Covering
<1>2. DOMAIN r = 1..Len(p)
  BY <1>1, <1>a DEF Repaired
<1>3. ASSUME NEW i \in 1..Len(p)
      PROVE  r[i] = [first |-> p[i].first, last |-> p[i].last, headed |-> q[i].headed]
  <2>1. r[i] = [q[i] EXCEPT !.first = IF q[i].first # 0 THEN q[i].first
                                      ELSE IF i = 1 THEN w.first ELSE q[i - 1].last + 1]
    BY <1>1, <1>a DEF Repaired
  <2>2. p[i].first = IF i = 1 THEN w.first ELSE p[i - 1].last + 1
    BY <1>1 DEF Contiguous
  <2>3. i # 1 => q[i - 1].last = p[i - 1].last
    <3>1. i # 1 => i - 1 \in DOMAIN p
      BY <1>1
    <3> QED
      BY <3>1
  <2>4. (IF q[i].first # 0 THEN q[i].first ELSE IF i = 1 THEN w.first ELSE q[i - 1].last + 1) = p[i].first
    BY <1>1, <2>2, <2>3
  <2>5. r[i] = [q[i] EXCEPT !.first = p[i].first]
    BY <2>1, <2>4
  <2>6. q[i] = [first |-> q[i].first, last |-> p[i].last, headed |-> q[i].headed]
    BY <1>1
  <2> QED
    BY <2>5, <2>6
<1>4. ASSUME NEW i \in 1..Len(p) PROVE r[i] \in GroupsWithin(w) /\ r[i].first = p[i].first /\ r[i].last = p[i].last
  <2>a. PICK f : f = p[i].first
    OBVIOUS
  <2>b. PICK l : l = p[i].last
    OBVIOUS
  <2>c. PICK h : h = q[i].headed
    OBVIOUS
  <2>1. p[i] \in GroupsWithin(w) /\ h \in BOOLEAN
    BY <1>1, <2>c, ElementOfSeq
  <2>2. f \in w.first..w.last /\ l \in w.first..w.last
    BY <2>1, <2>a, <2>b DEF GroupsWithin
  <2>3. r[i] = [first |-> f, last |-> l, headed |-> h]
    BY <1>3, <2>a, <2>b, <2>c
  <2>4. r[i] \in GroupsWithin(w)
    BY <2>1, <2>2, <2>3 DEF GroupsWithin
  <2> QED
    BY <2>3, <2>4, <2>a, <2>b
<1>5. r \in Seq(GroupsWithin(w))
  <2>1. r \in [1..Len(p) -> GroupsWithin(w)]
    BY <1>2, <1>4, <1>a DEF Repaired
  <2> QED
    BY <1>1, <2>1, SeqDef
<1>6. \A l \in w.first..w.last : \E i \in DOMAIN r : l \in r[i].first..r[i].last
  BY <1>1, <1>2, <1>4 DEF Contiguous, Covering
<1> QED
  BY <1>5, <1>6, <1>a DEF Covering

\* Groups with their first lines need no repair, in whatever order they are.
LEMMA ReversedCovers ==
  ASSUME NEW w, IsWindow(w), NEW p, Covering(w, p)
  PROVE  Covering(w, Repaired(w, Reverse(p)))
<1>a. PICK r : r = Repaired(w, Reverse(p))
  OBVIOUS
<1>b. PICK n : n = Len(p)
  OBVIOUS
<1>1. p \in Seq(GroupsWithin(w)) /\ DOMAIN p = 1..n /\ n \in Nat
  BY <1>b, LenProperties DEF Covering
<1>2. DOMAIN r = 1..n
  BY <1>1, <1>a, <1>b DEF Repaired, Reverse
<1>3. ASSUME NEW i \in 1..n PROVE n - i + 1 \in 1..n /\ r[i] = p[n - i + 1] /\ p[n - i + 1] \in GroupsWithin(w)
  <2>1. n - i + 1 \in 1..n
    BY <1>1
  <2>c. PICK g : g = p[n - i + 1]
    OBVIOUS
  <2>2. g \in GroupsWithin(w)
    BY <1>1, <1>b, <2>1, <2>c, ElementOfSeq
  <2>3. Reverse(p)[i] = g /\ DOMAIN Reverse(p) = 1..n
    BY <1>1, <1>b, <2>c DEF Reverse
  <2>4. g.first # 0
    BY <2>2 DEF GroupsWithin, IsWindow
  <2>5. r[i] = [g EXCEPT !.first = g.first]
    BY <1>a, <2>3, <2>4 DEF Repaired
  <2> QED
    BY <2>1, <2>2, <2>5, <2>c DEF GroupsWithin
<1>4. r \in Seq(GroupsWithin(w))
  <2>1. r \in [1..n -> GroupsWithin(w)]
    BY <1>2, <1>3, <1>a DEF Repaired
  <2> QED
    BY <1>1, <2>1, SeqDef
<1>5. ASSUME NEW l \in w.first..w.last PROVE \E i \in DOMAIN r : l \in r[i].first..r[i].last
  <2>1. PICK k \in 1..n : l \in p[k].first..p[k].last
    BY <1>1 DEF Covering
  <2>a. PICK i : i = n - k + 1
    OBVIOUS
  <2>2. i \in 1..n /\ n - i + 1 = k
    BY <1>1, <2>a
  <2>3. r[i] = p[k]
    BY <1>3, <2>2
  <2> QED
    BY <1>2, <2>1, <2>2, <2>3
<1> QED
  BY <1>4, <1>5, <1>a DEF Covering

\* Whatever the model returns for a window: after the repair its groups have all lines of the window.
LEMMA RepliesCover ==
  ASSUME NEW w, IsWindow(w),
         NEW reply \in Replies(w) \cup {Single(w)}
  PROVE  Covering(w, Repaired(w, reply))
<1>1. \A p \in Groupings(w) : Contiguous(w, p)
  <2> SUFFICES ASSUME NEW p \in Groupings(w) PROVE Contiguous(w, p)
    OBVIOUS
  <2>1. PICK S \in SUBSET (w.first..(w.last - 1)) : p = EndGroups(w, S \cup {w.last})
    BY DEF Groupings
  <2> QED
    BY <2>1, EndsMakeGroups
<1>2. \/ reply = Single(w) \/ reply \in Groupings(w)
      \/ \E p \in Groupings(w) : reply = Reverse(p)
      \/ \E p \in Groupings(w) : \E k \in DOMAIN p : reply = [p EXCEPT ![k].headed = FALSE] \/ reply = [p EXCEPT ![k].first = 0]
      \/ \E p \in Groupings(w) : reply = [i \in DOMAIN p |-> [p[i] EXCEPT !.first = 0]]
  <2>1. ASSUME reply \in Replies(w)
        PROVE  \E p \in Groupings(w) : reply = p \/ reply = Reverse(p) \/ reply \in Careless(p)
    BY <2>1 DEF Replies
  <2>2. ASSUME NEW p, reply \in Careless(p)
        PROVE  \/ \E k \in DOMAIN p : reply = [p EXCEPT ![k].headed = FALSE] \/ reply = [p EXCEPT ![k].first = 0]
               \/ reply = [i \in DOMAIN p |-> [p[i] EXCEPT !.first = 0]]
    BY <2>2 DEF Careless
  <2> QED
    BY <2>1, <2>2
<1>3. ASSUME NEW p \in Groupings(w)
      PROVE  /\ Contiguous(w, p)
             /\ \A i \in DOMAIN p :
                  /\ p[i] = [first |-> p[i].first, last |-> p[i].last, headed |-> p[i].headed]
                  /\ p[i].first \in {0, p[i].first} /\ p[i].headed \in BOOLEAN
  <2>1. Contiguous(w, p) /\ p \in Seq(GroupsWithin(w))
    BY <1>1 DEF Contiguous, Covering
  <2>2. \A i \in DOMAIN p : p[i] \in GroupsWithin(w)
    BY <2>1, LenProperties, ElementOfSeq
  <2> QED
    BY <2>1, <2>2 DEF GroupsWithin
<1>4. CASE reply \in Groupings(w)
  BY <1>3, <1>4, RepairedCovers
<1>5. CASE \E p \in Groupings(w) : reply = Reverse(p)
  BY <1>3, <1>5, ReversedCovers DEF Contiguous
<1>6. ASSUME NEW p \in Groupings(w), NEW k \in DOMAIN p, reply = [p EXCEPT ![k].headed = FALSE]
      PROVE  Covering(w, Repaired(w, reply))
  <2>a. PICK v : v = FALSE
    OBVIOUS
  <2>1. DOMAIN reply = DOMAIN p
    BY <1>6
  <2>2. \A i \in DOMAIN p : reply[i] = IF i = k THEN [p[i] EXCEPT !.headed = v] ELSE p[i]
    BY <1>6, <2>a
  <2>3. ASSUME NEW i \in DOMAIN p
        PROVE  /\ reply[i] = [first |-> reply[i].first, last |-> p[i].last, headed |-> reply[i].headed]
               /\ reply[i].first \in {0, p[i].first} /\ reply[i].headed \in BOOLEAN
    <3>a. PICK f : f = p[i].first
      OBVIOUS
    <3>b. PICK l : l = p[i].last
      OBVIOUS
    <3>c. PICK h : h = p[i].headed
      OBVIOUS
    <3>1. p[i] = [first |-> f, last |-> l, headed |-> h] /\ h \in BOOLEAN
      BY <1>3, <3>a, <3>b, <3>c
    <3>2. CASE i = k
      <4>1. reply[i] = [first |-> f, last |-> l, headed |-> v]
        BY <2>2, <3>1, <3>2
      <4>2. reply[i].first = f /\ reply[i].last = l /\ reply[i].headed = v
        BY <4>1
      <4>3. reply[i] = [first |-> reply[i].first, last |-> p[i].last, headed |-> reply[i].headed]
        BY <4>1, <4>2, <3>b
      <4> QED
        BY <2>a, <3>a, <4>2, <4>3
    <3>3. CASE i # k
      <4>1. reply[i] = [first |-> f, last |-> l, headed |-> h]
        BY <2>2, <3>1, <3>3
      <4> QED
        BY <3>1, <3>a, <3>b, <4>1
    <3> QED
      BY <3>2, <3>3
  <2> QED
    BY <1>3, <2>1, <2>3, RepairedCovers
<1>7. ASSUME NEW p \in Groupings(w), NEW k \in DOMAIN p, reply = [p EXCEPT ![k].first = 0]
      PROVE  Covering(w, Repaired(w, reply))
  <2>1. DOMAIN reply = DOMAIN p
    BY <1>7
  <2>2. \A i \in DOMAIN p : reply[i] = IF i = k THEN [p[i] EXCEPT !.first = 0] ELSE p[i]
    BY <1>7
  <2>3. ASSUME NEW i \in DOMAIN p
        PROVE  /\ reply[i] = [first |-> reply[i].first, last |-> p[i].last, headed |-> reply[i].headed]
               /\ reply[i].first \in {0, p[i].first} /\ reply[i].headed \in BOOLEAN
    <3>a. PICK f : f = p[i].first
      OBVIOUS
    <3>b. PICK l : l = p[i].last
      OBVIOUS
    <3>c. PICK h : h = p[i].headed
      OBVIOUS
    <3>1. p[i] = [first |-> f, last |-> l, headed |-> h] /\ h \in BOOLEAN
      BY <1>3, <3>a, <3>b, <3>c
    <3>2. CASE i = k
      <4>1. reply[i] = [first |-> 0, last |-> l, headed |-> h]
        BY <2>2, <3>1, <3>2
      <4> QED
        BY <3>1, <3>b, <4>1
    <3>3. CASE i # k
      <4>1. reply[i] = [first |-> f, last |-> l, headed |-> h]
        BY <2>2, <3>1, <3>3
      <4> QED
        BY <3>1, <3>a, <3>b, <4>1
    <3> QED
      BY <3>2, <3>3
  <2> QED
    BY <1>3, <2>1, <2>3, RepairedCovers
<1>8. ASSUME NEW p \in Groupings(w), reply = [i \in DOMAIN p |-> [p[i] EXCEPT !.first = 0]]
      PROVE  Covering(w, Repaired(w, reply))
  <2>1. DOMAIN reply = DOMAIN p
    BY <1>8
  <2>2. \A i \in DOMAIN p : reply[i] = [p[i] EXCEPT !.first = 0]
    BY <1>8
  <2>3. ASSUME NEW i \in DOMAIN p
        PROVE  /\ reply[i] = [first |-> reply[i].first, last |-> p[i].last, headed |-> reply[i].headed]
               /\ reply[i].first \in {0, p[i].first} /\ reply[i].headed \in BOOLEAN
    <3>a. PICK f : f = p[i].first
      OBVIOUS
    <3>b. PICK l : l = p[i].last
      OBVIOUS
    <3>c. PICK h : h = p[i].headed
      OBVIOUS
    <3>1. p[i] = [first |-> f, last |-> l, headed |-> h] /\ h \in BOOLEAN
      BY <1>3, <3>a, <3>b, <3>c
    <3>2. reply[i] = [first |-> 0, last |-> l, headed |-> h]
      BY <2>2, <3>1
    <3> QED
      BY <3>1, <3>2, <3>a, <3>b
  <2> QED
    BY <1>3, <2>1, <2>3, RepairedCovers
<1>9. CASE reply = Single(w)
  <2>a. PICK g : g = [first |-> w.first, last |-> w.last, headed |-> FALSE]
    OBVIOUS
  <2>1. g \in GroupsWithin(w) /\ g.first = w.first /\ g.last = w.last
    <3>1. w.first \in w.first..w.last /\ w.last \in w.first..w.last
      BY DEF IsWindow
    <3>2. g \in [first : w.first..w.last, last : w.first..w.last, headed : BOOLEAN]
      <4>a. PICK I : I = w.first..w.last
        OBVIOUS
      <4>b. PICK h : h = FALSE
        OBVIOUS
      <4>1. h \in BOOLEAN /\ w.first \in I /\ w.last \in I /\ g = [first |-> w.first, last |-> w.last, headed |-> h]
        BY <2>a, <3>1, <4>a, <4>b
      <4>2. g \in [first : I, last : I, headed : BOOLEAN]
        BY <4>1
      <4> QED
        BY <4>2, <4>a
    <3> QED
      BY <2>a, <3>2 DEF GroupsWithin
  <2>2. reply = <<g>> /\ <<g>> \in Seq(GroupsWithin(w)) /\ DOMAIN <<g>> = {1} /\ <<g>>[1] = g
    BY <1>9, <2>1, <2>a DEF Single
  <2>3. Contiguous(w, reply)
    <3>1. \A i \in DOMAIN reply : reply[i].first = IF i = 1 THEN w.first ELSE reply[i - 1].last + 1
      BY <2>1, <2>2
    <3>2. \A l \in w.first..w.last : \E i \in DOMAIN reply : l \in reply[i].first..reply[i].last
      BY <2>1, <2>2
    <3> QED
      BY <2>2, <3>1, <3>2 DEF Contiguous, Covering
  <2>4. \A i \in DOMAIN reply :
          /\ reply[i] = [first |-> reply[i].first, last |-> reply[i].last, headed |-> reply[i].headed]
          /\ reply[i].first \in {0, reply[i].first} /\ reply[i].headed \in BOOLEAN
    <3>1. \A i \in DOMAIN reply : i = 1 /\ reply[i] = g
      BY <2>2
    <3>2. g = [first |-> g.first, last |-> g.last, headed |-> g.headed] /\ g.headed \in BOOLEAN
      BY <2>a
    <3> QED
      BY <3>1, <3>2
  <2> QED
    BY <2>3, <2>4, RepairedCovers
<1> QED
  BY <1>2, <1>4, <1>5, <1>6, <1>7, <1>8, <1>9

\* A document has lines, and the answers so far have all lines of their windows.
TextTyped == text.lines \in 0..MaxLines /\ text.blank \in SUBSET (1..text.lines)

AnswersCover == DOMAIN answers \subseteq DOMAIN Plan /\ \A k \in DOMAIN answers : Covering(Plan[k], answers[k])

\* The windows of the document lie within it; there are none only when it has no lines.
LEMMA PlanWithin ==
  ASSUME TextTyped
  PROVE  /\ \E count \in Nat : DOMAIN Plan = 1..count
         /\ \A k \in DOMAIN Plan : IsWindow(Plan[k]) /\ Plan[k].last <= text.lines
         /\ text.lines # 0 => DOMAIN Plan # {}
<1>a. PICK n : n = text.lines
  OBVIOUS
<1>1. n \in Nat
  <2>1. MaxLines \in Nat
    BY ChunkingAssumption
  <2> QED
    BY <1>a, <2>1 DEF TextTyped
<1>2. CASE n = 0
  <2>1. DOMAIN Plan = 1..0
    BY <1>2, <1>a DEF Plan, Windows
  <2> QED
    BY <1>2, <1>a, <2>1
<1>3. CASE n # 0
  <2>1. /\ \E count \in Nat \ {0} : DOMAIN Plan = 1..count
        /\ \A k \in DOMAIN Plan : Plan[k].first \in 1..n /\ Plan[k].last \in Plan[k].first..n
    BY <1>1, <1>3, <1>a, WindowsCover DEF Plan
  <2>2. ASSUME NEW k \in DOMAIN Plan PROVE IsWindow(Plan[k]) /\ Plan[k].last <= n
    <3>1. PICK a : a = Plan[k].first
      OBVIOUS
    <3>2. PICK b : b = Plan[k].last
      OBVIOUS
    <3>3. a \in 1..n /\ b \in a..n
      BY <2>1, <3>1, <3>2
    <3> QED
      BY <1>1, <3>1, <3>2, <3>3 DEF IsWindow
  <2> QED
    BY <2>1, <2>2, <1>a
<1> QED
  BY <1>2, <1>3

\* A line with text is in a group that is kept, or lost at a seam.
LEMMA GroupsCarry ==
  ASSUME TextTyped, AnswersCover, DOMAIN answers = DOMAIN Plan, text.lines > 0, NEW l \in SourceText
  PROVE  AtSeam(l) \/ \E k \in DOMAIN Plan : \E i \in Kept(k) : l \in ChunkOf(answers[k][i]).lines
<1>a. PICK n : n = text.lines
  OBVIOUS
<1>1. n \in Nat \ {0} /\ l \in 1..n /\ l \notin text.blank
  <2>1. MaxLines \in Nat
    BY ChunkingAssumption
  <2> QED
    BY <1>a, <2>1 DEF TextTyped, SourceText
<1>2. PICK k \in DOMAIN Plan : /\ l \in Plan[k].first..Plan[k].last
                               /\ k # 1 => k - 1 \in DOMAIN Plan /\ l > Plan[k - 1].last
  BY <1>1, <1>a, WindowsCover DEF Plan
<1>3. Covering(Plan[k], answers[k]) /\ IsWindow(Plan[k]) /\ Plan[k].last <= n
  BY <1>a, PlanWithin DEF AnswersCover
<1>4. PICK i \in DOMAIN answers[k] : l \in answers[k][i].first..answers[k][i].last
  BY <1>2, <1>3 DEF Covering
<1>b. PICK g : g = answers[k][i]
  OBVIOUS
<1>5. g \in GroupsWithin(Plan[k])
  BY <1>3, <1>4, <1>b, ElementOfSeq, LenProperties DEF Covering
<1>6. g.first \in 1..n /\ g.last \in 1..n /\ l \in g.first..g.last
  <2>a. PICK a : a = Plan[k].first
    OBVIOUS
  <2>b. PICK b : b = Plan[k].last
    OBVIOUS
  <2>1. a \in Nat \ {0} /\ b \in Nat /\ b <= n
    BY <1>3, <2>a, <2>b DEF IsWindow
  <2>2. g.first \in a..b /\ g.last \in a..b
    BY <1>5, <2>a, <2>b DEF GroupsWithin
  <2>3. l \in g.first..g.last
    BY <1>4, <1>b
  <2> QED
    BY <1>1, <2>1, <2>2, <2>3
<1>7. l \in ChunkOf(g).lines
  <2>1. Max({g.first, 1}) = g.first
    BY <1>6, MaxOfTwo
  <2>2. Min({g.last, text.lines}) = g.last
    <3>1. g.last \in Int /\ n \in Int /\ g.last <= n
      BY <1>1, <1>6
    <3> QED
      BY <3>1, <1>a, MinOfTwo
  <2> QED
    BY <1>1, <1>6, <2>1, <2>2 DEF ChunkOf
<1>8. CASE i \in Kept(k)
  BY <1>7, <1>8, <1>b
<1>9. CASE i \notin Kept(k)
  <2>1. k # 1 /\ ~(g.first >= Plan[k].cutoff)
    BY <1>4, <1>9, <1>b DEF Kept
  <2>2. Plan[k].cutoff \in Int
    <3>1. Overlap \in Nat /\ WindowSize - Overlap \in Nat
      BY StepsForward
    <3>2. PICK count \in Nat : DOMAIN Plan = 1..count
      BY PlanWithin
    <3>3. k \in Int
      BY <1>2, <3>2
    <3>a. PICK step : step = WindowSize - Overlap
      OBVIOUS
    <3>4. Plan[k].cutoff = (k - 1) * step + 1 + IF k = 1 THEN 0 ELSE Overlap
      BY <1>2, <3>a DEF Plan, Windows
    <3>5. (k - 1) * step \in Int
      BY <3>1, <3>3, <3>a
    <3> QED
      BY <3>1, <3>4, <3>5
  <2>3. g.first < Plan[k].cutoff
    <3>1. g.first \in Int
      BY <1>1, <1>6
    <3> QED
      BY <2>1, <2>2, <3>1
  <2>4. k \in DOMAIN answers \ {1} /\ l > Plan[k - 1].last
    BY <1>2, <2>1
  <2> QED
    BY <1>4, <1>6, <1>b, <2>3, <2>4 DEF AtSeam
<1> QED
  BY <1>8, <1>9

\* The order of the groups is a strict linear order.
LEMMA GroupsInLine ==
  ASSUME TextTyped, AnswersCover, DOMAIN answers = DOMAIN Plan,
         NEW F, \A p \in F : \E k \in DOMAIN Plan : \E i \in DOMAIN answers[k] : p = <<k, i>>
  PROVE  LET R == {o \in F \X F : InFront(o[1], o[2])}
         IN  /\ \A x, y, z \in F : <<x, y>> \in R /\ <<y, z>> \in R => <<x, z>> \in R
             /\ \A x \in F : <<x, x>> \notin R
             /\ \A x, y \in F : x = y \/ <<x, y>> \in R \/ <<y, x>> \in R
<1> DEFINE R == {o \in F \X F : InFront(o[1], o[2])}
<1>1. \A x, y \in F : <<x, y>> \in R <=> InFront(x, y)
  OBVIOUS
<1> HIDE DEF R
<1>2. ASSUME NEW p \in F PROVE p = <<p[1], p[2]>> /\ p[1] \in Int /\ p[2] \in Int /\ Group(p).first \in Int
  <2>1. PICK k \in DOMAIN Plan : \E i \in DOMAIN answers[k] : p = <<k, i>>
    OBVIOUS
  <2>2. PICK i \in DOMAIN answers[k] : p = <<k, i>>
    BY <2>1
  <2>3. k \in Int
    BY PlanWithin
  <2>4. Covering(Plan[k], answers[k]) /\ IsWindow(Plan[k])
    BY PlanWithin DEF AnswersCover
  <2>5. i \in Int /\ answers[k][i] \in GroupsWithin(Plan[k])
    BY <2>4, ElementOfSeq, LenProperties DEF Covering
  <2>6. answers[k][i].first \in Int
    BY <2>4, <2>5 DEF GroupsWithin, IsWindow
  <2> QED
    BY <2>2, <2>3, <2>5, <2>6 DEF Group
<1>3. ASSUME NEW x \in F, NEW y \in F, NEW z \in F, InFront(x, y), InFront(y, z) PROVE InFront(x, z)
  BY <1>2, <1>3 DEF InFront
<1>4. ASSUME NEW x \in F PROVE ~InFront(x, x)
  BY <1>2 DEF InFront
<1>5. ASSUME NEW x \in F, NEW y \in F PROVE x = y \/ InFront(x, y) \/ InFront(y, x)
  BY <1>2 DEF InFront
<1> QED
  BY <1>1, <1>3, <1>4, <1>5

\* The kept groups become chunks, all of them that have a line, and nothing else does.
LEMMA GroupedChunks ==
  ASSUME TextTyped, AnswersCover, DOMAIN answers = DOMAIN Plan
  PROVE  /\ \A k \in DOMAIN Plan : \A i \in Kept(k) : ChunkOf(answers[k][i]).lines # {}
                => \E n \in DOMAIN Grouped : Grouped[n] = ChunkOf(answers[k][i])
         /\ Grouped \in Seq(Chunk)
<1>a. PICK kept : kept = UNION {{<<k, i>> : i \in Kept(k)} : k \in DOMAIN Plan}
  OBVIOUS
<1>b. PICK filled : filled = {p \in kept : ChunkOf(Group(p)).lines # {}}
  OBVIOUS
<1>c. PICK R : R = {o \in filled \X filled : InFront(o[1], o[2])}
  OBVIOUS
<1>d. PICK sorted : sorted = Lined(filled, R)
  OBVIOUS
<1>e. PICK c : c = Cardinality(filled)
  OBVIOUS
<1>1. Grouped = [n \in DOMAIN sorted |-> ChunkOf(Group(sorted[n]))]
  BY <1>a, <1>b, <1>c, <1>d DEF Grouped
<1>2. \A p : p \in kept <=> \E k \in DOMAIN Plan : \E i \in Kept(k) : p = <<k, i>>
  BY <1>a
<1>3. IsFiniteSet(filled)
  <2>1. IsFiniteSet(DOMAIN Plan)
    <3>1. PICK count \in Nat : DOMAIN Plan = 1..count
      BY PlanWithin
    <3> QED
      BY <3>1, FS_Interval
  <2>2. ASSUME NEW k \in DOMAIN Plan PROVE IsFiniteSet({<<k, i>> : i \in Kept(k)})
    <3>a. PICK a : a = answers[k]
      OBVIOUS
    <3>1. a \in Seq(GroupsWithin(Plan[k]))
      BY <3>a DEF AnswersCover, Covering
    <3>2. DOMAIN a = 1..Len(a) /\ Len(a) \in Nat
      BY <3>1, LenProperties
    <3>3. IsFiniteSet(Kept(k))
      <4>1. IsFiniteSet(1..Len(a)) /\ Kept(k) \subseteq 1..Len(a)
        BY <3>2, <3>a, FS_Interval DEF Kept
      <4> QED
        BY <4>1, FS_Subset
    <3>b. PICK f : f = [i \in Kept(k) |-> <<k, i>>]
      OBVIOUS
    <3>4. f \in Surjection(Kept(k), {<<k, i>> : i \in Kept(k)})
      BY <3>b DEF Surjection
    <3> QED
      BY <3>3, <3>4, FS_Surjection
  <2>3. IsFiniteSet({{<<k, i>> : i \in Kept(k)} : k \in DOMAIN Plan})
    <3>a. PICK f : f = [k \in DOMAIN Plan |-> {<<k, i>> : i \in Kept(k)}]
      OBVIOUS
    <3>1. f \in Surjection(DOMAIN Plan, {{<<k, i>> : i \in Kept(k)} : k \in DOMAIN Plan})
      BY <3>a DEF Surjection
    <3> QED
      BY <2>1, <3>1, FS_Surjection
  <2>4. IsFiniteSet(kept)
    BY <2>2, <2>3, <1>a, FS_UNION
  <2> QED
    BY <2>4, <1>b, FS_Subset
<1>4. ASSUME NEW p \in filled PROVE \E k \in DOMAIN Plan : \E i \in DOMAIN answers[k] : p = <<k, i>>
  <2>1. p \in kept
    BY <1>b
  <2>2. PICK k \in DOMAIN Plan : \E i \in Kept(k) : p = <<k, i>>
    BY <1>2, <2>1
  <2> QED
    BY <2>2 DEF Kept
<1>5. /\ \A x, y, z \in filled : <<x, y>> \in R /\ <<y, z>> \in R => <<x, z>> \in R
      /\ \A x \in filled : <<x, x>> \notin R
      /\ \A x, y \in filled : x = y \/ <<x, y>> \in R \/ <<y, x>> \in R
  BY <1>4, <1>c, GroupsInLine
<1>6. /\ sorted \in Seq(filled) /\ DOMAIN sorted = 1..c /\ c \in Nat
      /\ \A x \in filled : \E n \in 1..c : sorted[n] = x
  BY <1>3, <1>5, <1>d, <1>e, LinedFacts
<1>7. ASSUME NEW k \in DOMAIN Plan, NEW i \in Kept(k), ChunkOf(answers[k][i]).lines # {}
      PROVE  \E n \in DOMAIN Grouped : Grouped[n] = ChunkOf(answers[k][i])
  <2>1. Group(<<k, i>>) = answers[k][i]
    BY DEF Group
  <2>2. <<k, i>> \in filled
    BY <1>2, <1>7, <1>b, <2>1
  <2>3. PICK n \in 1..c : sorted[n] = <<k, i>>
    BY <1>6, <2>2
  <2> QED
    BY <1>1, <1>6, <2>1, <2>3
<1>8. ASSUME NEW n \in 1..c PROVE ChunkOf(Group(sorted[n])) \in Chunk
  <2>1. sorted[n] \in filled
    BY <1>6, ElementOfSeq, LenProperties
  <2>2. PICK k \in DOMAIN Plan : \E i \in DOMAIN answers[k] : sorted[n] = <<k, i>>
    BY <1>4, <2>1
  <2>3. PICK i \in DOMAIN answers[k] : sorted[n] = <<k, i>>
    BY <2>2
  <2>a. PICK g : g = answers[k][i]
    OBVIOUS
  <2>4. Group(sorted[n]) = g
    BY <2>3, <2>a DEF Group
  <2>5. Covering(Plan[k], answers[k]) /\ IsWindow(Plan[k]) /\ Plan[k].last <= text.lines
    BY PlanWithin DEF AnswersCover
  <2>6. g \in GroupsWithin(Plan[k])
    BY <2>5, <2>a, ElementOfSeq, LenProperties DEF Covering
  <2>b. PICK a : a = Plan[k].first
    OBVIOUS
  <2>c. PICK b : b = Plan[k].last
    OBVIOUS
  <2>d. PICK m : m = text.lines
    OBVIOUS
  <2>7. a \in Nat \ {0} /\ b \in Nat /\ b <= m /\ m \in Nat /\ m <= MaxLines /\ MaxLines \in Nat /\ MaxLevel \in Nat \ {0}
    BY <2>5, <2>b, <2>c, <2>d, ChunkingAssumption DEF IsWindow, TextTyped
  <2>8. g.first \in a..b /\ g.last \in a..b /\ g.headed \in BOOLEAN
    BY <2>6, <2>b, <2>c DEF GroupsWithin
  <2>9. Max({g.first, 1}) = g.first /\ Min({g.last, m}) = g.last
    BY <2>7, <2>8, MaxOfTwo, MinOfTwo
  <2>e. PICK lines : lines = (g.first..g.last) \ text.blank
    OBVIOUS
  <2>f. PICK headed : headed = g.headed
    OBVIOUS
  <2>g. PICK no : no = FALSE
    OBVIOUS
  <2>10. lines \in SUBSET (1..MaxLines)
    BY <2>7, <2>8, <2>e
  <2>11. ChunkOf(g) = [headed |-> headed, level |-> 1, summary |-> no, lines |-> lines]
    BY <2>9, <2>d, <2>e, <2>f, <2>g DEF ChunkOf
  <2>12. headed \in BOOLEAN /\ no \in BOOLEAN /\ 1 \in 0..MaxLevel
    <3>1. no \in BOOLEAN
      BY <2>g
    <3>2. headed \in BOOLEAN
      BY <2>8, <2>f
    <3>3. 1 \in 0..MaxLevel
      BY <2>7
    <3> QED
      BY <3>1, <3>2, <3>3
  <2> QED
    BY <2>4, <2>10, <2>11, <2>12 DEF Chunk
<1>9. Grouped \in Seq(Chunk)
  <2>1. Grouped \in [1..c -> Chunk]
    BY <1>1, <1>6, <1>8
  <2>2. c \in Nat
    BY <1>6
  <2> QED
    BY <2>1, <2>2, SeqDef
<1> QED
  BY <1>7, <1>9

\* A chunk for every member of a sequence of lines, with a level of a set.
HasLines(s, at, levels) ==
  /\ s = [i \in DOMAIN at |-> s[i]]
  /\ \A i \in DOMAIN at : \E h \in BOOLEAN, l \in levels, g \in BOOLEAN :
       s[i] = [headed |-> h, level |-> l, lines |-> {at[i]} \ text.blank, summary |-> g]

\* OnePerLine makes one chunk for each line of a sequence.
LEMMA OnePerLineFacts ==
  ASSUME NEW at, NEW levels, NEW supplied, NEW s \in OnePerLine(at, levels, supplied)
  PROVE  HasLines(s, at, levels)
<1>1. PICK h \in [DOMAIN at -> BOOLEAN], l \in [DOMAIN at -> levels], given \in SUBSET supplied :
        s = [i \in DOMAIN at |->
               [headed |-> h[i], level |-> l[i], lines |-> {at[i]} \ text.blank, summary |-> i \in given]]
  BY SMTT(30) DEF OnePerLine
<1>2. ASSUME NEW i \in DOMAIN at
      PROVE  \E hi \in BOOLEAN, li \in levels, g \in BOOLEAN :
               s[i] = [headed |-> hi, level |-> li, lines |-> {at[i]} \ text.blank, summary |-> g]
  <2>a. PICK g : g = (i \in given)
    OBVIOUS
  <2>1. g \in BOOLEAN
    BY <2>a
  <2>2. s[i] = [headed |-> h[i], level |-> l[i], lines |-> {at[i]} \ text.blank, summary |-> g]
    BY <1>1, <2>a
  <2>3. h[i] \in BOOLEAN /\ l[i] \in levels
    OBVIOUS
  <2> QED
    BY <2>1, <2>2, <2>3
<1>3. s = [i \in DOMAIN at |-> s[i]]
  BY <1>1
<1> QED
  BY <1>2, <1>3 DEF HasLines

\* Pieces of the text have every line with text; they and the chunks of a caller are chunks.
LEMMA PiecesChunk ==
  ASSUME TextTyped, NEW s \in Pieces
  PROVE  s \in Seq(Chunk) /\ \A l \in SourceText : \E i \in DOMAIN s : l \in s[i].lines
<1>a. PICK at : at = Ascending(SourceText)
  OBVIOUS
<1>b. PICK c : c = Cardinality(SourceText)
  OBVIOUS
<1>1. MaxLines \in Nat /\ MaxLevel \in Nat
  BY ChunkingAssumption
<1>2. SourceText \in SUBSET (1..MaxLines) /\ SourceText \in SUBSET Int /\ IsFiniteSet(SourceText)
  <2>1. SourceText \in SUBSET (1..MaxLines)
    BY <1>1 DEF SourceText, TextTyped
  <2>2. IsFiniteSet(1..MaxLines)
    BY <1>1, FS_Interval
  <2>3. SourceText \in SUBSET Int
    BY <1>1, <2>1
  <2>4. IsFiniteSet(SourceText)
    BY <2>1, <2>2, FS_Subset
  <2> QED
    BY <2>1, <2>3, <2>4
<1>3. /\ DOMAIN at = 1..c /\ c \in Nat /\ \A k \in 1..c : at[k] \in SourceText
      /\ \A x \in SourceText : \E k \in 1..c : at[k] = x
  BY <1>2, <1>a, <1>b, AscendingFacts
<1>4. /\ s = [i \in 1..c |-> s[i]]
      /\ \A i \in 1..c : \E h \in BOOLEAN, l \in 0..MaxLevel, g \in BOOLEAN :
           s[i] = [headed |-> h, level |-> l, lines |-> {at[i]} \ text.blank, summary |-> g]
  <2>a. PICK levels : levels = 0..MaxLevel
    OBVIOUS
  <2>b. PICK supplied : supplied = {}
    OBVIOUS
  <2>1. s \in OnePerLine(at, levels, supplied)
    BY <2>a, <2>b, <1>a DEF Pieces, SourceText
  <2>3. /\ s = [i \in DOMAIN at |-> s[i]]
        /\ \A i \in DOMAIN at : \E h \in BOOLEAN, l \in levels, g \in BOOLEAN :
             s[i] = [headed |-> h, level |-> l, lines |-> {at[i]} \ text.blank, summary |-> g]
    <3>1. HasLines(s, at, levels)
      BY <2>1, OnePerLineFacts
    <3> QED
      BY <3>1 DEF HasLines
  <2> QED
    BY <1>3, <2>3, <2>a
<1>5. ASSUME NEW i \in 1..c PROVE s[i] \in Chunk /\ s[i].lines = {at[i]}
  <2>c. PICK t : t = {at[i]} \ text.blank
    OBVIOUS
  <2>1. PICK h \in BOOLEAN, l \in 0..MaxLevel, g \in BOOLEAN : s[i] = [headed |-> h, level |-> l, lines |-> t, summary |-> g]
    BY <1>4, <2>c
  <2>2. at[i] \in SourceText
    BY <1>3
  <2>3. t = {at[i]} /\ t \in SUBSET (1..MaxLines)
    BY <1>2, <2>2, <2>c DEF SourceText
  <2>4. s[i] \in Chunk
    BY <2>1, <2>3 DEF Chunk
  <2> QED
    BY <2>1, <2>3, <2>4
<1>6. DOMAIN s = 1..c
  BY <1>4
<1>7. s \in Seq(Chunk)
  <2>1. s \in [1..c -> Chunk]
    BY <1>4, <1>5
  <2>2. c \in Nat
    BY <1>3
  <2> QED
    BY <2>1, <2>2, SeqDef
<1>8. \A x \in SourceText : \E i \in DOMAIN s : x \in s[i].lines
  BY <1>3, <1>5, <1>6
<1> QED
  BY <1>7, <1>8

\* What the caller supplies are chunks.
LEMMA SuppliedChunk ==
  ASSUME TextTyped, NEW s \in Supplied
  PROVE  s \in Seq(Chunk)
<1>a. PICK n : n = text.lines
  OBVIOUS
<1>1. MaxLines \in Nat /\ MaxLevel \in Nat \ {0} /\ n \in 0..MaxLines
  BY <1>a, ChunkingAssumption DEF TextTyped
<1>b. PICK at : at = [i \in 1..n |-> i]
  OBVIOUS
<1>2. /\ s = [i \in 1..n |-> s[i]]
      /\ \A i \in 1..n : \E h \in BOOLEAN, l \in {1}, g \in BOOLEAN :
           s[i] = [headed |-> h, level |-> l, lines |-> {at[i]} \ text.blank, summary |-> g]
  <2>a. PICK levels : levels = {1}
    OBVIOUS
  <2>b. PICK supplied : supplied = 1..n
    OBVIOUS
  <2>1. s \in OnePerLine(at, levels, supplied)
    BY <2>a, <2>b, <1>a, <1>b DEF Supplied
  <2>3. /\ s = [i \in DOMAIN at |-> s[i]]
        /\ \A i \in DOMAIN at : \E h \in BOOLEAN, l \in levels, g \in BOOLEAN :
             s[i] = [headed |-> h, level |-> l, lines |-> {at[i]} \ text.blank, summary |-> g]
    <3>1. HasLines(s, at, levels)
      BY <2>1, OnePerLineFacts
    <3> QED
      BY <3>1 DEF HasLines
  <2>2. DOMAIN at = 1..n
    BY <1>b
  <2> QED
    BY <2>2, <2>3, <2>a
<1>3. ASSUME NEW i \in 1..n PROVE s[i] \in Chunk
  <2>c. PICK t : t = {at[i]} \ text.blank
    OBVIOUS
  <2>1. PICK h \in BOOLEAN, l \in {1}, g \in BOOLEAN : s[i] = [headed |-> h, level |-> l, lines |-> t, summary |-> g]
    BY <1>2, <2>c
  <2>2. at[i] = i
    BY <1>b
  <2>3. t \in SUBSET (1..MaxLines) /\ l \in 0..MaxLevel
    BY <1>1, <2>2, <2>c
  <2> QED
    BY <2>1, <2>3 DEF Chunk
<1>4. s \in [1..n -> Chunk]
  BY <1>2, <1>3
<1> QED
  BY <1>1, <1>4, SeqDef

\* The inductive invariant: with the answers covering their windows the chunks have the text.
ChunkInv ==
  /\ stage \in {"windows", "chunks", "built"}
  /\ TextTyped /\ AnswersCover /\ LinesReachChunks
  /\ chunks \in Seq(Chunk)
  /\ stage = "built" => tree = ToPageNodes(chunks)

\* It holds before any answer.
LEMMA ChunkInvAtFirst == ASSUME ChunkingInit PROVE ChunkInv
<1>1. PICK n \in 0..MaxLines : \E b : text = [lines |-> n, blank |-> b]
  BY DEF ChunkingInit
<1>2. TextTyped
  BY <1>1 DEF TextTyped, ChunkingInit
<1>3. AnswersCover /\ LinesReachChunks /\ chunks \in Seq(Chunk)
  BY DEF ChunkingInit, AnswersCover, LinesReachChunks
<1> QED
  BY <1>2, <1>3 DEF ChunkInv, ChunkingInit

\* An answer of the model covers its window, whatever it lacks.
LEMMA AnswerKeeps ==
  ASSUME ChunkInv, NEW k, ChunkDocument(k)
  PROVE  ChunkInv'
<1>1. PICK reply \in Replies(Plan[k]) \cup {Single(Plan[k])} :
        answers' = [j \in DOMAIN answers \cup {k} |-> IF j = k THEN Repaired(Plan[k], reply) ELSE answers[j]]
  BY DEF ChunkDocument
<1>2. k \in DOMAIN Plan /\ stage = "windows" /\ UNCHANGED <<stage, text, chunks, tree>>
  BY DEF ChunkDocument
<1>3. Plan' = Plan /\ TextTyped' /\ TextTyped
  BY <1>2 DEF Plan, TextTyped, ChunkInv
<1>4. Covering(Plan[k], Repaired(Plan[k], reply))
  <2>1. IsWindow(Plan[k])
    BY <1>2, <1>3, PlanWithin
  <2> QED
    BY <2>1, RepliesCover
<1>5. AnswersCover'
  <2>1. DOMAIN answers' \subseteq DOMAIN Plan
    BY <1>1, <1>2 DEF ChunkInv, AnswersCover
  <2>2. ASSUME NEW j \in DOMAIN answers' PROVE Covering(Plan[j], answers'[j])
    <3>1. CASE j = k
      BY <1>1, <1>4, <3>1
    <3>2. CASE j # k
      <4>1. j \in DOMAIN answers /\ answers'[j] = answers[j]
        BY <1>1, <3>2
      <4> QED
        BY <4>1 DEF ChunkInv, AnswersCover
    <3> QED
      BY <3>1, <3>2
  <2> QED
    BY <1>3, <2>1, <2>2 DEF AnswersCover
<1>6. LinesReachChunks'
  BY <1>2 DEF LinesReachChunks
<1> QED
  BY <1>2, <1>3, <1>5, <1>6 DEF ChunkInv

\* The chunks made from the answers, or without them, have the lines with text.
LEMMA ChunksKeep ==
  ASSUME ChunkInv, MakeChunks
  PROVE  ChunkInv'
<1>1. stage' = "chunks" /\ UNCHANGED <<text, answers, tree>>
  BY DEF MakeChunks
<1>2. TextTyped /\ AnswersCover /\ TextTyped' /\ Plan' = Plan /\ SourceText' = SourceText
  BY <1>1 DEF ChunkInv, TextTyped, Plan, SourceText
<1>3. AnswersCover'
  BY <1>1, <1>2 DEF AnswersCover
<1>4. \A l : AtSeam(l)' <=> AtSeam(l)
  BY <1>1, <1>2 DEF AtSeam
<1>5. chunks' \in Seq(Chunk)
        /\ (DOMAIN answers = DOMAIN Plan /\ text.lines > 0
              => \A l \in SourceText : (\E i \in DOMAIN chunks' : l \in chunks'[i].lines) \/ AtSeam(l))
  <2>1. CASE DOMAIN answers = DOMAIN Plan /\ Plan = <<>> /\ chunks' = <<>>
    <3>1. text.lines = 0
      <4>1. DOMAIN Plan = {}
        BY <2>1
      <4> QED
        BY <1>2, <4>1, PlanWithin
    <3> QED
      BY <2>1, <3>1
  <2>2. CASE DOMAIN answers = DOMAIN Plan /\ Grouped # <<>> /\ chunks' = Grouped
    <3>1. ASSUME text.lines > 0, NEW l \in SourceText
          PROVE  (\E n \in DOMAIN Grouped : l \in Grouped[n].lines) \/ AtSeam(l)
      <4>1. CASE AtSeam(l)
        BY <4>1
      <4>2. CASE ~AtSeam(l)
        <5>1. PICK k \in DOMAIN Plan : \E i \in Kept(k) : l \in ChunkOf(answers[k][i]).lines
          BY <1>2, <2>2, <3>1, <4>2, GroupsCarry
        <5>2. PICK i \in Kept(k) : l \in ChunkOf(answers[k][i]).lines
          BY <5>1
        <5>3. \E n \in DOMAIN Grouped : Grouped[n] = ChunkOf(answers[k][i])
          BY <1>2, <2>2, <5>2, GroupedChunks
        <5> QED
          BY <5>2, <5>3
      <4> QED
        BY <4>1, <4>2
    <3>2. Grouped \in Seq(Chunk)
      BY <1>2, <2>2, GroupedChunks
    <3> QED
      BY <2>2, <3>1, <3>2
  <2>3. CASE chunks' \in Pieces
    BY <1>2, <2>3, PiecesChunk
  <2>4. CASE answers = <<>> /\ chunks' \in Supplied
    <3>1. chunks' \in Seq(Chunk)
      BY <1>2, <2>4, SuppliedChunk
    <3>2. ASSUME DOMAIN answers = DOMAIN Plan, text.lines > 0 PROVE FALSE
      <4>1. DOMAIN Plan = {}
        BY <2>4, <3>2
      <4> QED
        BY <1>2, <3>2, <4>1, PlanWithin
    <3> QED
      BY <3>1, <3>2
  <2> QED
    BY <2>1, <2>2, <2>3, <2>4 DEF MakeChunks
<1>6. LinesReachChunks'
  BY <1>1, <1>2, <1>4, <1>5 DEF LinesReachChunks
<1> QED
  BY <1>1, <1>2, <1>3, <1>5, <1>6 DEF ChunkInv

\* Building the tree leaves the chunks alone.
LEMMA BuildKeeps ==
  ASSUME ChunkInv, Build
  PROVE  ChunkInv'
<1>1. stage = "chunks" /\ stage' = "built" /\ tree' = ToPageNodes(chunks) /\ UNCHANGED <<text, answers, chunks>>
  BY DEF Build
<1>2. TextTyped' /\ Plan' = Plan /\ SourceText' = SourceText
  BY <1>1 DEF ChunkInv, TextTyped, Plan, SourceText
<1>3. AnswersCover' /\ \A l : AtSeam(l)' <=> AtSeam(l)
  BY <1>1, <1>2 DEF AnswersCover, AtSeam, ChunkInv
<1>4. LinesReachChunks'
  BY <1>1, <1>2, <1>3 DEF LinesReachChunks, ChunkInv
<1>5. ToPageNodes(chunks)' = ToPageNodes(chunks)
  BY <1>1
<1> QED
  BY <1>1, <1>2, <1>3, <1>4 DEF ChunkInv

\* The invariant holds in every state.
LEMMA ChunkInvAlways == ChunkingSpec => []ChunkInv
<1>1. ChunkingInit => ChunkInv
  BY ChunkInvAtFirst
<1>2. ASSUME ChunkInv, [ChunkingNext]_chunkVars PROVE ChunkInv'
  <2>1. CASE \E k \in 1..MaxLines : ChunkDocument(k)
    BY <1>2, <2>1, AnswerKeeps
  <2>2. CASE MakeChunks
    BY <1>2, <2>2, ChunksKeep
  <2>3. CASE Build
    BY <1>2, <2>3, BuildKeeps
  <2>4. CASE UNCHANGED chunkVars
    BY <1>2, <2>4 DEF chunkVars, ChunkInv, TextTyped, AnswersCover, LinesReachChunks, Plan, SourceText, AtSeam
  <2> QED
    BY <1>2, <2>1, <2>2, <2>3, <2>4 DEF ChunkingNext
<1> QED
  BY <1>1, <1>2, PTL DEF ChunkingSpec

\* The chunker's variables have their types: repaired groups start within the text, chunks hold lines of it.
THEOREM ChunkingTypeCorrect == ChunkingSpec => []ChunkingTypeOK
<1>1. ASSUME ChunkInv PROVE ChunkingTypeOK
  <2>1. ASSUME NEW k \in DOMAIN answers, NEW i \in DOMAIN answers[k]
        PROVE  answers[k][i].first \in 1..(MaxLines + 1)
    <3>1. Covering(Plan[k], answers[k]) /\ IsWindow(Plan[k]) /\ Plan[k].last <= text.lines
      BY <1>1, PlanWithin DEF ChunkInv, AnswersCover
    <3>2. answers[k][i] \in GroupsWithin(Plan[k])
      BY <3>1, ElementOfSeq, LenProperties DEF Covering
    <3>a. PICK a : a = Plan[k].first
      OBVIOUS
    <3>b. PICK b : b = Plan[k].last
      OBVIOUS
    <3>3. a \in Nat \ {0} /\ b \in Nat /\ b <= text.lines /\ text.lines \in 0..MaxLines /\ MaxLines \in Nat
      BY <1>1, <3>1, <3>a, <3>b, ChunkingAssumption DEF IsWindow, ChunkInv, TextTyped
    <3>4. answers[k][i].first \in a..b
      BY <3>2, <3>a, <3>b DEF GroupsWithin
    <3> QED
      BY <3>3, <3>4
  <2>2. Range(chunks) \subseteq Chunk
    BY <1>1, ElementOfSeq, LenProperties DEF Range, ChunkInv
  <2> QED
    BY <1>1, <2>1, <2>2 DEF ChunkingTypeOK, ChunkInv
<1> QED
  BY <1>1, ChunkInvAlways, PTL

\* Every line with text reaches a chunk, or is lost at a seam of two windows.
THEOREM ChunksHaveTheText == ChunkingSpec => []LinesReachChunks
<1>1. ChunkInv => LinesReachChunks
  BY DEF ChunkInv
<1> QED
  BY <1>1, ChunkInvAlways, PTL

(***************************************************************************)
(* The tree follows the headings                                           *)
(***************************************************************************)

FirstPlaced == [nodes |-> <<>>, stack |-> <<<<0, 0>>>>]

\* What a function of the numbers up to m has to be to place the chunks so far.
Places(s, m, f) == f = [n \in 0..m |-> IF n = 0 THEN FirstPlaced ELSE AddChunk(f[n - 1], s[n])]

\* The builder's recursive function exists, so that it is what its definition says.
LEMMA BuilderPlaces ==
  ASSUME NEW S, NEW s \in Seq(S)
  PROVE  Places(s, Len(s), Builder(s))
<1>a. PICK len : len = Len(s)
  OBVIOUS
<1>1. len \in Nat
  BY <1>a, LenProperties
<1>b. PICK Bad : Bad = {m \in 0..len : ~\E f : Places(s, m, f)}
  OBVIOUS
<1>2. Bad = {}
  <2> SUFFICES ASSUME Bad # {} PROVE FALSE
    OBVIOUS
  <2>1. PICK m \in Bad : \A j \in Bad : m <= j
    BY <1>1, <1>b, LeastExists
  <2>2. m \in 0..len /\ ~\E f : Places(s, m, f)
    BY <1>b
  <2>3. CASE m = 0
    <3>a. PICK f : f = [n \in 0..m |-> FirstPlaced]
      OBVIOUS
    <3>1. Places(s, m, f)
      BY <2>3, <3>a DEF Places
    <3> QED
      BY <2>2, <3>1
  <2>4. CASE m # 0
    <3>1. m - 1 \in 0..len /\ ~(m <= m - 1)
      BY <1>1, <2>2, <2>4
    <3>2. PICK f : Places(s, m - 1, f)
      BY <2>1, <1>b, <3>1
    <3>a. PICK last : last = AddChunk(f[m - 1], s[m])
      OBVIOUS
    <3>b. PICK g : g = [n \in 0..m |-> IF n = m THEN last ELSE f[n]]
      OBVIOUS
    <3>3. \A n \in 0..m : g[n] = IF n = 0 THEN FirstPlaced ELSE AddChunk(g[n - 1], s[n])
      <4> SUFFICES ASSUME NEW n \in 0..m PROVE g[n] = IF n = 0 THEN FirstPlaced ELSE AddChunk(g[n - 1], s[n])
        OBVIOUS
      <4>1. CASE n = m
        <5>1. m - 1 \in 0..m /\ m - 1 # m
          BY <2>2, <2>4
        <5>2. g[m - 1] = f[m - 1]
          BY <3>b, <5>1
        <5>3. g[n] = last
          BY <3>b, <4>1
        <5> QED
          BY <2>4, <3>a, <4>1, <5>2, <5>3
      <4>2. CASE n # m
        <5>1. n \in 0..(m - 1)
          BY <2>2, <4>2
        <5>2. f[n] = IF n = 0 THEN FirstPlaced ELSE AddChunk(f[n - 1], s[n])
          BY <3>2, <5>1 DEF Places
        <5>3. g[n] = f[n]
          BY <3>b, <4>2
        <5>4. n # 0 => g[n - 1] = f[n - 1]
          <6>1. n # 0 => n - 1 \in 0..m /\ n - 1 # m
            BY <2>2, <4>2
          <6> QED
            BY <3>b, <6>1
        <5> QED
          BY <5>2, <5>3, <5>4
      <4> QED
        BY <4>1, <4>2
    <3>4. g = [n \in 0..m |-> g[n]]
      BY <3>b
    <3>5. Places(s, m, g)
      BY <3>3, <3>4 DEF Places
    <3> QED
      BY <2>2, <3>5
  <2> QED
    BY <2>3, <2>4
<1>3. \E f : Places(s, len, f)
  BY <1>1, <1>2, <1>b
<1>4. Builder(s) = CHOOSE f : Places(s, len, f)
  BY <1>a DEF Builder, Places, FirstPlaced
<1> QED
  BY <1>3, <1>4, <1>a

\* The headings among the first n chunks that no chunk since has closed.
OpenAt(s, n) ==
  {j \in 1..n : s[j].headed /\ \A k \in (j + 1)..n : HeadingLevel(s[k]) > HeadingLevel(s[j])}

\* The open headings a chunk goes below, and the one next to it.
Over(s, i) ==
  {j \in 1..(i - 1) : s[j].headed /\ \A k \in (j + 1)..i : HeadingLevel(s[k]) > HeadingLevel(s[j])}

Nearest(s, i) == IF Over(s, i) = {} THEN 0 ELSE Max(Over(s, i))

\* Every node hangs below the nearest open heading, one level deeper.
NodesRight(s, n, made) ==
  /\ made \in Seq([parent : Nat, depth : Nat]) /\ Len(made) = n
  /\ \A i \in 1..n :
       /\ made[i].parent = Nearest(s, i) /\ Nearest(s, i) \in 0..(i - 1)
       /\ made[i].depth = (IF Nearest(s, i) = 0 THEN 1 ELSE made[Nearest(s, i)].depth + 1)
       /\ made[i].depth \in 1..i

\* The stack holds the root and the open headings in their order, each at its depth.
StackRight(s, n, made, stack) ==
  /\ stack \in Seq(Nat \X Nat) /\ Len(stack) >= 1 /\ stack[1] = <<0, 0>>
  /\ \A k \in 2..Len(stack) : /\ stack[k][2] \in OpenAt(s, n) /\ made[stack[k][2]].depth = k - 1
                              /\ stack[k][1] = HeadingLevel(s[stack[k][2]])
  /\ \A j \in OpenAt(s, n) : \E k \in 2..Len(stack) : stack[k][2] = j
  /\ \A k, l \in 1..Len(stack) : k < l => stack[k][2] < stack[l][2]

\* What the tree is built from: chunks, whatever bounds their levels and lines.
Sections == [headed : BOOLEAN, level : Nat, lines : SUBSET Nat, summary : BOOLEAN]

\* The levels of headings are numbers.
LEMMA LevelsCount ==
  ASSUME NEW s \in Seq(Sections)
  PROVE  \A i \in 1..Len(s) : HeadingLevel(s[i]) \in Nat /\ s[i] \in Sections /\ s[i].headed \in BOOLEAN
<1>1. \A i \in 1..Len(s) : s[i] \in Sections
  BY ElementOfSeq
<1>2. BuilderDepth \in Nat
  BY ChunkingAssumption
<1>3. ASSUME NEW c \in Sections PROVE HeadingLevel(c) \in Nat /\ c.headed \in BOOLEAN
  <2>1. c.level \in Nat /\ c.headed \in BOOLEAN
    BY DEF Sections
  <2> QED
    BY <1>2, <2>1 DEF HeadingLevel
<1> QED
  BY <1>1, <1>3

\* What is popped are the entries of at least the chunk's level: the rest are the headings over it.
LEMMA PoppedRight ==
  ASSUME NEW s \in Seq(Sections), NEW n \in 1..Len(s), NEW made, NEW stack, StackRight(s, n - 1, made, stack)
  PROVE  \E top \in 1..Len(stack) :
           /\ Popped(stack, HeadingLevel(s[n])) = SubSeq(stack, 1, top)
           /\ \A j \in Over(s, n) : \E k \in 2..top : stack[k][2] = j
           /\ \A k \in 2..top : stack[k][2] \in Over(s, n)
<1>a. PICK lev : lev = HeadingLevel(s[n])
  OBVIOUS
<1>b. PICK m : m = n - 1
  OBVIOUS
<1>c. PICK len : len = Len(stack)
  OBVIOUS
<1>1. n \in Nat \ {0} /\ m \in Nat /\ n = m + 1 /\ lev \in Nat
  BY <1>a, <1>b, LevelsCount, LenProperties
<1>2. /\ stack \in Seq(Nat \X Nat) /\ len \in Nat \ {0} /\ DOMAIN stack = 1..len
      /\ \A k \in 2..len : stack[k][2] \in OpenAt(s, m) /\ stack[k][1] = HeadingLevel(s[stack[k][2]])
      /\ \A j \in OpenAt(s, m) : \E k \in 2..len : stack[k][2] = j
      /\ \A k, l \in 1..len : k < l => stack[k][2] < stack[l][2]
  <2>1. StackRight(s, m, made, stack)
    BY <1>b
  <2>2. /\ stack \in Seq(Nat \X Nat) /\ len >= 1
        /\ \A k \in 2..len : stack[k][2] \in OpenAt(s, m) /\ stack[k][1] = HeadingLevel(s[stack[k][2]])
        /\ \A j \in OpenAt(s, m) : \E k \in 2..len : stack[k][2] = j
        /\ \A k, l \in 1..len : k < l => stack[k][2] < stack[l][2]
    BY <1>c, <2>1 DEF StackRight
  <2>3. len \in Nat /\ DOMAIN stack = 1..len
    BY <1>c, <2>2, LenProperties
  <2> QED
    BY <2>2, <2>3
<1>d. PICK Low : Low = {k \in 1..len : k = 1 \/ stack[k][1] < lev}
  OBVIOUS
<1>3. Low \in SUBSET (0..len) /\ 1 \in Low
  BY <1>2, <1>d
<1>e. PICK top : top = Max(Low)
  OBVIOUS
<1>4. top \in Low /\ \A k \in Low : top >= k
  BY <1>2, <1>3, <1>e, MinAndMax
<1>5. top \in 1..len /\ (top = 1 \/ stack[top][1] < lev)
  BY <1>4, <1>d
<1>6. Popped(stack, lev) = SubSeq(stack, 1, top)
  BY <1>2, <1>d, <1>e DEF Popped
<1>7. \A j \in OpenAt(s, m) : j \in 1..m /\ HeadingLevel(s[j]) \in Nat
  <2>1. m \in 0..Len(s) /\ Len(s) \in Nat
    BY <1>1, LenProperties
  <2>2. \A j \in OpenAt(s, m) : j \in 1..m
    BY DEF OpenAt
  <2> QED
    BY <2>1, <2>2, LevelsCount
<1>8. \A j \in OpenAt(s, m) : j \in Over(s, n) <=> HeadingLevel(s[j]) < lev
  <2> SUFFICES ASSUME NEW j \in OpenAt(s, m) PROVE j \in Over(s, n) <=> HeadingLevel(s[j]) < lev
    OBVIOUS
  <2>1. j \in 1..m /\ HeadingLevel(s[j]) \in Nat
    BY <1>7
  <2>2. s[j].headed /\ \A k \in (j + 1)..m : HeadingLevel(s[k]) > HeadingLevel(s[j])
    BY DEF OpenAt
  <2>3. (j + 1)..n = (j + 1)..m \cup {n}
    BY <1>1, <2>1
  <2>4. j \in Over(s, n) <=> \A k \in (j + 1)..n : HeadingLevel(s[k]) > HeadingLevel(s[j])
    BY <1>b, <2>1, <2>2 DEF Over
  <2>5. j \in Over(s, n) <=> lev > HeadingLevel(s[j])
    BY <2>2, <2>3, <2>4, <1>a
  <2> QED
    BY <1>1, <2>1, <2>5
<1>9. \A j \in Over(s, n) : j \in OpenAt(s, m)
  <2> SUFFICES ASSUME NEW j \in Over(s, n) PROVE j \in OpenAt(s, m)
    OBVIOUS
  <2>1. j \in 1..m /\ s[j].headed /\ \A k \in (j + 1)..n : HeadingLevel(s[k]) > HeadingLevel(s[j])
    BY <1>b DEF Over
  <2>2. (j + 1)..m \subseteq (j + 1)..n
    BY <1>1, <2>1
  <2> QED
    BY <2>1, <2>2 DEF OpenAt
<1>10. ASSUME NEW k \in 2..top PROVE stack[k][2] \in Over(s, n)
  <2>1. k \in 2..len /\ top \in 2..len /\ k \in 1..len /\ top \in 1..len /\ (k = top \/ k < top)
    BY <1>2, <1>5
  <2>a. PICK j : j = stack[k][2]
    OBVIOUS
  <2>b. PICK h : h = stack[top][2]
    OBVIOUS
  <2>2. j \in OpenAt(s, m) /\ h \in OpenAt(s, m) /\ HeadingLevel(s[h]) = stack[top][1]
    BY <1>2, <2>1, <2>a, <2>b
  <2>3. HeadingLevel(s[h]) < lev
    BY <1>5, <2>1, <2>2
  <2>4. CASE k = top
    BY <1>8, <2>2, <2>3, <2>4, <2>a, <2>b
  <2>5. CASE k < top
    <3>1. j < h
      BY <1>2, <2>1, <2>5, <2>a, <2>b
    <3>2. j \in 1..m /\ h \in 1..m /\ HeadingLevel(s[j]) \in Nat /\ HeadingLevel(s[h]) \in Nat
      BY <1>7, <2>2
    <3>3. h \in (j + 1)..m
      BY <1>1, <3>1, <3>2
    <3>4. HeadingLevel(s[h]) > HeadingLevel(s[j])
      BY <2>2, <3>3 DEF OpenAt
    <3>5. HeadingLevel(s[j]) < lev
      BY <1>1, <2>3, <3>2, <3>4
    <3> QED
      BY <1>8, <2>2, <2>a, <3>5
  <2> QED
    BY <2>1, <2>4, <2>5
<1>11. ASSUME NEW j \in Over(s, n) PROVE \E k \in 2..top : stack[k][2] = j
  <2>1. PICK k \in 2..len : stack[k][2] = j
    BY <1>2, <1>9
  <2>2. stack[k][1] < lev
    BY <1>2, <1>8, <1>9, <2>1
  <2>3. k \in Low
    BY <1>2, <1>d, <2>1, <2>2
  <2>4. k <= top
    BY <1>2, <1>4, <1>5, <2>1, <2>3
  <2>5. k \in 2..top
    BY <1>5, <2>1, <2>4
  <2> QED
    BY <2>1, <2>5
<1> QED
  BY <1>5, <1>6, <1>10, <1>11, <1>a, <1>c

\* One more chunk: its node hangs below the nearest open heading, and the stack has what is open then.
LEMMA AddKeeps ==
  ASSUME NEW s \in Seq(Sections), NEW n \in 1..Len(s), NEW made, NEW stack,
         NodesRight(s, n - 1, made), StackRight(s, n - 1, made, stack),
         NEW placed, placed = AddChunk([nodes |-> made, stack |-> stack], s[n])
  PROVE  NodesRight(s, n, placed.nodes) /\ StackRight(s, n, placed.nodes, placed.stack)
<1>a. PICK lev : lev = HeadingLevel(s[n])
  OBVIOUS
<1>b. PICK m : m = n - 1
  OBVIOUS
<1>c. PICK len : len = Len(stack)
  OBVIOUS
<1>1. n \in Nat \ {0} /\ m \in Nat /\ n = m + 1 /\ lev \in Nat /\ s[n].headed \in BOOLEAN
  BY <1>a, <1>b, LevelsCount, LenProperties
<1>2. /\ stack \in Seq(Nat \X Nat) /\ len \in Nat \ {0} /\ DOMAIN stack = 1..len /\ stack[1] = <<0, 0>>
      /\ \A k \in 1..len : stack[k] \in Nat \X Nat
      /\ \A k \in 2..len : /\ stack[k][2] \in OpenAt(s, m) /\ stack[k][1] = HeadingLevel(s[stack[k][2]])
                           /\ made[stack[k][2]].depth = k - 1
      /\ \A k, l \in 1..len : k < l => stack[k][2] < stack[l][2]
  <2>1. StackRight(s, m, made, stack)
    BY <1>b
  <2>2. /\ stack \in Seq(Nat \X Nat) /\ len >= 1 /\ stack[1] = <<0, 0>>
        /\ \A k \in 2..len : /\ stack[k][2] \in OpenAt(s, m) /\ stack[k][1] = HeadingLevel(s[stack[k][2]])
                             /\ made[stack[k][2]].depth = k - 1
        /\ \A k, l \in 1..len : k < l => stack[k][2] < stack[l][2]
    BY <1>c, <2>1 DEF StackRight
  <2>3. len \in Nat /\ DOMAIN stack = 1..len /\ \A k \in 1..len : stack[k] \in Nat \X Nat
    BY <1>c, <2>2, LenProperties, ElementOfSeq
  <2> QED
    BY <2>2, <2>3
<1>3. /\ made \in Seq([parent : Nat, depth : Nat]) /\ Len(made) = m /\ DOMAIN made = 1..m
      /\ \A i \in 1..m :
           /\ made[i].parent = Nearest(s, i) /\ Nearest(s, i) \in 0..(i - 1)
           /\ made[i].depth = (IF Nearest(s, i) = 0 THEN 1 ELSE made[Nearest(s, i)].depth + 1)
           /\ made[i].depth \in 1..i
  BY <1>b, LenProperties DEF NodesRight
<1>4. PICK top \in 1..len :
        /\ Popped(stack, lev) = SubSeq(stack, 1, top)
        /\ \A j \in Over(s, n) : \E k \in 2..top : stack[k][2] = j
        /\ \A k \in 2..top : stack[k][2] \in Over(s, n)
  BY <1>a, <1>c, PoppedRight
<1>d. PICK left : left = SubSeq(stack, 1, top)
  OBVIOUS
<1>5. /\ left \in Seq(Nat \X Nat) /\ Len(left) = top /\ DOMAIN left = 1..top /\ top \in Nat \ {0}
      /\ \A k \in 1..top : left[k] = stack[k]
  <2>1. 1 \in 1..len /\ top \in 1..len /\ 1 <= top
    BY <1>2
  <2>2. left \in Seq(Nat \X Nat) /\ Len(left) = top /\ \A k \in 1..top : left[k] = stack[k]
    BY <1>2, <1>c, <1>d, <2>1
  <2> QED
    BY <1>2, <2>2, LenProperties
<1>e. PICK parent : parent = stack[top][2]
  OBVIOUS
<1>6. parent = Nearest(s, n) /\ parent \in 0..m
  <2>1. CASE top = 1
    <3>1. Over(s, n) = {}
      BY <1>4, <2>1
    <3> QED
      BY <1>1, <1>2, <1>e, <2>1, <3>1 DEF Nearest
  <2>2. CASE top # 1
    <3>1. top \in 2..top
      BY <1>5, <2>2
    <3>2. parent \in Over(s, n)
      BY <1>4, <1>e, <3>1
    <3>3. Over(s, n) \in SUBSET (0..m)
      BY <1>1, <1>b DEF Over
    <3>4. Max(Over(s, n)) \in Over(s, n) /\ \A j \in Over(s, n) : Max(Over(s, n)) >= j
      BY <1>1, <3>2, <3>3, MinAndMax
    <3>5. PICK k \in 2..top : stack[k][2] = Max(Over(s, n))
      BY <1>4, <3>4
    <3>6. k = top
      <4>1. k \in 1..len /\ top \in 1..len /\ (k = top \/ k < top)
        BY <1>2, <1>5
      <4>2. ~(k < top)
        <5>1. k < top => Max(Over(s, n)) < parent
          BY <1>2, <1>e, <3>5, <4>1
        <5>2. Max(Over(s, n)) >= parent /\ parent \in Int /\ Max(Over(s, n)) \in Int
          BY <3>2, <3>3, <3>4
        <5> QED
          BY <5>1, <5>2
      <4> QED
        BY <4>1, <4>2
    <3> QED
      BY <1>e, <3>2, <3>3, <3>5, <3>6 DEF Nearest
  <2> QED
    BY <2>1, <2>2
<1>f. PICK node : node = [parent |-> parent, depth |-> top]
  OBVIOUS
<1>g. PICK nodes : nodes = Append(made, node)
  OBVIOUS
<1>7. /\ placed.nodes = nodes
      /\ placed.stack = IF s[n].headed THEN Append(left, <<lev, n>>) ELSE left
  <2>1. [nodes |-> made, stack |-> stack].nodes = made /\ [nodes |-> made, stack |-> stack].stack = stack
    OBVIOUS
  <2>2. placed = [nodes |-> Append(made, [parent |-> left[Len(left)][2], depth |-> Len(left)]),
                  stack |-> IF s[n].headed THEN Append(left, <<lev, Len(made) + 1>>) ELSE left]
    BY <1>4, <1>a, <1>d, <2>1 DEF AddChunk
  <2>3. left[Len(left)][2] = parent /\ Len(left) = top /\ Len(made) + 1 = n
    BY <1>1, <1>3, <1>5, <1>e
  <2>a. PICK rest : rest = IF s[n].headed THEN Append(left, <<lev, n>>) ELSE left
    OBVIOUS
  <2>4. placed = [nodes |-> nodes, stack |-> rest]
    BY <2>2, <2>3, <2>a, <1>f, <1>g
  <2>5. placed.nodes = nodes /\ placed.stack = rest
    BY <2>4
  <2> QED
    BY <2>5, <2>a
<1>8. /\ nodes \in Seq([parent : Nat, depth : Nat]) /\ Len(nodes) = n
      /\ nodes[n] = node /\ \A i \in 1..m : nodes[i] = made[i]
  <2>1. node \in [parent : Nat, depth : Nat]
    BY <1>1, <1>5, <1>6, <1>f
  <2>2. nodes \in Seq([parent : Nat, depth : Nat]) /\ Len(nodes) = m + 1
        /\ nodes[m + 1] = node /\ \A i \in 1..m : nodes[i] = made[i]
    BY <1>1, <1>3, <1>g, <2>1, AppendProperties
  <2> QED
    BY <1>1, <2>2
<1>9. top \in 1..n /\ top = IF parent = 0 THEN 1 ELSE made[parent].depth + 1
  <2>1. CASE top = 1
    BY <1>1, <1>2, <1>e, <2>1
  <2>2. CASE top # 1
    <3>1. top \in 2..len
      BY <1>2, <2>2
    <3>2. parent \in OpenAt(s, m) /\ made[parent].depth = top - 1
      BY <1>2, <1>e, <3>1
    <3>3. parent \in 1..m
      BY <3>2 DEF OpenAt
    <3>4. made[parent].depth \in 1..parent
      BY <1>3, <3>3
    <3> QED
      BY <1>1, <3>1, <3>2, <3>3, <3>4
  <2> QED
    BY <2>1, <2>2
<1>10. NodesRight(s, n, nodes)
  <2>1. ASSUME NEW i \in 1..n
        PROVE  /\ nodes[i].parent = Nearest(s, i) /\ Nearest(s, i) \in 0..(i - 1)
               /\ nodes[i].depth = (IF Nearest(s, i) = 0 THEN 1 ELSE nodes[Nearest(s, i)].depth + 1)
               /\ nodes[i].depth \in 1..i
    <3>1. CASE i = n
      <4>1. nodes[n].parent = parent /\ nodes[n].depth = top
        BY <1>8, <1>f
      <4>2. parent # 0 => nodes[parent] = made[parent]
        BY <1>6, <1>8
      <4> QED
        BY <1>6, <1>9, <1>b, <3>1, <4>1, <4>2
    <3>2. CASE i # n
      <4>1. i \in 1..m
        BY <1>1, <3>2
      <4>2. nodes[i] = made[i] /\ Nearest(s, i) \in 0..(i - 1)
        BY <1>3, <1>8, <4>1
      <4>3. Nearest(s, i) # 0 => nodes[Nearest(s, i)] = made[Nearest(s, i)]
        <5>1. Nearest(s, i) # 0 => Nearest(s, i) \in 1..m
          BY <1>1, <4>1, <4>2
        <5> QED
          BY <1>8, <5>1
      <4> QED
        BY <1>3, <4>1, <4>2, <4>3
    <3> QED
      BY <3>1, <3>2
  <2> QED
    BY <1>8, <2>1 DEF NodesRight
<1>11. \A j : j \in OpenAt(s, n) <=> j \in Over(s, n) \/ (j = n /\ s[n].headed)
  <2> SUFFICES ASSUME NEW j PROVE j \in OpenAt(s, n) <=> j \in Over(s, n) \/ (j = n /\ s[n].headed)
    OBVIOUS
  <2>1. CASE j = n
    <3>1. (j + 1)..n = {} /\ j \notin 1..(n - 1) /\ j \in 1..n
      BY <1>1, <2>1
    <3> QED
      BY <2>1, <3>1 DEF OpenAt, Over
  <2>2. CASE j # n
    <3>1. j \in 1..n <=> j \in 1..(n - 1)
      BY <1>1, <2>2
    <3> QED
      BY <2>2, <3>1 DEF OpenAt, Over
  <2> QED
    BY <2>1, <2>2
<1>12. ASSUME NEW k \in 2..top
       PROVE  left[k][2] \in Over(s, n) /\ left[k][1] = HeadingLevel(s[left[k][2]]) /\ nodes[left[k][2]].depth = k - 1
  <2>1. k \in 2..len /\ k \in 1..top
    BY <1>2, <1>5
  <2>2. left[k] = stack[k] /\ stack[k][2] \in OpenAt(s, m)
    BY <1>2, <1>5, <2>1
  <2>3. stack[k][2] \in 1..m
    BY <2>2 DEF OpenAt
  <2>4. nodes[stack[k][2]] = made[stack[k][2]]
    BY <1>8, <2>3
  <2> QED
    BY <1>2, <1>4, <2>1, <2>2, <2>4
<1>13. \A k, l \in 1..top : k < l => left[k][2] < left[l][2]
  <2>1. 1..top \subseteq 1..len
    BY <1>2, <1>5
  <2> QED
    BY <1>2, <1>5, <2>1
<1>14. left[1] = <<0, 0>>
  BY <1>2, <1>5
<1>15. ASSUME ~s[n].headed PROVE StackRight(s, n, nodes, left)
  <2>1. \A j : j \in OpenAt(s, n) <=> j \in Over(s, n)
    BY <1>11, <1>15
  <2>2. \A j \in OpenAt(s, n) : \E k \in 2..top : left[k][2] = j
    <3> SUFFICES ASSUME NEW j \in OpenAt(s, n) PROVE \E k \in 2..top : left[k][2] = j
      OBVIOUS
    <3>1. PICK k \in 2..top : stack[k][2] = j
      BY <1>4, <2>1
    <3>2. left[k] = stack[k]
      BY <1>5
    <3> QED
      BY <3>1, <3>2
  <2>3. \A k \in 2..top : /\ left[k][2] \in OpenAt(s, n) /\ nodes[left[k][2]].depth = k - 1
                           /\ left[k][1] = HeadingLevel(s[left[k][2]])
    BY <1>12, <2>1
  <2>4. left \in Seq(Nat \X Nat) /\ top >= 1 /\ Len(left) = top
    BY <1>5
  <2> QED
    BY <1>13, <1>14, <2>2, <2>3, <2>4 DEF StackRight
<1>16. ASSUME s[n].headed PROVE StackRight(s, n, nodes, Append(left, <<lev, n>>))
  <2>a. PICK grown : grown = Append(left, <<lev, n>>)
    OBVIOUS
  <2>b. PICK high : high = top + 1
    OBVIOUS
  <2>1. grown \in Seq(Nat \X Nat) /\ Len(grown) = high /\ grown[high] = <<lev, n>> /\ \A k \in 1..top : grown[k] = left[k]
    <3>1. <<lev, n>> \in Nat \X Nat
      BY <1>1
    <3> QED
      BY <1>5, <2>a, <2>b, <3>1, AppendProperties
  <2>2. high \in Nat /\ high = top + 1 /\ top \in Nat \ {0}
    BY <1>5, <2>b
  <2>3. grown[high][1] = lev /\ grown[high][2] = n
    BY <2>1
  <2>4. ASSUME NEW k \in 2..high
        PROVE  /\ grown[k][2] \in OpenAt(s, n) /\ nodes[grown[k][2]].depth = k - 1
               /\ grown[k][1] = HeadingLevel(s[grown[k][2]])
    <3>1. CASE k = high
      <4>1. nodes[n].depth = top
        BY <1>8, <1>f
      <4> QED
        BY <1>11, <1>16, <1>a, <2>2, <2>3, <3>1, <4>1
    <3>2. CASE k # high
      <4>1. k \in 2..top /\ k \in 1..top
        BY <2>2, <3>2
      <4> QED
        BY <1>11, <1>12, <2>1, <4>1
    <3> QED
      BY <3>1, <3>2
  <2>5. ASSUME NEW j \in OpenAt(s, n) PROVE \E k \in 2..high : grown[k][2] = j
    <3>1. CASE j = n
      BY <2>2, <2>3, <3>1
    <3>2. CASE j # n
      <4>1. PICK k \in 2..top : stack[k][2] = j
        BY <1>4, <1>11, <3>2
      <4>2. k \in 2..high /\ k \in 1..top
        BY <2>2
      <4>3. grown[k] = stack[k]
        BY <1>5, <2>1, <4>2
      <4> QED
        BY <4>1, <4>2, <4>3
    <3> QED
      BY <3>1, <3>2
  <2>6. ASSUME NEW k \in 1..high, NEW l \in 1..high, k < l PROVE grown[k][2] < grown[l][2]
    <3>1. k \in 1..top
      BY <2>2, <2>6
    <3>2. CASE l = high
      <4>1. grown[k] = stack[k] /\ k \in 1..len /\ len \in Nat
        <5>1. top \in 1..len /\ len \in Nat
          BY <1>2, <1>5
        <5>2. left[k] = stack[k]
          BY <1>5, <3>1
        <5>3. grown[k] = left[k]
          BY <2>1, <3>1
        <5> QED
          BY <3>1, <5>1, <5>2, <5>3
      <4>2. stack[k][2] < n
        <5>1. CASE k = 1
          BY <1>1, <1>2, <5>1
        <5>2. CASE k # 1
          <6>1. k \in 2..len
            BY <4>1, <5>2
          <6>2. stack[k][2] \in 1..m
            BY <1>2, <6>1 DEF OpenAt
          <6> QED
            BY <1>1, <6>2
        <5> QED
          BY <5>1, <5>2
      <4> QED
        BY <2>3, <3>2, <4>1, <4>2
    <3>3. CASE l # high
      <4>1. l \in 1..top
        BY <2>2, <3>3
      <4> QED
        BY <1>13, <2>1, <2>6, <3>1, <4>1
    <3> QED
      BY <3>2, <3>3
  <2>7. grown[1] = <<0, 0>>
    <3>1. 1 \in 1..top
      BY <2>2
    <3> QED
      BY <1>14, <2>1, <3>1
  <2>8. StackRight(s, n, nodes, grown)
    BY <2>1, <2>2, <2>4, <2>5, <2>6, <2>7 DEF StackRight
  <2> QED
    BY <2>8, <2>a
<1> QED
  BY <1>7, <1>10, <1>15, <1>16

\* After every chunk the nodes and the stack are right.
LEMMA BuilderRight ==
  ASSUME NEW s \in Seq(Sections)
  PROVE  \A n \in 0..Len(s) : /\ NodesRight(s, n, Builder(s)[n].nodes)
                              /\ StackRight(s, n, Builder(s)[n].nodes, Builder(s)[n].stack)
<1>a. PICK len : len = Len(s)
  OBVIOUS
<1>b. PICK after : after = Builder(s)
  OBVIOUS
<1>1. len \in Nat /\ Places(s, len, after)
  BY <1>a, <1>b, BuilderPlaces, LenProperties
<1>2. \A n \in 0..len : after[n] = IF n = 0 THEN FirstPlaced ELSE AddChunk(after[n - 1], s[n])
  BY <1>1 DEF Places
<1> DEFINE Right(n) == NodesRight(s, n, after[n].nodes) /\ StackRight(s, n, after[n].nodes, after[n].stack)
<1>c. PICK Bad : Bad = {n \in 0..len : ~Right(n)}
  OBVIOUS
<1>3. Right(0)
  <2>1. after[0] = FirstPlaced
    BY <1>1, <1>2
  <2>2. after[0].nodes = <<>> /\ after[0].stack = <<<<0, 0>>>>
    BY <2>1 DEF FirstPlaced
  <2>3. OpenAt(s, 0) = {}
    BY DEF OpenAt
  <2>4. NodesRight(s, 0, <<>>)
    BY DEF NodesRight
  <2>5. StackRight(s, 0, <<>>, <<<<0, 0>>>>)
    <3>a. PICK root : root = <<0, 0>>
      OBVIOUS
    <3>b. PICK one : one = <<root>>
      OBVIOUS
    <3>1. one \in Seq(Nat \X Nat) /\ Len(one) = 1 /\ one[1] = root
      BY <3>a, <3>b
    <3>2. \A k \in 2..Len(one) : FALSE
      BY <3>1
    <3>3. \A k, l \in 1..Len(one) : ~(k < l)
      BY <3>1
    <3>4. StackRight(s, 0, <<>>, one)
      BY <2>3, <3>1, <3>2, <3>3, <3>a DEF StackRight
    <3> QED
      BY <3>4, <3>a, <3>b
  <2> QED
    BY <2>2, <2>4, <2>5
<1>4. ASSUME NEW n \in 1..len, Right(n - 1) PROVE Right(n)
  <2>a. PICK made : made = after[n - 1].nodes
    OBVIOUS
  <2>b. PICK stack : stack = after[n - 1].stack
    OBVIOUS
  <2>1. NodesRight(s, n - 1, made) /\ StackRight(s, n - 1, made, stack)
    BY <1>4, <2>a, <2>b
  <2>2. after[n] = AddChunk(after[n - 1], s[n])
    BY <1>1, <1>2
  <2>3. AddChunk(after[n - 1], s[n]) = AddChunk([nodes |-> made, stack |-> stack], s[n])
    BY <2>a, <2>b DEF AddChunk
  <2>4. after[n] = AddChunk([nodes |-> made, stack |-> stack], s[n])
    BY <2>2, <2>3
  <2>5. n \in 1..Len(s)
    BY <1>a
  <2> QED
    BY <2>1, <2>4, <2>5, AddKeeps
<1>5. Bad = {}
  <2> HIDE DEF Right
  <2> SUFFICES ASSUME Bad # {} PROVE FALSE
    OBVIOUS
  <2>1. PICK n \in Bad : \A j \in Bad : n <= j
    BY <1>1, <1>c, LeastExists
  <2>2. n \in 1..len /\ ~Right(n)
    BY <1>3, <1>c, <2>1
  <2>3. n - 1 \in 0..len /\ ~(n <= n - 1)
    BY <1>1, <2>2
  <2>4. Right(n - 1)
    BY <1>c, <2>1, <2>3
  <2> QED
    BY <1>4, <2>2, <2>4
<1>6. \A n \in 0..len : Right(n)
  <2> HIDE DEF Right
  <2> QED
    BY <1>5, <1>c
<1> QED
  BY <1>6, <1>a, <1>b

\* The children of a node are those whose parent it is.
LEMMA KidsFacts ==
  ASSUME NEW places, NEW n \in Nat, DOMAIN places = 1..n, NEW id
  PROVE  /\ Range(KidsOf(places, id)) = {i \in 1..n : places[i].parent = id}
         /\ KidsOf(places, id) = <<>> <=> {i \in 1..n : places[i].parent = id} = {}
<1>a. PICK K : K = {i \in 1..n : places[i].parent = id}
  OBVIOUS
<1>b. PICK c : c = Cardinality(K)
  OBVIOUS
<1>c. PICK kids : kids = Ascending(K)
  OBVIOUS
<1>1. KidsOf(places, id) = kids
  BY <1>a, <1>c DEF KidsOf
<1>2. K \in SUBSET Int /\ IsFiniteSet(K)
  <2>1. IsFiniteSet(1..n)
    BY FS_Interval
  <2>2. K \in SUBSET (1..n)
    BY <1>a
  <2>3. IsFiniteSet(K)
    BY <2>1, <2>2, FS_Subset
  <2> QED
    BY <2>2, <2>3
<1>3. /\ kids \in Seq(K) /\ DOMAIN kids = 1..c /\ Len(kids) = c /\ c \in Nat
      /\ \A x \in K : \E k \in 1..c : kids[k] = x
      /\ \A k \in 1..c : kids[k] \in K
  BY <1>2, <1>b, <1>c, AscendingFacts
<1>4. Range(kids) = K
  BY <1>3 DEF Range
<1>5. kids = <<>> <=> K = {}
  <2>1. ASSUME kids = <<>> PROVE K = {}
    <3>1. DOMAIN kids = {}
      BY <2>1
    <3> QED
      BY <1>3, <3>1
  <2>2. ASSUME K = {} PROVE kids = <<>>
    <3>1. c = 0
      BY <1>b, <2>2, FS_EmptySet
    <3> QED
      BY <1>3, <3>1, EmptySeq
  <2> QED
    BY <2>1, <2>2
<1> QED
  BY <1>1, <1>4, <1>5, <1>a

\* A node for the root and each chunk, below the nearest heading, with the text that has no node below.
BuiltFrom(s, len, t) ==
  /\ len \in Nat /\ DOMAIN t = 0..len
  /\ t[0].depth = 0
  /\ \A i \in 0..len : \A m : m \in Range(t[i].children) <=> m \in 1..len /\ Nearest(s, m) = i
  /\ \A i \in 1..len :
       /\ t[i].parent = Nearest(s, i) /\ Nearest(s, i) \in 0..(i - 1)
       /\ t[i].depth = t[t[i].parent].depth + 1 /\ t[i].depth \in 1..i
       /\ (\A m \in 1..len : Nearest(s, m) # i)
            => t[i].lines = s[i].lines /\ t[i].summary = (s[i].summary /\ s[i].lines # {})

\* The tree of a sequence of chunks.
LEMMA TreeRight ==
  ASSUME NEW s \in Seq(Sections)
  PROVE  BuiltFrom(s, Len(s), ToPageNodes(s))
<1>c. PICK len : len = Len(s)
  OBVIOUS
<1>d. PICK t : t = ToPageNodes(s)
  OBVIOUS
<1>a. PICK places : places = Placed(s)
  OBVIOUS
<1>1. len \in Nat
  BY <1>c, LenProperties
<1>2. NodesRight(s, len, places)
  BY <1>1, <1>a, <1>c, BuilderRight DEF Placed
<1>3. DOMAIN places = 1..len
  BY <1>1, <1>2, LenProperties DEF NodesRight
<1>4. \A i \in 1..len : /\ places[i].parent = Nearest(s, i) /\ Nearest(s, i) \in 0..(i - 1)
                        /\ places[i].depth = (IF Nearest(s, i) = 0 THEN 1 ELSE places[Nearest(s, i)].depth + 1)
                        /\ places[i].depth \in 1..i
  BY <1>2 DEF NodesRight
<1>b. PICK no : no = FALSE
  OBVIOUS
<1>5. /\ DOMAIN t = 0..len
      /\ t[0] = [parent |-> -1, depth |-> 0, children |-> KidsOf(places, 0), lines |-> {}, summary |-> no]
  <2>1. 0 \in 0..len
    BY <1>1
  <2> QED
    BY <1>a, <1>b, <1>c, <1>d, <2>1 DEF ToPageNodes
<1>6. ASSUME NEW i \in 1..len
      PROVE  /\ t[i].parent = places[i].parent /\ t[i].depth = places[i].depth
             /\ t[i].children = KidsOf(places, i)
             /\ KidsOf(places, i) = <<>>
                  => t[i].lines = s[i].lines /\ t[i].summary = (s[i].summary /\ s[i].lines # {})
  <2>a. PICK leaf : leaf = (KidsOf(places, i) = <<>> /\ s[i].lines # {})
    OBVIOUS
  <2>b. PICK lines : lines = IF leaf THEN s[i].lines ELSE {}
    OBVIOUS
  <2>c. PICK summary : summary = (leaf /\ s[i].summary)
    OBVIOUS
  <2>1. i \in 0..len /\ i # 0
    BY <1>1
  <2>2. t[i] = [parent |-> places[i].parent, depth |-> places[i].depth, children |-> KidsOf(places, i),
                lines |-> lines, summary |-> summary]
    BY <1>a, <1>c, <1>d, <2>1, <2>a, <2>b, <2>c DEF ToPageNodes
  <2>3. t[i].lines = lines /\ t[i].summary = summary
    BY <2>2
  <2>4. KidsOf(places, i) = <<>> => lines = s[i].lines /\ summary = (s[i].summary /\ s[i].lines # {})
    BY <2>a, <2>b, <2>c
  <2> QED
    BY <2>2, <2>3, <2>4
<1>7. ASSUME NEW i \in 0..len, NEW m PROVE m \in Range(t[i].children) <=> m \in 1..len /\ Nearest(s, m) = i
  <2>1. t[i].children = KidsOf(places, i)
    <3>1. CASE i = 0
      BY <1>5, <3>1
    <3>2. CASE i # 0
      BY <1>1, <1>6, <3>2
    <3> QED
      BY <3>1, <3>2
  <2>2. Range(KidsOf(places, i)) = {j \in 1..len : places[j].parent = i}
    BY <1>1, <1>3, KidsFacts
  <2> QED
    BY <1>4, <2>1, <2>2
<1>8. ASSUME NEW i \in 1..len
      PROVE  /\ t[i].parent = Nearest(s, i) /\ Nearest(s, i) \in 0..(i - 1)
             /\ t[i].depth = t[t[i].parent].depth + 1 /\ t[i].depth \in 1..i
             /\ (\A m \in 1..len : Nearest(s, m) # i)
                  => t[i].lines = s[i].lines /\ t[i].summary = (s[i].summary /\ s[i].lines # {})
  <2>a. PICK p : p = Nearest(s, i)
    OBVIOUS
  <2>1. t[i].parent = p /\ p \in 0..(i - 1) /\ t[i].depth = places[i].depth /\ places[i].depth \in 1..i
    BY <1>4, <1>6, <2>a
  <2>2. t[i].depth = t[p].depth + 1
    <3>1. CASE p = 0
      <4>1. t[0].depth = 0
        BY <1>5
      <4>2. places[i].depth = 1
        BY <1>4, <2>a, <3>1
      <4> QED
        BY <2>1, <3>1, <4>1, <4>2
    <3>2. CASE p # 0
      <4>1. p \in 1..len
        BY <1>1, <2>1, <3>2
      <4>2. t[p].depth = places[p].depth
        BY <1>6, <4>1
      <4>3. places[i].depth = places[p].depth + 1
        BY <1>4, <2>a, <3>2
      <4> QED
        BY <2>1, <4>2, <4>3
    <3> QED
      BY <3>1, <3>2
  <2>3. (\A m \in 1..len : Nearest(s, m) # i) => KidsOf(places, i) = <<>>
    <3> SUFFICES ASSUME \A m \in 1..len : Nearest(s, m) # i PROVE KidsOf(places, i) = <<>>
      OBVIOUS
    <3>1. {j \in 1..len : places[j].parent = i} = {}
      BY <1>4
    <3> QED
      BY <1>1, <1>3, <3>1, KidsFacts
  <2> QED
    BY <1>6, <2>1, <2>2, <2>3, <2>a
<1>9. t[0].depth = 0
  BY <1>5
<1> QED
  BY <1>1, <1>5, <1>7, <1>8, <1>9, <1>c, <1>d DEF BuiltFrom

\* Chunks are sections.
LEMMA ChunksAreSections == Seq(Chunk) \subseteq Seq(Sections)
<1>1. MaxLevel \in Nat /\ MaxLines \in Nat
  BY ChunkingAssumption
<1>2. Chunk \subseteq Sections
  BY <1>1 DEF Chunk, Sections
<1> QED
  BY <1>2, SeqDef

\* Such a tree is what the summarizer needs: links lead one level down, no path is longer than the tree.
LEMMA BuiltIsLevelled ==
  ASSUME NEW s, NEW len, BuiltFrom(s, len, tree)
  PROVE  Levelled
<1>a. PICK t : t = tree
  OBVIOUS
<1>1. /\ len \in Nat /\ DOMAIN t = 0..len
      /\ t[0].depth = 0
      /\ \A i \in 0..len : \A m : m \in Range(t[i].children) <=> m \in 1..len /\ Nearest(s, m) = i
      /\ \A i \in 1..len : t[i].parent = Nearest(s, i) /\ t[i].depth = t[t[i].parent].depth + 1 /\ t[i].depth \in 1..i
  BY <1>a DEF BuiltFrom
<1>2. IsFiniteSet(0..len) /\ Cardinality(0..len) = len + 1
  BY <1>1, FS_Interval
<1>3. ASSUME NEW n \in 0..len
      PROVE  t[n].depth \in 0..(len + 1) /\ \A m \in Range(t[n].children) : m \in 0..len /\ t[m].depth = t[n].depth + 1
  <2>1. t[n].depth \in 0..(len + 1)
    <3>1. CASE n = 0
      BY <1>1, <3>1
    <3>2. CASE n # 0
      <4>1. n \in 1..len
        BY <1>1, <3>2
      <4>2. t[n].depth \in 1..n
        BY <1>1, <4>1
      <4> QED
        BY <1>1, <4>1, <4>2
    <3> QED
      BY <3>1, <3>2
  <2>2. ASSUME NEW m \in Range(t[n].children) PROVE m \in 0..len /\ t[m].depth = t[n].depth + 1
    <3>1. m \in 1..len /\ Nearest(s, m) = n
      BY <1>1
    <3>2. t[m].parent = n /\ t[m].depth = t[t[m].parent].depth + 1
      BY <1>1, <3>1
    <3> QED
      BY <1>1, <3>1, <3>2
  <2> QED
    BY <2>1, <2>2
<1>4. 0 \in 0..len
  BY <1>1
<1> QED
  BY <1>1, <1>2, <1>3, <1>4, <1>a DEF Levelled

\* Every node hangs below the nearest open heading, and no text is lost but at sections with children.
THEOREM TreesFollowHeadings == ChunkingSpec => []TreeFollowsHeadings
<1>1. ASSUME ChunkInv PROVE TreeFollowsHeadings
  <2> SUFFICES ASSUME stage = "built"
               PROVE  Levelled /\ \A i \in 1..Len(chunks) :
                        /\ tree[i].parent = IF Above(i) = {} THEN 0 ELSE Max(Above(i))
                        /\ tree[i].depth = tree[tree[i].parent].depth + 1
                        /\ i \in Range(tree[tree[i].parent].children)
                        /\ \/ \E j \in DOMAIN chunks : i \in Above(j)
                           \/ /\ tree[i].lines = chunks[i].lines
                              /\ tree[i].summary = (chunks[i].summary /\ chunks[i].lines # {})
    BY DEF TreeFollowsHeadings
  <2>a. PICK len : len = Len(chunks)
    OBVIOUS
  <2>b. PICK s : s = chunks
    OBVIOUS
  <2>c. PICK t : t = tree
    OBVIOUS
  <2>1. s \in Seq(Sections) /\ t = ToPageNodes(s) /\ len = Len(s) /\ DOMAIN chunks = 1..len
    BY <1>1, <2>a, <2>b, <2>c, ChunksAreSections, LenProperties DEF ChunkInv
  <2>2. /\ len \in Nat /\ DOMAIN t = 0..len
        /\ t[0].depth = 0
        /\ \A i \in 0..len : \A m : m \in Range(t[i].children) <=> m \in 1..len /\ Nearest(s, m) = i
        /\ \A i \in 1..len :
             /\ t[i].parent = Nearest(s, i) /\ Nearest(s, i) \in 0..(i - 1)
             /\ t[i].depth = t[t[i].parent].depth + 1 /\ t[i].depth \in 1..i
             /\ (\A m \in 1..len : Nearest(s, m) # i)
                  => t[i].lines = s[i].lines /\ t[i].summary = (s[i].summary /\ s[i].lines # {})
    <3>1. BuiltFrom(s, len, t)
      BY <2>1, TreeRight
    <3> QED
      BY <3>1 DEF BuiltFrom
  <2>3. \A i : Above(i) = Over(s, i)
    BY <2>b DEF Above, Over
  <2>4. Levelled
    BY <2>1, <2>c, TreeRight, BuiltIsLevelled
  <2>5. ASSUME NEW i \in 1..len
        PROVE  /\ t[i].parent = IF Above(i) = {} THEN 0 ELSE Max(Above(i))
               /\ t[i].depth = t[t[i].parent].depth + 1
               /\ i \in Range(t[t[i].parent].children)
               /\ \/ \E j \in 1..len : i \in Above(j)
                  \/ t[i].lines = s[i].lines /\ t[i].summary = (s[i].summary /\ s[i].lines # {})
    <3>1. t[i].parent = IF Above(i) = {} THEN 0 ELSE Max(Above(i))
      BY <2>2, <2>3 DEF Nearest
    <3>2. i \in Range(t[t[i].parent].children)
      <4>1. t[i].parent \in 0..len /\ Nearest(s, i) = t[i].parent
        BY <2>2
      <4> QED
        BY <2>2, <4>1
    <3>3. CASE \E j \in 1..len : i \in Above(j)
      BY <2>2, <3>1, <3>2, <3>3
    <3>4. CASE ~\E j \in 1..len : i \in Above(j)
      <4>1. ASSUME NEW m \in 1..len PROVE Nearest(s, m) # i
        <5>1. CASE Over(s, m) = {}
          BY <5>1 DEF Nearest
        <5>2. CASE Over(s, m) # {}
          <6>1. Over(s, m) \in SUBSET (0..m) /\ m \in Nat
            BY DEF Over
          <6>2. Max(Over(s, m)) \in Over(s, m)
            BY <5>2, <6>1, MinAndMax
          <6> QED
            BY <2>3, <3>4, <5>2, <6>2 DEF Nearest
        <5> QED
          BY <5>1, <5>2
      <4> QED
        BY <2>2, <3>1, <3>2, <4>1
    <3> QED
      BY <3>3, <3>4
  <2> QED
    BY <2>1, <2>4, <2>5, <2>a, <2>b, <2>c
<1> QED
  BY <1>1, ChunkInvAlways, PTL

(***************************************************************************)
(* Summaries: from the leaves to the root                                  *)
(***************************************************************************)

\* Any tree whose links lead one level down, and not only those of Build.
FillInit == stage = "built" /\ Levelled /\ SummariesReset
FillSpec == FillInit /\ [][SummariesNext]_<<chunkVars, summaryVars, vocabVars>>

\* The run of the summarizer and the vocabulary updates that the pipeline starts.
SummariesSpec == SummariesInit /\ [][SummariesNext]_<<chunkVars, summaryVars, vocabVars>>

\* A run is under way.
Working == run \in {"depth", "calls", "flush"}

\* The nodes of this depth that are with the model or wait for their write.
Pending == (UNION batches) \cup updated

FillTyped ==
  /\ Levelled
  /\ run \in {"idle", "depth", "calls", "flush", "done", "failed"} /\ depth \in Nat
  /\ memory \in [Nodes -> Origins] /\ saved \in [Nodes -> Origins]

\* What the caller supplied is neither asked for nor written again, in memory as in the store.
GivenKept ==
  /\ \A n \in Nodes : tree[n].summary <=> saved[n] = "given"
  /\ Working => \A n \in Nodes : tree[n].summary <=> memory[n] = "given"

\* The nodes at work are of the depth at work, and one that came back without a summary is known to.
PendingKnown ==
  /\ Working => /\ Pending \subseteq {n \in Nodes : tree[n].depth = depth /\ ~tree[n].summary}
                /\ \A n \in updated : memory[n] # "none" \/ n \in unwritten
  /\ run \in {"idle", "depth", "flush"} => batches = {}
  /\ run \in {"idle", "depth"} => updated = {}

\* The depths ahead are in memory as they were saved.
AheadAsSaved ==
  Working => \A n \in Nodes :
    tree[n].depth < depth \/ (tree[n].depth = depth /\ run = "depth") => memory[n] = saved[n]

\* The depths behind are saved, and so are the nodes of this depth that are no longer at work.
BehindSaved ==
  Working => \A n \in Nodes :
    tree[n].depth > depth \/ (tree[n].depth = depth /\ run # "depth" /\ n \notin Pending) => ~Lacking(n)

FillInv ==
  /\ FillTyped /\ GivenKept /\ PendingKnown /\ AheadAsSaved /\ BehindSaved
  /\ SummariesFillFromTheLeaves

\* The depth that a run starts with is that of the deepest node.
LEMMA DeepestFirst ==
  ASSUME Levelled
  PROVE  DepthOf(Nodes) \in Nat /\ \A n \in Nodes : tree[n].depth <= DepthOf(Nodes)
<1> PICK c : c = Cardinality(Nodes)
  OBVIOUS
<1>1. c \in Nat /\ Nodes # {} /\ \A n \in Nodes : tree[n].depth \in 0..c
  BY FS_CardinalityType DEF Levelled, Nodes
<1> PICK D : D = {tree[n].depth : n \in Nodes}
  OBVIOUS
<1>2. D \subseteq 0..c /\ D # {}
  BY <1>1
<1> DEFINE Past(d) == (d + 1)..c
          T == {Past(d) : d \in D}
<1>3. T \subseteq SUBSET (0..c) /\ T # {}
  BY <1>1, <1>2
<1>4. PICK x \in T : \A y \in T : <<y, x>> \notin StrictSubsetOrdering(0..c)
  <2>1. IsWellFoundedOn(StrictSubsetOrdering(0..c), SUBSET (0..c))
    <3>1. IsFiniteSet(0..c)
      BY <1>1, FS_Interval
    <3> QED
      BY <3>1, FS_StrictSubsetOrderingWellFounded, FS_FiniteSubsetsOfFinite
  <2> HIDE DEF T
  <2> QED
    BY <1>3, <2>1, WFMin
<1>5. PICK d \in D : x = Past(d)
  BY <1>4
<1>7. \A e \in D : d >= e
  <2> SUFFICES ASSUME NEW e \in D, e > d PROVE FALSE
    BY <1>2
  <2>1. Past(e) \subseteq Past(d) /\ e \in Past(d) /\ e \notin Past(e)
    BY <1>1, <1>2
  <2>2. <<Past(e), Past(d)>> \in StrictSubsetOrdering(0..c)
    BY <1>1, <1>2, <2>1 DEF StrictSubsetOrdering
  <2> QED
    BY <1>4, <1>5, <2>2
<1>8. Max(D) \in D /\ \A e \in D : Max(D) >= e
  BY <1>7 DEF Max
<1> QED
  BY <1>1, <1>2, <1>8 DEF DepthOf

\* The batches of a depth are its nodes with something to summarize.
LEMMA BatchesAreTheAsked ==
  ASSUME NEW ns
  PROVE  UNION Batches(ns) = {n \in ns : HasContent(n)}
<1> DEFINE Place(n) == Cardinality({m \in ns : m < n}) \div BatchSize
           ripe == {n \in ns : HasContent(n)}
<1>1. Batches(ns) = {{m \in ripe : Place(m) = Place(n)} : n \in ripe}
  BY DEF Batches
<1> HIDE DEF Place, ripe
<1>2. UNION Batches(ns) = ripe
  BY <1>1
<1> QED
  BY <1>2 DEF ripe

\* A node that has its summary in the store, or could not get one, stays that way.
LEMMA StaysSaved ==
  ASSUME NEW n, ~Lacking(n), saved'[n] = saved[n] \/ saved'[n] # "none", unwritten \subseteq unwritten'
  PROVE  ~Lacking(n)'
BY DEF Lacking

\* Steps that write nothing to the store.
LEMMA NothingWritten ==
  ASSUME FillInv, UNCHANGED <<tree, saved>>, unwritten \subseteq unwritten',
         run' = "done" => run = "done" \/ \A n \in Nodes : ~Lacking(n)
  PROVE  /\ \A n \in Nodes : ~Lacking(n) => ~Lacking(n)'
         /\ SummariesFillFromTheLeaves'
<1>1. Nodes' = Nodes /\ \A n \in Nodes : tree'[n] = tree[n]
  BY DEF Nodes
<1>2. \A n : ~Lacking(n) => ~Lacking(n)'
  BY StaysSaved
<1>3. SummariesFillFromTheLeaves'
  BY <1>1, <1>2 DEF FillInv, SummariesFillFromTheLeaves
<1> QED
  BY <1>2, <1>3

\* The run starts at the deepest nodes with what is saved in memory, or has nothing left to do.
LEMMA Starts ==
  ASSUME FillInv, StartSummaries, UNCHANGED chunkVars
  PROVE  FillInv'
<1>1. UNCHANGED <<tree, saved, batches, updated, unwritten>> /\ memory' = saved
  BY DEF StartSummaries, chunkVars
<1>2. Nodes' = Nodes /\ Levelled'
  BY <1>1 DEF FillInv, FillTyped, Levelled, Nodes
<1>3. /\ \A n \in Nodes : ~Lacking(n) => ~Lacking(n)'
      /\ SummariesFillFromTheLeaves'
  BY <1>1, NothingWritten DEF StartSummaries, Lacking
<1>4. CASE run' = "done" /\ UNCHANGED depth
  BY <1>1, <1>2, <1>3, <1>4
  DEF FillInv, FillTyped, GivenKept, PendingKnown, AheadAsSaved, BehindSaved, Working
<1>5. CASE run' = "depth" /\ depth' = DepthOf(Nodes)
  <2>1. depth' \in Nat /\ \A n \in Nodes : tree[n].depth <= depth'
    BY <1>5, DeepestFirst DEF FillInv, FillTyped
  <2>2. FillTyped' /\ GivenKept' /\ AheadAsSaved'
    BY <1>1, <1>2, <1>5, <2>1 DEF FillInv, FillTyped, GivenKept, AheadAsSaved, Working
  <2>3. BehindSaved'
    BY <1>1, <1>2, <1>5, <2>1 DEF FillInv, FillTyped, BehindSaved, Levelled, Nodes
  <2>4. PendingKnown'
    BY <1>1, <1>2, <1>5 DEF FillInv, PendingKnown, Pending, StartSummaries
  <2> QED
    BY <1>3, <2>2, <2>3, <2>4 DEF FillInv
<1> QED
  BY <1>4, <1>5 DEF StartSummaries

\* A depth begins: its nodes without a summary go out in batches or are named after their title.
LEMMA Begins ==
  ASSUME FillInv, BeginDepth, UNCHANGED chunkVars
  PROVE  FillInv'
<1> PICK ns : ns = {n \in Nodes : tree[n].depth = depth /\ memory[n] = "none"}
  OBVIOUS
<1> PICK bare : bare = {n \in ns : ~HasContent(n)}
  OBVIOUS
<1>1. /\ UNCHANGED <<tree, depth, saved>> /\ run = "depth" /\ run' = "calls"
      /\ memory' = [n \in Nodes |-> IF n \in bare THEN "title" ELSE memory[n]]
      /\ unwritten' = unwritten \cup bare
      /\ batches' = Batches(ns) /\ updated' = {}
  BY DEF BeginDepth, chunkVars
<1>2. Nodes' = Nodes /\ Levelled'
  BY <1>1 DEF FillInv, FillTyped, Levelled, Nodes
<1>3. /\ \A n \in Nodes : ~Lacking(n) => ~Lacking(n)'
      /\ SummariesFillFromTheLeaves'
  BY <1>1, NothingWritten
<1>4. Pending' = ns \ bare
  BY <1>1, BatchesAreTheAsked DEF Pending
<1>5. \A n \in ns : ~tree[n].summary
  BY <1>1 DEF FillInv, GivenKept, Working
<1>6. FillTyped' /\ GivenKept'
  BY <1>1, <1>2, <1>5 DEF FillInv, FillTyped, GivenKept, Working, Origins
<1>7. PendingKnown'
  BY <1>1, <1>2, <1>4, <1>5 DEF PendingKnown
<1>8. AheadAsSaved'
  BY <1>1, <1>2 DEF FillInv, FillTyped, AheadAsSaved, Working, Levelled, Nodes
<1>9. BehindSaved'
  <2> SUFFICES ASSUME NEW n \in Nodes, tree[n].depth > depth \/ (tree[n].depth = depth /\ n \notin Pending')
               PROVE  ~Lacking(n)'
    BY <1>1, <1>2 DEF BehindSaved
  <2>1. CASE tree[n].depth > depth
    BY <1>1, <1>3, <2>1 DEF FillInv, BehindSaved, Working
  <2>2. CASE tree[n].depth = depth /\ n \in bare
    BY <1>1, <2>2 DEF Lacking
  <2>3. CASE tree[n].depth = depth /\ n \notin ns
    BY <1>1, <1>3, <2>3 DEF FillInv, AheadAsSaved, Working, Lacking
  <2> QED
    BY <1>4, <2>1, <2>2, <2>3
<1> QED
  BY <1>3, <1>6, <1>7, <1>8, <1>9 DEF FillInv

\* A batch comes back: its nodes wait for their write, those without a summary are known.
LEMMA Returns ==
  ASSUME FillInv, NEW b, BatchReturns(b), UNCHANGED chunkVars
  PROVE  FillInv'
<1>1. PICK a \in SummarizeBatch(b) :
        /\ memory' = [n \in Nodes |-> IF n \notin b THEN memory[n] ELSE IF n \in a[2] THEN "none"
                                      ELSE IF n \in a[1] THEN "title" ELSE "model"]
        /\ unwritten' = unwritten \cup a[2]
  BY DEF BatchReturns
<1>2. /\ UNCHANGED <<tree, run, depth, saved>> /\ run = "calls" /\ b \in batches
      /\ batches' = batches \ {b} /\ updated' = updated \cup b
  BY DEF BatchReturns, chunkVars
<1>3. Nodes' = Nodes /\ Levelled'
  BY <1>2 DEF FillInv, FillTyped, Levelled, Nodes
<1>4. /\ \A n \in Nodes : ~Lacking(n) => ~Lacking(n)'
      /\ SummariesFillFromTheLeaves'
  BY <1>1, <1>2, NothingWritten
<1>5. Pending' = Pending
  BY <1>2 DEF Pending
<1>6. b \subseteq Pending /\ \A n \in b : n \in Nodes /\ tree[n].depth = depth /\ ~tree[n].summary
  BY <1>2 DEF FillInv, PendingKnown, Working, Pending
<1>7. FillTyped' /\ GivenKept'
  BY <1>1, <1>2, <1>3, <1>6 DEF FillInv, FillTyped, GivenKept, Working, Origins
<1>8. PendingKnown'
  <2>1. \A n \in updated' : memory'[n] # "none" \/ n \in unwritten'
    <3>1. updated \subseteq Nodes
      BY <1>2 DEF FillInv, PendingKnown, Pending, Working
    <3> QED
      BY <1>1, <1>2, <1>6, <3>1 DEF FillInv, PendingKnown, Working
  <2> QED
    BY <1>2, <1>3, <1>5, <2>1 DEF FillInv, PendingKnown, Working
<1>9. AheadAsSaved'
  BY <1>1, <1>2, <1>3, <1>6 DEF FillInv, FillTyped, AheadAsSaved, Working, Levelled, Nodes
<1>10. BehindSaved'
  BY <1>2, <1>3, <1>4, <1>5 DEF FillInv, BehindSaved, Working
<1> QED
  BY <1>4, <1>7, <1>8, <1>9, <1>10 DEF FillInv

\* A node is written, or its write fails; the nodes below it are all there.
LEMMA Flushes ==
  ASSUME FillInv, NEW n, NEW ok \in BOOLEAN, FlushNode(n, ok), UNCHANGED chunkVars
  PROVE  FillInv'
<1>1. /\ UNCHANGED <<tree, run, depth, memory, batches>> /\ run = "flush"
      /\ n \in updated /\ updated' = updated \ {n}
      /\ saved' = IF ok THEN [saved EXCEPT ![n] = memory[n]] ELSE saved
      /\ unwritten' = IF ok THEN unwritten ELSE unwritten \cup {n}
  BY DEF FlushNode, chunkVars
<1>2. Nodes' = Nodes /\ Levelled'
  BY <1>1 DEF FillInv, FillTyped, Levelled, Nodes
<1>3. n \in Nodes /\ tree[n].depth = depth /\ ~tree[n].summary /\ (memory[n] # "none" \/ n \in unwritten)
  BY <1>1 DEF FillInv, PendingKnown, Working, Pending
<1>4. ~Lacking(n)'
  BY <1>1, <1>3 DEF FillInv, FillTyped, Lacking
<1>5. \A m \in Nodes : ~Lacking(m) => ~Lacking(m)'
  BY <1>1, <1>4 DEF FillInv, FillTyped, Lacking
<1>6. FillTyped' /\ GivenKept'
  BY <1>1, <1>2, <1>3 DEF FillInv, FillTyped, GivenKept, Working
<1>7. PendingKnown'
  BY <1>1, <1>2 DEF FillInv, PendingKnown, Working, Pending
<1>8. AheadAsSaved'
  BY <1>1, <1>2, <1>3 DEF FillInv, FillTyped, AheadAsSaved, Working, Levelled, Nodes
<1>9. BehindSaved'
  BY <1>1, <1>2, <1>4, <1>5 DEF FillInv, BehindSaved, Working, Pending
<1>10. SummariesFillFromTheLeaves'
  <2>1. \A m \in Range(tree[n].children) : m \in Nodes /\ tree[m].depth > depth
    BY <1>1, <1>3 DEF FillInv, FillTyped, Levelled, Nodes
  <2>2. \A i \in DOMAIN tree[n].children : ~Lacking(tree[n].children[i])'
    BY <1>1, <1>5, <2>1 DEF FillInv, BehindSaved, Working, Range
  <2>3. ASSUME NEW m \in Nodes, saved'[m] \notin {"none", "given"}, NEW i \in DOMAIN tree[m].children
        PROVE  ~Lacking(tree[m].children[i])'
    <3>1. CASE m = n
      BY <2>2, <2>3, <3>1
    <3>2. CASE m # n
      <4>1. tree[m].children[i] \in Nodes
        BY DEF FillInv, FillTyped, Levelled, Nodes, Range
      <4>2. saved[m] \notin {"none", "given"}
        BY <1>1, <2>3, <3>2 DEF FillInv, FillTyped
      <4>3. ~Lacking(tree[m].children[i])
        BY <4>2 DEF FillInv, SummariesFillFromTheLeaves
      <4> QED
        BY <1>1, <1>5, <4>1, <4>3
    <3> QED
      BY <3>1, <3>2
  <2> QED
    BY <1>1, <1>2, <1>6, <2>3 DEF SummariesFillFromTheLeaves, GivenKept
<1> QED
  BY <1>6, <1>7, <1>8, <1>9, <1>10 DEF FillInv

\* The next depth, or the end of the run after the root: everything below has been written.
LEMMA NextBegins ==
  ASSUME FillInv, NextDepth, UNCHANGED chunkVars
  PROVE  FillInv'
<1>1. /\ UNCHANGED <<tree, memory, saved, batches, updated, unwritten>>
      /\ run = "flush" /\ updated = {}
      /\ IF depth = 0 THEN run' = "done" /\ UNCHANGED depth ELSE run' = "depth" /\ depth' = depth - 1
  BY DEF NextDepth, chunkVars
<1>2. Nodes' = Nodes /\ Levelled' /\ \A n \in Nodes : tree[n].depth \in Nat
  BY <1>1, FS_CardinalityType DEF FillInv, FillTyped, Levelled, Nodes
<1>3. batches = {} /\ Pending = {}
  BY <1>1 DEF FillInv, PendingKnown, Pending
<1>4. \A n \in Nodes : tree[n].depth >= depth => ~Lacking(n)
  BY <1>1, <1>2, <1>3 DEF FillInv, FillTyped, BehindSaved, Working
<1>5. /\ \A n \in Nodes : ~Lacking(n) => ~Lacking(n)'
      /\ SummariesFillFromTheLeaves'
  BY <1>1, <1>2, <1>4, NothingWritten
<1>6. FillTyped' /\ GivenKept'
  BY <1>1, <1>2 DEF FillInv, FillTyped, GivenKept, Working
<1>7. PendingKnown'
  BY <1>1, <1>3 DEF PendingKnown, Pending
<1>8. AheadAsSaved' /\ BehindSaved'
  BY <1>1, <1>2, <1>4, <1>5 DEF FillInv, FillTyped, AheadAsSaved, BehindSaved, Working
<1> QED
  BY <1>5, <1>6, <1>7, <1>8 DEF FillInv

\* The calls are all back, a batch fails, or the process dies: nothing is written.
LEMMA StopsOrWaits ==
  ASSUME FillInv, CallsDone \/ (\E b \in SUBSET Nodes : BatchFails(b)) \/ SummariesCrash, UNCHANGED chunkVars
  PROVE  FillInv'
<1>1. UNCHANGED <<tree, depth, saved, unwritten>> /\ run' \in {"flush", "failed", "idle"}
  BY DEF CallsDone, BatchFails, SummariesCrash, chunkVars
<1>2. Nodes' = Nodes /\ Levelled'
  BY <1>1 DEF FillInv, FillTyped, Levelled, Nodes
<1>3. /\ \A n \in Nodes : ~Lacking(n) => ~Lacking(n)'
      /\ SummariesFillFromTheLeaves'
  BY <1>1, NothingWritten
<1>4. CASE CallsDone
  <2>1. /\ run = "calls" /\ run' = "flush" /\ batches = {} /\ UNCHANGED <<memory, batches, updated>>
    BY <1>4 DEF CallsDone
  <2> QED
    BY <1>1, <1>2, <1>3, <2>1
    DEF FillInv, FillTyped, GivenKept, PendingKnown, AheadAsSaved, BehindSaved, Working, Pending
<1>5. CASE ~CallsDone
  <2>1. run' \in {"failed", "idle"} /\ memory' \in [Nodes -> Origins] /\ batches' = {}
        /\ (run' = "idle" => updated' = {})
    BY <1>5 DEF BatchFails, SummariesCrash, FillInv, FillTyped, Origins
  <2> QED
    BY <1>1, <1>2, <1>3, <2>1
    DEF FillInv, FillTyped, GivenKept, PendingKnown, AheadAsSaved, BehindSaved, Working
<1> QED
  BY <1>4, <1>5

\* A document's nodes are saved as they were built, with the summaries that were supplied.
LEMMA FillStart == FillInit => FillInv
<1> SUFFICES ASSUME FillInit PROVE FillInv
  OBVIOUS
<1>1. /\ Levelled /\ run = "idle" /\ depth = 0 /\ batches = {} /\ updated = {}
      /\ saved = [n \in Nodes |-> IF tree[n].summary THEN "given" ELSE "none"]
      /\ memory = [n \in Nodes |-> "none"]
  BY DEF FillInit, SummariesReset
<1>2. FillTyped /\ GivenKept
  BY <1>1 DEF FillTyped, GivenKept, Working, Origins
<1>3. PendingKnown /\ AheadAsSaved /\ BehindSaved
  BY <1>1 DEF PendingKnown, Pending, AheadAsSaved, BehindSaved, Working
<1>4. SummariesFillFromTheLeaves
  BY <1>1 DEF SummariesFillFromTheLeaves
<1> QED
  BY <1>2, <1>3, <1>4 DEF FillInv

\* Every step of the summarizer and of the vocabulary updates keeps the invariant.
LEMMA FillStep == FillInv /\ [SummariesNext]_<<chunkVars, summaryVars, vocabVars>> => FillInv'
<1> SUFFICES ASSUME FillInv, [SummariesNext]_<<chunkVars, summaryVars, vocabVars>> PROVE FillInv'
  OBVIOUS
<1>1. CASE UNCHANGED <<chunkVars, summaryVars>>
  <2>1. UNCHANGED <<tree, run, depth, memory, saved, batches, updated, unwritten>>
    BY <1>1 DEF chunkVars, summaryVars
  <2>2. Nodes' = Nodes /\ Levelled' /\ Pending' = Pending /\ (Working' <=> Working)
    BY <2>1 DEF FillInv, FillTyped, Levelled, Nodes, Pending, Working
  <2>3. /\ \A n \in Nodes : ~Lacking(n) => ~Lacking(n)'
        /\ SummariesFillFromTheLeaves'
    BY <2>1, NothingWritten
  <2> QED
    BY <2>1, <2>2, <2>3 DEF FillInv, FillTyped, GivenKept, PendingKnown, AheadAsSaved, BehindSaved
<1>2. CASE SummariesStep /\ UNCHANGED chunkVars
  BY <1>2, Starts, Begins, Returns, Flushes, NextBegins, StopsOrWaits DEF SummariesStep
<1> QED
  BY <1>1, <1>2 DEF SummariesNext

\* The store fills up from the leaves, for a tree of any size and any number of crashes, failing batches
\* and failing writes: a section is saved only when its parts are (or could not be), a finished run
\* leaves nothing out and nothing supplied is replaced.  (BatchSummarizer, resume_summarization.)
THEOREM StoreFillsFromTheLeaves == FillSpec => []SummariesFillFromTheLeaves
<1>1. FillInv => SummariesFillFromTheLeaves
  BY DEF FillInv
<1> QED
  BY FillStart, FillStep, <1>1, PTL DEF FillSpec

\* A tree that build_tree makes of sections with or without headings, texts and supplied summaries is
\* one that a run can start from.
LEMMA BuiltTreesCanBeFilled == SummariesInit => FillInit
<1> SUFFICES ASSUME SummariesInit PROVE FillInit
  OBVIOUS
<1>1. PICK n \in 0..MaxNodes, parents \in [1..MaxNodes -> BOOLEAN],
           empty \in SUBSET (1..MaxNodes), given \in SUBSET (1..MaxNodes) :
        tree = ToPageNodes([i \in 1..n |-> [headed |-> parents[i], level |-> i, summary |-> i \in given,
                                           lines |-> IF i \in empty THEN {} ELSE {i}]])
  BY DEF SummariesInit
<1>a. PICK s : s = [i \in 1..n |-> [headed |-> parents[i], level |-> i, summary |-> i \in given,
                                   lines |-> IF i \in empty THEN {} ELSE {i}]]
  OBVIOUS
<1>2. n \in Nat /\ 1..n \subseteq 1..MaxNodes
  BY SummariesAssumption
<1>3. ASSUME NEW i \in 1..n
      PROVE  [headed |-> parents[i], level |-> i, summary |-> i \in given,
              lines |-> IF i \in empty THEN {} ELSE {i}] \in Sections
  <2>1. i \in Nat /\ parents[i] \in BOOLEAN
    BY <1>2
  <2>2. PICK lines \in SUBSET Nat : lines = IF i \in empty THEN {} ELSE {i}
    BY <2>1
  <2>3. PICK supplied : supplied = (i \in given)
    OBVIOUS
  <2>4. supplied \in BOOLEAN
    BY <2>3
  <2> QED
    BY <2>1, <2>2, <2>3, <2>4 DEF Sections
<1>4. s \in Seq(Sections)
  BY <1>2, <1>3, <1>a, SeqDef
<1>5. BuiltFrom(s, Len(s), tree)
  BY <1>1, <1>4, <1>a, TreeRight
<1> QED
  BY <1>5, BuiltIsLevelled DEF SummariesInit, FillInit

\* From every tree that build_tree makes the store fills up from the leaves, across crashes, failing
\* batches and failing writes.
THEOREM BuiltTreesFill == SummariesSpec => []SummariesFillFromTheLeaves
<1> QED
  BY BuiltTreesCanBeFilled, StoreFillsFromTheLeaves, PTL DEF SummariesSpec, FillSpec

(***************************************************************************)
(* The domain vocabulary                                                   *)
(***************************************************************************)

VocabStates == [pc : {"idle", "done"}] \cup [pc : {"asked"}, existing : SUBSET VTerms]

VocabTyped ==
  /\ vocab \subseteq VTerms /\ known \subseteq VTerms /\ overlap \in BOOLEAN
  /\ vtask \in [VTasks -> VocabStates]

Asked(t) == vtask[t].pc = "asked"

\* Without an overlap at most one update is under way, and it has read the vocabulary as it is.
OneReader ==
  ~overlap =>
    /\ \A t, u \in VTasks : Asked(t) /\ Asked(u) => t = u
    /\ \A t \in VTasks : Asked(t) => vtask[t].existing = vocab

VocabInv == VocabTyped /\ OneReader /\ TermsAreLostOnlyToOverlaps

\* An ingestion starts with an empty vocabulary that nobody reads.
LEMMA VocabStart == SummariesReset => VocabInv
<1> SUFFICES ASSUME SummariesReset PROVE VocabInv
  OBVIOUS
<1>1. vocab = {} /\ vtask = [t \in VTasks |-> [pc |-> "idle"]] /\ known = {} /\ overlap = FALSE
  BY DEF SummariesReset
<1>2. VocabTyped
  BY <1>1 DEF VocabTyped, VocabStates
<1>3. OneReader /\ TermsAreLostOnlyToOverlaps
  BY <1>1 DEF OneReader, Asked, TermsAreLostOnlyToOverlaps
<1> QED
  BY <1>2, <1>3 DEF VocabInv

\* A task that reads the vocabulary while another is about to write it is an overlap.
LEMMA Spawns ==
  ASSUME VocabInv, NEW t \in VTasks, SpawnVocab(t)
  PROVE  VocabInv'
<1>1. VocabTyped'
  BY DEF VocabInv, VocabTyped, SpawnVocab, VocabStates
<1>2. OneReader'
  BY <1>1 DEF VocabInv, VocabTyped, SpawnVocab, VocabStates, OneReader, Asked
<1> QED
  BY <1>1, <1>2 DEF VocabInv, SpawnVocab, TermsAreLostOnlyToOverlaps, VocabTyped

\* A task that read the vocabulary last writes it back with its own terms added.
LEMMA Writes ==
  ASSUME VocabInv, NEW t \in VTasks, WriteVocab(t)
  PROVE  VocabInv'
<1>1. VocabTyped'
  BY DEF VocabInv, VocabTyped, WriteVocab, VocabStates, ExtractDomainVocab, MergedTerms
<1>2. OneReader'
  BY <1>1 DEF VocabInv, VocabTyped, WriteVocab, VocabStates, OneReader, Asked
<1>3. TermsAreLostOnlyToOverlaps'
  BY DEF VocabInv, VocabTyped, WriteVocab, VocabStates, OneReader, Asked, TermsAreLostOnlyToOverlaps, MergedTerms, ExtractDomainVocab
<1> QED
  BY <1>1, <1>2, <1>3 DEF VocabInv

\* Every step keeps what is known of the vocabulary.
LEMMA VocabStep == VocabInv /\ [SummariesNext]_<<chunkVars, summaryVars, vocabVars>> => VocabInv'
<1> SUFFICES ASSUME VocabInv, [SummariesNext]_<<chunkVars, summaryVars, vocabVars>> PROVE VocabInv'
  OBVIOUS
<1>1. CASE UNCHANGED vocabVars
  BY <1>1 DEF VocabInv, VocabTyped, OneReader, Asked, TermsAreLostOnlyToOverlaps, vocabVars
<1>2. CASE \E t \in VTasks : SpawnVocab(t) \/ WriteVocab(t)
  BY <1>2, Spawns, Writes
<1> QED
  BY <1>1, <1>2 DEF SummariesNext

\* However many ingestions extend the vocabulary: a term that was ever written is still there unless
\* two updates overlapped.  (vocab.rs: read, ask the model, write back.)
THEOREM LossesAreOverlaps == SummariesSpec => []TermsAreLostOnlyToOverlaps
<1>1. VocabInv => TermsAreLostOnlyToOverlaps
  BY DEF VocabInv
<1>2. SummariesInit => VocabInv
  BY VocabStart DEF SummariesInit
<1> QED
  BY <1>1, <1>2, VocabStep, PTL DEF SummariesSpec

\* Everything the summarizer and the vocabulary updates keep has its type.
THEOREM SummariesTypeCorrect == SummariesSpec => []SummariesTypeOK
<1> DEFINE Bounded == /\ batches \subseteq SUBSET Nodes /\ updated \subseteq Nodes /\ unwritten \subseteq Nodes
                      /\ crashes \in 0..MaxCrashes
<1>1. SummariesInit => FillInv /\ Bounded /\ VocabInv
  <2>1. SummariesInit => FillInv
    BY BuiltTreesCanBeFilled, FillStart
  <2>2. SummariesInit => VocabInv
    BY VocabStart DEF SummariesInit
  <2>3. SummariesInit => Bounded
    BY SummariesAssumption DEF SummariesInit, SummariesReset
  <2> QED
    BY <2>1, <2>2, <2>3
<1>2. Bounded /\ [SummariesNext]_<<chunkVars, summaryVars, vocabVars>> => Bounded'
  <2> SUFFICES ASSUME Bounded, [SummariesNext]_<<chunkVars, summaryVars, vocabVars>> PROVE Bounded'
    OBVIOUS
  <2>1. Nodes' = Nodes
    BY DEF SummariesNext, chunkVars, Nodes
  <2>2. CASE UNCHANGED summaryVars
    BY <2>1, <2>2 DEF summaryVars
  <2>3. CASE SummariesStep
    <3>1. CASE StartSummaries \/ CallsDone \/ NextDepth
      BY <2>1, <3>1 DEF StartSummaries, CallsDone, NextDepth
    <3>2. CASE BeginDepth
      <4>1. PICK ns \in SUBSET Nodes : /\ unwritten' = unwritten \cup {n \in ns : ~HasContent(n)}
                                       /\ batches' = Batches(ns) /\ updated' = {} /\ UNCHANGED crashes
        BY <3>2 DEF BeginDepth
      <4>2. UNION Batches(ns) \subseteq ns
        BY BatchesAreTheAsked
      <4> QED
        BY <2>1, <4>1, <4>2
    <3>3. CASE SummariesCrash
      BY <2>1, <3>3, SummariesAssumption DEF SummariesCrash
    <3>4. ASSUME NEW b \in SUBSET Nodes, BatchReturns(b) \/ BatchFails(b) PROVE Bounded'
      BY <2>1, <3>4 DEF BatchReturns, BatchFails, SummarizeBatch
    <3>5. ASSUME NEW n \in Nodes, NEW ok \in BOOLEAN, FlushNode(n, ok) PROVE Bounded'
      BY <2>1, <3>5 DEF FlushNode
    <3> QED
      BY <2>3, <3>1, <3>2, <3>3, <3>4, <3>5 DEF SummariesStep
  <2> QED
    BY <2>2, <2>3 DEF SummariesNext
<1>3. FillInv /\ Bounded /\ VocabInv => SummariesTypeOK
  BY DEF FillInv, FillTyped, VocabInv, VocabTyped, SummariesTypeOK
<1> QED
  BY <1>1, <1>2, <1>3, FillStep, VocabStep, PTL DEF SummariesSpec
=============================================================================
