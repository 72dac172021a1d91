------------------------ MODULE LibraryBrowse_proofs ------------------------
(***************************************************************************)
(* Proofs about the grid of the library page, for every catalog, page      *)
(* size, filter set and look-ahead: no image is listed twice but those the *)
(* mirror of the list had wrong, a list that says it is complete is, and   *)
(* the warm pages are what the server answers now.                         *)
(*                                                                         *)
(* The first part is about the pages: the server ranks what matches, a     *)
(* page is a slice of it, and the pages before and the page at an offset   *)
(* are together the pages up to the next one.  The second part shows that  *)
(* every step keeps the invariant IInv.                                    *)
(***************************************************************************)
EXTENDS LibraryBrowse, SequenceTheorems, FiniteSetTheorems, WellFoundedInduction, TLAPS

-----------------------------------------------------------------------------
(* Finite sets of numbers in their order.                                  *)

\* A set of numbers that is not empty has a least one.
LEMMA LeastNumber ==
  ASSUME NEW T, T \subseteq Nat, T # {}
  PROVE  \E x \in T : \A y \in T : x <= y
<1>1. IsWellFoundedOn(OpToRel(<, Nat), Nat)
  BY NatLessThanWellFounded
<1>2. \E x \in T : \A y \in T : ~ (<<y, x>> \in OpToRel(<, Nat))
  BY <1>1, WFMin
<1>3. ASSUME NEW x \in T, NEW y \in T, ~ (<<y, x>> \in OpToRel(<, Nat))
      PROVE  x <= y
  <2>1. <<y, x>> \in Nat \X Nat
    OBVIOUS
  <2>. QED
    BY <1>3, <2>1 DEF OpToRel
<1>. QED
  BY <1>2, <1>3

\* And one below a bound has a greatest one.
LEMMA GreatestNumber ==
  ASSUME NEW N \in Nat, NEW T, T \subseteq 0..N, T # {}
  PROVE  \E x \in T : \A y \in T : y <= x
<1>. DEFINE U == {N - x : x \in T}
<1>1. U \subseteq Nat /\ U # {}
  <2>1. \A x \in T : x \in 0..N
    OBVIOUS
  <2>2. \A x \in T : N - x \in Nat
    BY <2>1
  <2>. QED
    BY <2>2
<1>2. PICK u \in U : \A v \in U : u <= v
  BY <1>1, LeastNumber
<1>3. PICK x \in T : u = N - x
  OBVIOUS
<1>4. ASSUME NEW y \in T PROVE y <= x
  <2>1. u <= N - y
    BY <1>2
  <2>. QED
    BY <1>3, <2>1
<1>. QED
  BY <1>4

\* How many numbers of a set are not above n.
UpTo(at, n) == Cardinality({m \in at : m <= n})

\* UpTo counts the members of a set one by one.
LEMMA UpToGrows ==
  ASSUME NEW N \in Nat, NEW at, at \subseteq 1..N
  PROVE  /\ IsFiniteSet(at) /\ Cardinality(at) \in Nat
         /\ \A n \in 0..N : UpTo(at, n) \in 0..Cardinality(at)
         /\ UpTo(at, 0) = 0 /\ UpTo(at, N) = Cardinality(at)
         /\ \A n \in 1..N : /\ n \in at => UpTo(at, n) = UpTo(at, n - 1) + 1
                            /\ n \notin at => UpTo(at, n) = UpTo(at, n - 1)
         /\ \A n, m \in 0..N : n <= m => UpTo(at, n) <= UpTo(at, m)
<1>0. \A m \in at : m \in 1..N /\ m \in Int /\ 1 <= m /\ m <= N /\ ~(m <= 0)
  <2>1. \A m \in at : m \in 1..N
    OBVIOUS
  <2>. QED
    BY <2>1
<1>1. IsFiniteSet(at)
  <2>1. IsFiniteSet(1..N)
    BY FS_Interval
  <2>. QED
    BY <2>1, FS_Subset
<1>2. Cardinality(at) \in Nat
  BY <1>1, FS_CardinalityType
<1>3. ASSUME NEW S, S \subseteq at PROVE IsFiniteSet(S) /\ Cardinality(S) \in 0..Cardinality(at)
  <2>1. IsFiniteSet(S) /\ Cardinality(S) <= Cardinality(at)
    BY <1>1, <1>3, FS_Subset
  <2>2. Cardinality(S) \in Nat
    BY <2>1, FS_CardinalityType
  <2>. QED
    BY <1>2, <2>1, <2>2
<1>4. \A n \in 0..N : UpTo(at, n) \in 0..Cardinality(at)
  BY <1>3 DEF UpTo
<1>5. UpTo(at, 0) = 0
  <2>1. {m \in at : m <= 0} = {}
    BY <1>0
  <2>. QED
    BY <2>1, FS_EmptySet DEF UpTo
<1>6. UpTo(at, N) = Cardinality(at)
  <2>1. {m \in at : m <= N} = at
    BY <1>0
  <2>. QED
    BY <2>1 DEF UpTo
<1>7. ASSUME NEW n \in 1..N 
      PROVE  /\ n \in at => UpTo(at, n) = UpTo(at, n - 1) + 1
             /\ n \notin at => UpTo(at, n) = UpTo(at, n - 1)
  <2>. DEFINE S == {m \in at : m <= n - 1}
  <2>1. IsFiniteSet(S) /\ n \notin S
    BY <1>3
  <2>4. \A m \in at : m <= n <=> m <= n - 1 \/ m = n
    BY <1>0
  <2>2. CASE n \in at
    <3>1. {m \in at : m <= n} = S \cup {n}
      <4>1. n <= n
        OBVIOUS
      <4>. QED
        BY <2>2, <2>4, <4>1
    <3>2. Cardinality(S \cup {n}) = Cardinality(S) + 1
      BY <2>1, FS_AddElement
    <3>. QED
      BY <2>2, <3>1, <3>2 DEF UpTo
  <2>3. CASE n \notin at
    <3>1. {m \in at : m <= n} = S
      BY <2>3, <2>4
    <3>2. Cardinality(S) \in Nat
      BY <2>1, FS_CardinalityType
    <3>. QED
      BY <2>3, <3>1, <3>2 DEF UpTo
  <2>. QED
    BY <2>2, <2>3
<1>8. ASSUME NEW n \in 0..N, NEW m \in 0..N, n <= m PROVE UpTo(at, n) <= UpTo(at, m)
  <2>. DEFINE S == {k \in at : k <= n}
              T == {k \in at : k <= m}
  <2>1. IsFiniteSet(T) /\ S \subseteq T
    <3>1. \A k \in at : k \in Int
      BY <1>0
    <3>0. n \in Int /\ m \in Int
      OBVIOUS
    <3>2. ASSUME NEW k \in at, k <= n PROVE k <= m
      <4>1. k \in Int
        BY <3>1
      <4>. QED
        BY <1>8, <3>0, <3>2, <4>1
    <3>3. T \subseteq at
      OBVIOUS
    <3>. QED
      BY <1>3, <3>2, <3>3
  <2>2. Cardinality(S) <= Cardinality(T)
    BY <2>1, FS_Subset
  <2>. QED
    BY <2>2 DEF UpTo
<1>. QED
  BY <1>1, <1>2, <1>4, <1>5, <1>6, <1>7, <1>8

\* InOrder lists a set once, from its least number up.
LEMMA InOrderFacts ==
  ASSUME NEW N \in Nat, NEW at, at \subseteq 1..N
  PROVE  /\ IsFiniteSet(at) /\ Cardinality(at) \in Nat
         /\ InOrder(at) \in [1..Cardinality(at) -> at]
         /\ \A i, j \in 1..Cardinality(at) : i < j => InOrder(at)[i] < InOrder(at)[j]
         /\ \A n \in at : UpTo(at, n) \in 1..Cardinality(at) /\ InOrder(at)[UpTo(at, n)] = n
<1>. DEFINE C == Cardinality(at)
<1>1. /\ IsFiniteSet(at) /\ C \in Nat
      /\ \A n \in 0..N : UpTo(at, n) \in 0..C
      /\ UpTo(at, 0) = 0 /\ UpTo(at, N) = C
      /\ \A n \in 1..N : /\ n \in at => UpTo(at, n) = UpTo(at, n - 1) + 1
                         /\ n \notin at => UpTo(at, n) = UpTo(at, n - 1)
      /\ \A n, m \in 0..N : n <= m => UpTo(at, n) <= UpTo(at, m)
  BY UpToGrows
<1>. HIDE DEF C
<1>2. ASSUME NEW k \in 1..C PROVE \E n \in at : UpTo(at, n) = k
  <2>. DEFINE T == {n \in 0..N : UpTo(at, n) >= k}
  <2>1. T \subseteq Nat /\ N \in T
    BY <1>1
  <2>2. PICK n \in T : \A m \in T : n <= m
    BY <2>1, LeastNumber
  <2>3. n # 0
    BY <1>1
  <2>4. n - 1 \in 0..N /\ n \in 1..N /\ n - 1 \notin T
    BY <2>2, <2>3
  <2>5. UpTo(at, n - 1) \in Int /\ UpTo(at, n) \in Int
    BY <1>1, <2>4
  <2>7. UpTo(at, n - 1) < k /\ UpTo(at, n) >= k
    BY <2>4, <2>5
  <2>8. n \in at
    BY <1>1, <2>4, <2>5, <2>7
  <2>6. n \in at /\ UpTo(at, n) = k
    BY <1>1, <2>4, <2>5, <2>7, <2>8
  <2>. QED
    BY <2>6
<1>3. \A n \in at : UpTo(at, n) \in 1..C
  <2>1. ASSUME NEW n \in at PROVE UpTo(at, n) \in 1..C
    <3>1. n \in 1..N /\ n - 1 \in 0..N /\ n \in 0..N
      OBVIOUS
    <3>2. UpTo(at, n) = UpTo(at, n - 1) + 1
      BY <1>1, <3>1
    <3>3. UpTo(at, n - 1) \in 0..C /\ UpTo(at, n) \in 0..C
      BY <1>1, <3>1
    <3>. QED
      BY <1>1, <3>2, <3>3
  <2>. QED
    BY <2>1
<1>4. \A n, m \in at : n < m => UpTo(at, n) < UpTo(at, m)
  <2>1. ASSUME NEW n \in at, NEW m \in at, n < m PROVE UpTo(at, n) < UpTo(at, m)
    <3>1. n \in 0..N /\ m \in 1..N /\ m - 1 \in 0..N /\ n <= m - 1
      BY <2>1
    <3>2. UpTo(at, n) \in Int /\ UpTo(at, m - 1) \in Int
      BY <1>1, <3>1
    <3>3. UpTo(at, m) = UpTo(at, m - 1) + 1
      BY <1>1, <3>1
    <3>4. UpTo(at, n) <= UpTo(at, m - 1)
      BY <1>1, <3>1
    <3>. QED
      BY <3>2, <3>3, <3>4
  <2>. QED
    BY <2>1
<1>. DEFINE f == InOrder(at)
<1>5. f = [k \in 1..C |-> CHOOSE n \in at : UpTo(at, n) = k]
  BY DEF InOrder, UpTo, C
<1>. HIDE DEF f
<1>6. ASSUME NEW k \in 1..C PROVE f[k] \in at /\ UpTo(at, f[k]) = k
  <2>1. f[k] = CHOOSE n \in at : UpTo(at, n) = k
    BY <1>5
  <2>. QED
    BY <1>2, <2>1
<1>7. f \in [1..C -> at]
  BY <1>5, <1>6
<1>8. ASSUME NEW i \in 1..C, NEW j \in 1..C, i < j PROVE f[i] < f[j]
  <2>1. f[i] \in at /\ f[j] \in at /\ UpTo(at, f[i]) = i /\ UpTo(at, f[j]) = j
    BY <1>6
  <2>2. f[i] \in 1..N /\ f[j] \in 1..N
    BY <2>1
  <2>3. CASE f[j] < f[i]
    <3>1. UpTo(at, f[j]) < UpTo(at, f[i])
      BY <1>4, <2>1, <2>3
    <3>. QED
      BY <1>8, <2>1, <3>1
  <2>4. CASE f[j] = f[i]
    BY <1>8, <2>1, <2>4
  <2>. QED
    BY <2>2, <2>3, <2>4
<1>9. ASSUME NEW n \in at PROVE f[UpTo(at, n)] = n
  <2>. DEFINE k == UpTo(at, n)
  <2>1. k \in 1..C
    BY <1>3
  <2>2. f[k] \in at /\ UpTo(at, f[k]) = UpTo(at, n)
    BY <1>6, <2>1
  <2>3. n \in 1..N /\ f[k] \in 1..N
    BY <2>2
  <2>4. ~(f[k] < n) /\ ~(n < f[k])
    BY <1>1, <1>4, <2>2, <2>3
  <2>. QED
    BY <2>3, <2>4
<1>. QED
  BY <1>1, <1>3, <1>7, <1>8, <1>9 DEF C, f

-----------------------------------------------------------------------------
(* Rows: a list of images, none of them twice.                             *)

Rows == {q \in Seq(Images) : \A i, j \in DOMAIN q : q[i] = q[j] => i = j}

\* A list of images in which only those of M may be twice.
Listings(M) ==
    {q \in Seq(Images) : \A i, j \in DOMAIN q : q[i] = q[j] => i = j \/ q[i] \in M}

Pages == [rows : Rows, more : BOOLEAN]

\* A function on 1..n is a list of n.
LEMMA ListOf ==
  ASSUME NEW S, NEW n \in Nat, NEW f \in [1..n -> S]
  PROVE  f \in Seq(S) /\ Len(f) = n /\ DOMAIN f = 1..n
<1>1. f \in Seq(S)
  BY SeqDef
<1>. QED
  BY <1>1, LenProperties

\* What a list of rows is.
LEMMA RowsAre ==
  ASSUME NEW q \in Rows
  PROVE  /\ q \in Seq(Images) /\ Len(q) \in Nat /\ DOMAIN q = 1..Len(q)
         /\ q \in [1..Len(q) -> Images]
         /\ \A i, j \in 1..Len(q) : q[i] = q[j] => i = j
         /\ Seqs!ToSet(q) \subseteq Images
<1>. QED
  BY LenProperties DEF Rows, Seqs!ToSet

\* A list that only goes up, or only down, has nothing twice.
LEMMA RowsOf ==
  ASSUME NEW n \in Nat, NEW f \in [1..n -> Images],
         \A i, j \in 1..n : i < j => f[i] # f[j]
  PROVE  f \in Rows /\ Len(f) = n
<1>1. f \in Seq(Images) /\ Len(f) = n /\ DOMAIN f = 1..n
  BY ListOf
<1>2. ASSUME NEW i \in 1..n, NEW j \in 1..n, f[i] = f[j] PROVE i = j
  <2>1. i \in Int /\ j \in Int /\ ~(i < j) /\ ~(j < i)
    BY <1>2
  <2>. QED
    BY <2>1
<1>. QED
  BY <1>1, <1>2 DEF Rows

\* A set of images in order is a list of rows that goes up.
LEMMA InOrderRows ==
  ASSUME NEW at, at \subseteq Images
  PROVE  /\ InOrder(at) \in Rows /\ Seqs!ToSet(InOrder(at)) = at
         /\ \A i, j \in 1..Len(InOrder(at)) : i < j => InOrder(at)[i] < InOrder(at)[j]
<1>. DEFINE f == InOrder(at)  C == Cardinality(at)
<1>1. LastImage \in Nat /\ at \subseteq 1..LastImage
  BY BrowseAssumption DEF Images
<1>2. /\ C \in Nat /\ f \in [1..C -> at]
      /\ \A i, j \in 1..C : i < j => f[i] < f[j]
      /\ \A n \in at : UpTo(at, n) \in 1..C /\ f[UpTo(at, n)] = n
  BY <1>1, InOrderFacts
<1>. HIDE DEF f, C
<1>3. f \in [1..C -> Images]
  BY <1>2
<1>4. \A i, j \in 1..C : i < j => f[i] # f[j]
  <2>1. ASSUME NEW i \in 1..C, NEW j \in 1..C, i < j PROVE f[i] # f[j]
    <3>1. f[i] < f[j] /\ f[i] \in 1..LastImage /\ f[j] \in 1..LastImage
      BY <1>1, <1>2, <2>1
    <3>. QED
      BY <3>1
  <2>. QED
    BY <2>1
<1>5. f \in Rows /\ Len(f) = C
  BY <1>2, <1>3, <1>4, RowsOf
<1>6. Seqs!ToSet(f) = at
  BY <1>2 DEF Seqs!ToSet
<1>. QED
  BY <1>2, <1>5, <1>6 DEF f

\* What the catalog has of a search, in the order of the server.
LEMMA RankedRows ==
  ASSUME catalog \subseteq Images, NEW s \in Snapshot
  PROVE  /\ Ranked(s) \in Rows
         /\ Seqs!ToSet(Ranked(s)) = catalog \cap Match[s.filter]
         /\ s.mode = "similar" =>
              \A i, j \in 1..Len(Ranked(s)) : i < j => Ranked(s)[i] < Ranked(s)[j]
<1>. DEFINE at == catalog \cap Match[s.filter]
            h == InOrder(at)
            r == Seqs!Reverse(h)
<1>0. at \subseteq Images
  OBVIOUS
<1>. HIDE DEF at
<1>1. /\ h \in Rows /\ Seqs!ToSet(h) = at
      /\ \A i, j \in 1..Len(h) : i < j => h[i] < h[j]
  BY <1>0, InOrderRows
<1>. HIDE DEF h
<1>. DEFINE n == Len(h)
<1>2. n \in Nat /\ DOMAIN h = 1..n /\ h \in [1..n -> Images]
      /\ \A i, j \in 1..n : h[i] = h[j] => i = j
  BY <1>1, RowsAre
<1>3. r = [i \in 1..n |-> h[n - i + 1]]
  BY DEF Seqs!Reverse
<1>. HIDE DEF n, r
<1>4. \A i \in 1..n : n - i + 1 \in 1..n /\ n - (n - i + 1) + 1 = i
  BY <1>2
<1>5. r \in [1..n -> Images]
  BY <1>2, <1>3, <1>4
<1>6. ASSUME NEW i \in 1..n, NEW j \in 1..n, i < j PROVE r[i] # r[j]
  <2>1. r[i] = h[n - i + 1] /\ r[j] = h[n - j + 1]
    BY <1>3
  <2>2. n - i + 1 \in 1..n /\ n - j + 1 \in 1..n /\ n - i + 1 # n - j + 1
    BY <1>2, <1>4, <1>6
  <2>. QED
    BY <1>2, <2>1, <2>2
<1>7. r \in Rows /\ Len(r) = n
  BY <1>2, <1>5, <1>6, RowsOf
<1>8. Seqs!ToSet(r) = at
  <2>1. DOMAIN r = 1..n
    BY <1>5
  <2>2. \A i \in 1..n : h[i] = r[n - i + 1] /\ r[i] = h[n - i + 1]
    BY <1>3, <1>4
  <2>3. Seqs!ToSet(r) = {r[i] : i \in 1..n} /\ Seqs!ToSet(h) = {h[i] : i \in 1..n}
    BY <1>2, <2>1 DEF Seqs!ToSet
  <2>4. {r[i] : i \in 1..n} = {h[i] : i \in 1..n}
    BY <1>4, <2>2
  <2>. QED
    BY <1>1, <2>3, <2>4
<1>9. Ranked(s) = IF BrowsePath(s) /\ NewestFirst(s) THEN r ELSE h
  BY DEF Ranked, at, h, r
<1>10. s.mode = "similar" => ~BrowsePath(s)
  BY DEF BrowsePath
<1>. QED
  BY <1>1, <1>7, <1>8, <1>9, <1>10 DEF at, n

\* A slice of n rows after the first `from`.
LEMMA SliceRows ==
  ASSUME NEW q \in Rows, NEW from \in Nat, NEW n \in Nat
  PROVE  /\ Slice(q, from, n) \in Rows
         /\ Len(Slice(q, from, n)) = IF from + n <= Len(q) THEN n
                                     ELSE IF from <= Len(q) THEN Len(q) - from ELSE 0
         /\ \A k \in 1..Len(Slice(q, from, n)) :
              /\ from + k \in 1..Len(q) /\ k <= n
              /\ Slice(q, from, n)[k] = q[from + k]
<1>. DEFINE to == IF from + n < Len(q) THEN from + n ELSE Len(q)
            w == Slice(q, from, n)
            m == IF from + n <= Len(q) THEN n ELSE IF from <= Len(q) THEN Len(q) - from ELSE 0
<1>1. /\ q \in Seq(Images) /\ Len(q) \in Nat /\ q \in [1..Len(q) -> Images]
      /\ \A i, j \in 1..Len(q) : q[i] = q[j] => i = j
  BY RowsAre
<1>2. w = SubSeq(q, from + 1, to)
  BY DEF Slice
<1>3. m \in Nat /\ to \in Nat
  BY <1>1
<1>4. w \in Seq(Images) /\ Len(w) = m /\ \A k \in 1..m : w[k] = q[from + k]
  <2>. DEFINE low == from + 1
  <2>1. low \in Int /\ to \in Int
    BY <1>1
  <2>2. \A i \in low..to : q[i] \in Images
    <3>1. \A i \in low..to : i \in 1..Len(q)
      BY <1>1
    <3>. QED
      BY <1>1, <3>1
  <2>3. (IF low <= to THEN to - low + 1 ELSE 0) = m
    BY <1>1
  <2>4. \A k \in 1..m : k \in 1..(to - low + 1) /\ low + k - 1 = from + k
    BY <1>1
  <2>5. w = SubSeq(q, low, to)
    BY <1>2
  <2>. HIDE DEF w, m, low, to
  <2>6. /\ SubSeq(q, low, to) \in Seq(Images)
        /\ Len(SubSeq(q, low, to)) = IF low <= to THEN to - low + 1 ELSE 0
        /\ \A i \in 1..(to - low + 1) : SubSeq(q, low, to)[i] = q[low + i - 1]
    BY <2>1, <2>2, SubSeqProperties
  <2>. QED
    BY <2>3, <2>4, <2>5, <2>6
<1>5. \A k \in 1..m : from + k \in 1..Len(q) /\ k <= n
  BY <1>1
<1>. HIDE DEF m, w
<1>6. w \in [1..m -> Images]
  BY <1>4, LenProperties
<1>7. ASSUME NEW i \in 1..m, NEW j \in 1..m, i < j PROVE w[i] # w[j]
  <2>1. w[i] = q[from + i] /\ w[j] = q[from + j]
    BY <1>4
  <2>2. from + i # from + j
    BY <1>3, <1>7
  <2>. QED
    BY <1>1, <1>5, <2>1, <2>2
<1>8. w \in Rows /\ Len(w) = m
  BY <1>3, <1>6, <1>7, RowsOf
<1>. QED
  BY <1>4, <1>5, <1>8 DEF w, m

\* The rows of a list that a set keeps.
LEMMA OnlyRows ==
  ASSUME NEW q \in Rows, NEW S
  PROVE  /\ Only(q, S) \in Rows
         /\ Seqs!ToSet(Only(q, S)) = Seqs!ToSet(q) \cap S
         /\ (\A k \in 1..Len(q) : q[k] \in S) => Len(Only(q, S)) = Len(q)
<1>. DEFINE K == {k \in DOMAIN q : q[k] \in S}
            at == InOrder(K)
            w == Only(q, S)
            C == Cardinality(K)
<1>1. /\ Len(q) \in Nat /\ DOMAIN q = 1..Len(q) /\ q \in [1..Len(q) -> Images]
      /\ \A i, j \in 1..Len(q) : q[i] = q[j] => i = j
  BY RowsAre
<1>2. K \subseteq 1..Len(q) /\ \A k \in K : k \in 1..Len(q) /\ q[k] \in S
  BY <1>1
<1>3. /\ C \in Nat /\ at \in [1..C -> K]
      /\ \A i, j \in 1..C : i < j => at[i] < at[j]
      /\ \A k \in K : UpTo(K, k) \in 1..C /\ at[UpTo(K, k)] = k
  BY <1>1, <1>2, InOrderFacts
<1>4. w = [k \in DOMAIN at |-> q[at[k]]]
  BY DEF Only
<1>5. \A k \in DOMAIN q : q[k] \in S => k \in K
  OBVIOUS
<1>. HIDE DEF K, at, w
<1>6. w = [k \in 1..C |-> q[at[k]]]
  BY <1>3, <1>4
<1>7. w \in [1..C -> Images]
  BY <1>1, <1>2, <1>3, <1>6
<1>8. ASSUME NEW i \in 1..C, NEW j \in 1..C, i < j PROVE w[i] # w[j]
  <2>1. at[i] \in 1..Len(q) /\ at[j] \in 1..Len(q) /\ at[i] < at[j]
    BY <1>2, <1>3, <1>8
  <2>2. at[i] # at[j]
    BY <2>1
  <2>. QED
    BY <1>1, <1>6, <2>1, <2>2
<1>9. w \in Rows /\ Len(w) = C
  BY <1>3, <1>7, <1>8, RowsOf
<1>10. Seqs!ToSet(w) = Seqs!ToSet(q) \cap S
  <2>1. ASSUME NEW k \in 1..C PROVE w[k] \in Seqs!ToSet(q) \cap S
    <3>1. at[k] \in K
      BY <1>3
    <3>. QED
      BY <1>1, <1>2, <1>6, <3>1 DEF Seqs!ToSet
  <2>2. ASSUME NEW k \in DOMAIN q, q[k] \in S PROVE \E j \in 1..C : w[j] = q[k]
    <3>1. k \in K
      BY <1>5, <2>2
    <3>. QED
      BY <1>3, <1>6, <3>1
  <2>3. DOMAIN w = 1..C
    BY <1>7
  <2>. QED
    BY <2>1, <2>2, <2>3 DEF Seqs!ToSet
<1>11. ASSUME \A k \in 1..Len(q) : q[k] \in S PROVE C = Len(q)
  <2>1. K = 1..Len(q)
    BY <1>1, <1>2, <1>5, <1>11
  <2>. QED
    BY <1>1, <2>1, FS_Interval
<1>. QED
  BY <1>9, <1>10, <1>11 DEF w

-----------------------------------------------------------------------------
(* What a page holds.                                                      *)

\* What a search is to show, and what the first i pages of it are.
All(s) == {n \in catalog \cap Match[s.filter] : s.mode = "similar" => n \in Near}
Loaded(s, i) ==
    {n \in All(s) : \E k \in 1..Len(Ranked(s)) : k <= Offset(i) /\ Ranked(s)[k] = n}

\* A page is rows and a flag, in every mode.
LEMMA PageTyped ==
  ASSUME catalog \subseteq Images, NEW s \in Snapshot, NEW o \in Nat
  PROVE  Page(s, o) \in Pages
<1>1. Ranked(s) \in Rows /\ PageSize \in Nat
  BY RankedRows, BrowseAssumption
<1>2. \A from, n \in Nat : Slice(Ranked(s), from, n) \in Rows
  BY <1>1, SliceRows
<1>3. \A q \in Rows : \A S : Only(q, S) \in Rows
  BY OnlyRows
<1>4. SearchRoute(s, o) \in Rows /\ ByImageRoute(s) \in Rows
  BY <1>1, <1>2, <1>3 DEF SearchRoute, ByImageRoute
<1>5. BrowseRoute(s, o) \in Pages
  BY <1>1, <1>2 DEF BrowseRoute, Pages
<1>6. SimilarRoute(s, o) \in Pages
  BY <1>1, <1>2, <1>3 DEF SimilarRoute, Pages
<1>7. \A q \in Rows, b \in BOOLEAN : [rows |-> q, more |-> b] \in Pages
  BY DEF Pages
<1>. QED
  BY <1>4, <1>5, <1>6, <1>7 DEF Page

\* A page holds the images of its slice that are to be shown; a page that says
\* there is no more has nothing to be shown behind it, although it may be full.
LEMMA PageRows ==
  ASSUME catalog \subseteq Images, NEW s \in Snapshot, Paginates(s), NEW o \in Nat
  PROVE  /\ Seqs!ToSet(Page(s, o).rows) =
              {n \in All(s) : \E k \in 1..Len(Ranked(s)) :
                 o < k /\ k <= o + PageSize /\ Ranked(s)[k] = n}
         /\ Page(s, o).rows = <<>> => ~Page(s, o).more
         /\ ~Page(s, o).more =>
              \A k \in 1..Len(Ranked(s)) : o + PageSize < k => Ranked(s)[k] \notin All(s)
<1>1. PICK q : q = Ranked(s)
  OBVIOUS
<1>2. PICK raw : raw = Slice(q, o, PageSize)
  OBVIOUS
<1>3. PICK kept : kept = Only(raw, Near)
  OBVIOUS
<1>4. PICK p : p = Page(s, o)
  OBVIOUS
<1>5. PageSize \in Nat /\ PageSize > 0 /\ PageSize \in Int
  BY BrowseAssumption
<1>6. q \in Rows /\ Seqs!ToSet(q) = catalog \cap Match[s.filter]
  BY <1>1, RankedRows
<1>7. s.mode = "similar" => \A i, j \in 1..Len(q) : i < j => q[i] < q[j]
  BY <1>1, RankedRows
<1>8. /\ Len(q) \in Nat /\ DOMAIN q = 1..Len(q) /\ q \in [1..Len(q) -> Images]
      /\ \A i, j \in 1..Len(q) : q[i] = q[j] => i = j
  BY <1>6, RowsAre
<1>9. raw \in Rows
  BY <1>2, <1>5, <1>6, SliceRows
<1>10. Len(raw) = IF o + PageSize <= Len(q) THEN PageSize
                  ELSE IF o <= Len(q) THEN Len(q) - o ELSE 0
  BY <1>2, <1>5, <1>6, SliceRows
<1>11. ASSUME NEW k \in 1..Len(raw)
       PROVE  o + k \in 1..Len(q) /\ k <= PageSize /\ raw[k] = q[o + k]
  <2>1. k \in 1..Len(Slice(q, o, PageSize))
    BY <1>2
  <2>2. /\ o + k \in 1..Len(q) /\ k <= PageSize
        /\ Slice(q, o, PageSize)[k] = q[o + k]
    BY <1>5, <1>6, <2>1, SliceRows
  <2>. QED
    BY <1>2, <2>2
<1>12. kept \in Rows /\ Seqs!ToSet(kept) = Seqs!ToSet(raw) \cap Near
  BY <1>3, <1>9, OnlyRows
<1>13. (\A k \in 1..Len(raw) : raw[k] \in Near) => Len(kept) = Len(raw)
  BY <1>3, <1>9, OnlyRows
<1>14. DOMAIN raw = 1..Len(raw) /\ Len(raw) \in Nat /\ Len(kept) \in Nat
  BY <1>9, <1>12, RowsAre
<1>22. /\ o + PageSize <= Len(q) => Len(raw) = PageSize
       /\ ~(o + PageSize <= Len(q)) /\ o <= Len(q) => Len(raw) = Len(q) - o
  BY <1>10
<1>15. Seqs!ToSet(raw) = {n \in Seqs!ToSet(q) : \E k \in 1..Len(q) :
                            o < k /\ k <= o + PageSize /\ q[k] = n}
  <2>1. ASSUME NEW k \in 1..Len(raw)
        PROVE  \E j \in 1..Len(q) : o < j /\ j <= o + PageSize /\ q[j] = raw[k]
    <3>1. o + k \in 1..Len(q) /\ k <= PageSize /\ raw[k] = q[o + k]
      BY <1>11
    <3>2. o < o + k /\ o + k <= o + PageSize
      BY <1>5, <1>14, <3>1
    <3>. QED
      BY <3>1, <3>2
  <2>2. ASSUME NEW k \in 1..Len(q), o < k, k <= o + PageSize
        PROVE  k - o \in 1..Len(raw) /\ raw[k - o] = q[k]
    <3>3. k \in Int /\ k <= Len(q) /\ Len(q) \in Int /\ Len(raw) \in Int /\ PageSize \in Int
      BY <1>5, <1>8, <1>14
    <3>1. k - o \in 1..Len(raw)
      <4>1. CASE o + PageSize <= Len(q)
        BY <1>22, <2>2, <3>3, <4>1
      <4>2. CASE ~(o + PageSize <= Len(q))
        <5>1. o <= Len(q)
          BY <2>2, <3>3
        <5>. QED
          BY <1>22, <2>2, <3>3, <4>2, <5>1
      <4>. QED
        BY <4>1, <4>2
    <3>2. o + (k - o) = k
      BY <1>8
    <3>. QED
      BY <1>11, <3>1, <3>2
  <2>3. Seqs!ToSet(raw) = {raw[k] : k \in 1..Len(raw)}
    BY <1>14 DEF Seqs!ToSet
  <2>4. Seqs!ToSet(q) = {q[k] : k \in 1..Len(q)}
    BY <1>8 DEF Seqs!ToSet
  <2>5. \A n \in Seqs!ToSet(raw) : /\ n \in Seqs!ToSet(q)
                                   /\ \E k \in 1..Len(q) :
                                        o < k /\ k <= o + PageSize /\ q[k] = n
    BY <2>1, <2>3, <2>4
  <2>6. \A k \in 1..Len(q) : o < k /\ k <= o + PageSize => q[k] \in Seqs!ToSet(raw)
    BY <2>2, <2>3
  <2>. QED
    BY <2>5, <2>6
<1>16. \A k \in 1..Len(q) : o + PageSize < k => Len(raw) = PageSize
  <2>1. ASSUME NEW k \in 1..Len(q), o + PageSize < k PROVE Len(raw) = PageSize
    <3>1. k \in Int /\ k <= Len(q) /\ Len(q) \in Int
      BY <1>8
    <3>2. o + PageSize <= Len(q)
      BY <1>5, <2>1, <3>1
    <3>. QED
      BY <1>22, <3>2
  <2>. QED
    BY <2>1
<1>17. \A k \in 1..Len(q) : q[k] \in Seqs!ToSet(q)
  BY <1>8 DEF Seqs!ToSet
<1>18. raw = <<>> => Len(raw) = 0
  BY EmptySeq
<1>19. kept = <<>> => Len(kept) = 0
  BY EmptySeq
<1>20. CASE s.mode = "similar"
  <2>1. p = SimilarRoute(s, o)
    BY <1>4, <1>20 DEF Page, BrowsePath
  <2>2. p.rows = kept /\ (p.more <=> Len(raw) >= PageSize /\ Len(kept) = Len(raw))
    BY <1>1, <1>2, <1>3, <2>1 DEF SimilarRoute
  <2>3. All(s) = Seqs!ToSet(q) \cap Near
    BY <1>6, <1>20 DEF All
  <2>4. p.rows = <<>> => ~p.more
    BY <1>5, <1>14, <1>19, <2>2
  <2>5. ASSUME ~p.more, NEW k \in 1..Len(q), o + PageSize < k PROVE q[k] \notin Near
    <3>1. Len(raw) = PageSize
      BY <1>16, <2>5
    <3>2. Len(kept) # Len(raw)
      BY <1>5, <2>2, <2>5, <3>1
    <3>3. PICK j \in 1..Len(raw) : raw[j] \notin Near
      BY <1>13, <3>2
    <3>4. o + j \in 1..Len(q) /\ j <= PageSize /\ raw[j] = q[o + j]
      BY <1>11
    <3>5. o + j < k
      BY <1>5, <1>8, <1>14, <2>5, <3>4
    <3>6. q[o + j] < q[k]
      BY <1>7, <1>20, <3>4, <3>5
    <3>7. q[o + j] \in 1..LastImage /\ q[k] \in 1..LastImage /\ LastImage \in Nat
      BY <1>8, <3>4, BrowseAssumption DEF Images
    <3>8. q[o + j] \in 1..q[k]
      BY <3>6, <3>7
    <3>. QED
      BY <3>3, <3>4, <3>8, BrowseAssumption
  <2>6. Seqs!ToSet(p.rows) = {n \in All(s) : \E k \in 1..Len(q) :
                                o < k /\ k <= o + PageSize /\ q[k] = n}
    BY <1>12, <1>15, <2>2, <2>3
  <2>. QED
    BY <1>1, <1>4, <2>3, <2>4, <2>5, <2>6
<1>21. CASE s.mode # "similar"
  <2>1. p.rows = raw /\ (p.more <=> Len(raw) = PageSize)
    BY <1>1, <1>2, <1>4, <1>21 DEF Page, BrowseRoute, SearchRoute, Paginates
  <2>2. All(s) = Seqs!ToSet(q)
    BY <1>6, <1>21 DEF All
  <2>3. p.rows = <<>> => ~p.more
    BY <1>5, <1>18, <2>1
  <2>4. ASSUME ~p.more, NEW k \in 1..Len(q), o + PageSize < k PROVE FALSE
    BY <1>16, <2>1, <2>4
  <2>. QED
    BY <1>1, <1>4, <1>15, <2>1, <2>2, <2>3, <2>4
<1>. QED
  BY <1>20, <1>21

\* Offsets are counted from none, a page apart.
LEMMA OffsetFacts ==
  /\ Offset(0) = 0
  /\ \A i \in Nat : Offset(i) \in Nat /\ Offset(i + 1) = Offset(i) + PageSize
<1>. QED
  BY BrowseAssumption DEF Offset

\* The next page is what it adds to the pages before it.
LEMMA PageFills ==
  ASSUME catalog \subseteq Images, NEW s \in Snapshot, Paginates(s), NEW i \in Nat,
         NEW p, p = Page(s, Offset(i))
  PROVE  /\ Loaded(s, i + 1) = Loaded(s, i) \cup Seqs!ToSet(p.rows)
         /\ Loaded(s, i) \cap Seqs!ToSet(p.rows) = {}
         /\ p.rows = <<>> => ~p.more
         /\ ~p.more => Loaded(s, i + 1) = All(s)
<1>1. PICK q : q = Ranked(s)
  OBVIOUS
<1>2. PICK o : o = Offset(i)
  OBVIOUS
<1>3. PICK L : L = 1..Len(q)
  OBVIOUS
<1>4. /\ o \in Nat /\ Offset(i + 1) = o + PageSize /\ PageSize \in Nat
  BY <1>2, OffsetFacts, BrowseAssumption
<1>5. /\ Seqs!ToSet(p.rows) = {n \in All(s) : \E k \in L :
                                  o < k /\ k <= o + PageSize /\ q[k] = n}
      /\ p.rows = <<>> => ~p.more
      /\ ~p.more => \A k \in L : o + PageSize < k => q[k] \notin All(s)
  <2>1. Page(s, o) = p
    BY <1>2
  <2>2. o \in Nat
    BY <1>4
  <2>. QED
    BY <1>1, <1>3, <2>1, <2>2, PageRows
<1>6. /\ q \in Rows /\ Seqs!ToSet(q) = catalog \cap Match[s.filter]
  BY <1>1, RankedRows
<1>7. /\ Len(q) \in Nat /\ DOMAIN q = L
      /\ \A k, j \in L : q[k] = q[j] => k = j
  BY <1>3, <1>6, RowsAre
<1>8. \A k \in L : k \in Int
  BY <1>3, <1>7
<1>9. \A n \in All(s) : \E k \in L : q[k] = n
  BY <1>6, <1>7 DEF All, Seqs!ToSet
<1>10. Loaded(s, i) = {n \in All(s) : \E k \in L : k <= o /\ q[k] = n}
  BY <1>1, <1>2, <1>3 DEF Loaded
<1>11. Loaded(s, i + 1) = {n \in All(s) : \E k \in L : k <= o + PageSize /\ q[k] = n}
  BY <1>1, <1>3, <1>4 DEF Loaded
<1>12. Loaded(s, i + 1) = Loaded(s, i) \cup Seqs!ToSet(p.rows)
  <2>1. \A k \in L : k <= o + PageSize <=> k <= o \/ (o < k /\ k <= o + PageSize)
    BY <1>4, <1>8
  <2>. QED
    BY <1>5, <1>10, <1>11, <2>1
<1>13. Loaded(s, i) \cap Seqs!ToSet(p.rows) = {}
  <2>1. \A k \in L : ~(k <= o /\ o < k)
    BY <1>4, <1>8
  <2>. QED
    BY <1>5, <1>7, <1>10, <2>1
<1>14. ASSUME ~p.more PROVE Loaded(s, i + 1) = All(s)
  <2>1. \A k \in L : k <= o + PageSize \/ o + PageSize < k
    BY <1>4, <1>8
  <2>2. ASSUME NEW n \in All(s) PROVE n \in Loaded(s, i + 1)
    <3>1. PICK k \in L : q[k] = n
      BY <1>9
    <3>2. ~(o + PageSize < k)
      BY <1>5, <1>14, <3>1
    <3>. QED
      BY <1>11, <2>1, <3>1, <3>2
  <2>. QED
    BY <1>11, <2>2
<1>. QED
  BY <1>5, <1>12, <1>13, <1>14

\* Before the first page nothing is loaded.
LEMMA NothingLoaded ==
  ASSUME catalog \subseteq Images, NEW s \in Snapshot
  PROVE  Loaded(s, 0) = {}
<1>1. Ranked(s) \in Rows
  BY RankedRows
<1>2. \A k \in 1..Len(Ranked(s)) : ~(k <= 0)
  BY <1>1, RowsAre
<1>. QED
  BY <1>2, OffsetFacts DEF Loaded

\* Two lists that share only images of M make one list.
LEMMA JoinedRows ==
  ASSUME NEW M, NEW a \in Listings(M), NEW b \in Listings(M),
         Seqs!ToSet(a) \cap Seqs!ToSet(b) \subseteq M
  PROVE  a \o b \in Listings(M) /\ Seqs!ToSet(a \o b) = Seqs!ToSet(a) \cup Seqs!ToSet(b)
<1>1. /\ a \in Seq(Images) /\ Len(a) \in Nat /\ DOMAIN a = 1..Len(a)
      /\ \A i, j \in 1..Len(a) : a[i] = a[j] => i = j \/ a[i] \in M
  BY LenProperties DEF Listings
<1>2. /\ b \in Seq(Images) /\ Len(b) \in Nat /\ DOMAIN b = 1..Len(b)
      /\ \A i, j \in 1..Len(b) : b[i] = b[j] => i = j \/ b[i] \in M
  BY LenProperties DEF Listings
<1>3. PICK c : c = a \o b
  OBVIOUS
<1>4. PICK m : m = Len(a)
  OBVIOUS
<1>5. PICK n : n = Len(b)
  OBVIOUS
<1>6. m \in Nat /\ n \in Nat /\ m \in Int /\ n \in Int
  BY <1>1, <1>2, <1>4, <1>5
<1>7. c \in Seq(Images) /\ Len(c) = m + n
  <2>1. a \in Seq(Images)
    BY <1>1
  <2>2. b \in Seq(Images)
    BY <1>2
  <2>. QED
    BY <2>1, <2>2, <1>3, <1>4, <1>5, ConcatProperties
<1>8. \A k \in 1..(m + n) : c[k] = IF k <= m THEN a[k] ELSE b[k - m]
  <2>1. a \in Seq(Images)
    BY <1>1
  <2>2. b \in Seq(Images)
    BY <1>2
  <2>. QED
    BY <2>1, <2>2, <1>3, <1>4, <1>5, ConcatProperties
<1>9. DOMAIN c = 1..(m + n)
  BY <1>7, LenProperties
<1>10. \A k \in 1..m : k \in 1..(m + n) /\ k <= m
  BY <1>6
<1>11. \A k \in 1..n : k + m \in 1..(m + n) /\ ~(k + m <= m) /\ k + m - m = k
  BY <1>6
<1>12. \A k \in 1..(m + n) : k <= m => k \in 1..m
  BY <1>6
<1>13. \A k \in 1..(m + n) : ~(k <= m) => k - m \in 1..n
  BY <1>6
<1>14. Seqs!ToSet(a) = {a[k] : k \in 1..m} /\ Seqs!ToSet(b) = {b[k] : k \in 1..n}
  BY <1>1, <1>2, <1>4, <1>5 DEF Seqs!ToSet
<1>15. Seqs!ToSet(c) = {c[k] : k \in 1..(m + n)}
  BY <1>9 DEF Seqs!ToSet
<1>16. Seqs!ToSet(c) = Seqs!ToSet(a) \cup Seqs!ToSet(b)
  <2>1. ASSUME NEW k \in 1..(m + n) PROVE c[k] \in Seqs!ToSet(a) \cup Seqs!ToSet(b)
    <3>1. CASE k <= m
      BY <1>8, <1>12, <1>14, <3>1
    <3>2. CASE ~(k <= m)
      BY <1>8, <1>13, <1>14, <3>2
    <3>. QED
      BY <3>1, <3>2
  <2>2. ASSUME NEW k \in 1..m PROVE a[k] \in Seqs!ToSet(c)
    BY <1>8, <1>10, <1>15
  <2>3. ASSUME NEW k \in 1..n PROVE b[k] \in Seqs!ToSet(c)
    <3>1. PICK j : j = k + m
      OBVIOUS
    <3>2. j \in 1..(m + n) /\ ~(j <= m) /\ j - m = k
      BY <1>6, <3>1
    <3>3. c[j] = b[j - m]
      BY <1>8, <3>2
    <3>. QED
      BY <1>15, <3>2, <3>3
  <2>. QED
    BY <1>14, <1>15, <2>1, <2>2, <2>3
<1>17. ASSUME NEW i \in 1..(m + n), NEW j \in 1..(m + n), c[i] = c[j]
       PROVE  i = j \/ c[i] \in M
  <2>1. i \in Int /\ j \in Int
    BY <1>6
  <2>2. CASE i <= m /\ j <= m
    <3>1. i \in 1..m /\ j \in 1..m /\ a[i] = a[j] /\ c[i] = a[i]
      BY <1>8, <1>12, <1>17, <2>2
    <3>. QED
      BY <1>1, <1>4, <3>1
  <2>3. CASE ~(i <= m) /\ ~(j <= m)
    <3>1. i - m \in 1..n /\ j - m \in 1..n /\ b[i - m] = b[j - m] /\ c[i] = b[i - m]
      BY <1>8, <1>13, <1>17, <2>3
    <3>2. i - m = j - m \/ c[i] \in M
      BY <1>2, <1>5, <3>1
    <3>. QED
      BY <1>6, <2>1, <3>2
  <2>4. CASE i <= m /\ ~(j <= m)
    <3>1. c[i] \in Seqs!ToSet(a) /\ c[j] \in Seqs!ToSet(b)
      BY <1>8, <1>12, <1>13, <1>14, <2>4
    <3>. QED
      BY <1>17, <3>1
  <2>5. CASE ~(i <= m) /\ j <= m
    <3>1. c[j] \in Seqs!ToSet(a) /\ c[i] \in Seqs!ToSet(b)
      BY <1>8, <1>12, <1>13, <1>14, <2>5
    <3>. QED
      BY <1>17, <3>1
  <2>. QED
    BY <2>2, <2>3, <2>4, <2>5
<1>. QED
  BY <1>3, <1>7, <1>9, <1>16, <1>17 DEF Listings

\* The images of a list; it also is one that allows more images twice.
LEMMA ListingsAre ==
  ASSUME NEW M, NEW q \in Listings(M)
  PROVE  /\ q \in Seq(Images) /\ Seqs!ToSet(q) \subseteq Images
         /\ \A N : M \subseteq N => q \in Listings(N)
<1>. QED
  BY LenProperties DEF Listings, Seqs!ToSet

\* A list of rows has nothing twice.
LEMMA RowsAreListings ==
  ASSUME NEW q \in Rows, NEW M
  PROVE  q \in Listings(M)
<1>. QED
  BY DEF Rows, Listings

\* What a page adds to the grid: the rows that are not in the mirror.  Those in
\* the list all the same were wrong in the mirror.
LEMMA NovelRows ==
  ASSUME NEW M, results \in Listings(M), resultsRef \in Seq(Images), NEW q \in Rows
  PROVE  /\ results \o Novel(q) \in Listings(M \cup Unmirrored)
         /\ Unmirrored \subseteq Images
         /\ Unmirrored = {} =>
              /\ Seqs!ToSet(results \o Novel(q)) = Seqs!ToSet(results) \cup Seqs!ToSet(q)
              /\ Novel(q) = <<>> => Seqs!ToSet(q) \subseteq Seqs!ToSet(results)
<1>1. PICK w : w = Novel(q)
  OBVIOUS
<1>2. w \in Rows /\ Seqs!ToSet(w) = Seqs!ToSet(q) \cap (Images \ Seqs!ToSet(resultsRef))
  BY <1>1, OnlyRows DEF Novel
<1>3. Seqs!ToSet(q) \subseteq Images
  BY RowsAre
<1>4. Seqs!ToSet(w) = Seqs!ToSet(q) \ Seqs!ToSet(resultsRef)
  BY <1>2, <1>3
<1>5. Seqs!ToSet(results) \subseteq Images /\ Seqs!ToSet(resultsRef) \subseteq Images
  <2>1. Seqs!ToSet(results) \subseteq Images
    BY ListingsAre
  <2>2. Seqs!ToSet(resultsRef) \subseteq Images
    BY LenProperties DEF Seqs!ToSet
  <2>. QED
    BY <2>1, <2>2
<1>6. PICK U : U = Unmirrored
  OBVIOUS
<1>7. /\ Seqs!ToSet(results) \ Seqs!ToSet(resultsRef) \subseteq U /\ U \subseteq Images
      /\ U = {} => Seqs!ToSet(results) = Seqs!ToSet(resultsRef)
  BY <1>5, <1>6 DEF Unmirrored
<1>8. PICK N : N = M \cup U
  OBVIOUS
<1>9. /\ results \o w \in Listings(N)
      /\ Seqs!ToSet(results \o w) = Seqs!ToSet(results) \cup Seqs!ToSet(w)
  <2>1. results \in Listings(N)
    BY <1>8, ListingsAre
  <2>2. w \in Listings(N)
    BY <1>2, RowsAreListings
  <2>3. Seqs!ToSet(results) \cap Seqs!ToSet(w) \subseteq N
    BY <1>4, <1>7, <1>8
  <2>. QED
    BY <2>1, <2>2, <2>3, JoinedRows
<1>10. w = <<>> => Seqs!ToSet(w) = {}
  BY DEF Seqs!ToSet
<1>. QED
  BY <1>1, <1>4, <1>6, <1>7, <1>8, <1>9, <1>10

\* What the poll puts at the head: the rows that are not in the list.
LEMMA UnlistedRows ==
  ASSUME NEW M, results \in Listings(M), NEW q \in Rows
  PROVE  Unlisted(q) \o results \in Listings(M)
<1>1. PICK w : w = Unlisted(q)
  OBVIOUS
<1>2. w \in Rows /\ Seqs!ToSet(w) = Seqs!ToSet(q) \cap (Images \ Seqs!ToSet(results))
  BY <1>1, OnlyRows DEF Unlisted
<1>3. w \in Listings(M) /\ Seqs!ToSet(w) \cap Seqs!ToSet(results) \subseteq M
  BY <1>2, RowsAreListings
<1>. QED
  BY <1>1, <1>3, JoinedRows

-----------------------------------------------------------------------------
(* The buffers of warmed pages and the loops that fill them.               *)

LoopsOn(D) == [buf : D, start : Nat, i : Nat, ready : BOOLEAN]
IsBuffer(b) ==
    /\ b \in [sig : Snapshot, pages : {b.pages}, flight : SUBSET Nat, exhausted : BOOLEAN]
    /\ DOMAIN b.pages \subseteq Nat
    /\ b.pages \in [DOMAIN b.pages -> Pages]
WarmTyped ==
    /\ cur \in DOMAIN buffers
    /\ buffers = [b \in DOMAIN buffers |-> buffers[b]]
    /\ \A b \in DOMAIN buffers : IsBuffer(buffers[b])
    /\ loops \subseteq LoopsOn(DOMAIN buffers)

\* The live buffer holds what the server answers now.
Fresh(bs, c) == \A s \in Snapshot, i \in Nat :
    s = bs[c].sig /\ i \in DOMAIN bs[c].pages => bs[c].pages[i] = Page(s, Offset(i))

\* A new buffer holds no page.
LEMMA EmptyBuffers ==
  ASSUME NEW s \in Snapshot
  PROVE  /\ IsBuffer(EmptyBuffer(s)) /\ EmptyBuffer(s).sig = s
         /\ DOMAIN EmptyBuffer(s).pages = {}
<1>1. <<>> \in [DOMAIN <<>> -> Pages] /\ DOMAIN <<>> = {}
  OBVIOUS
<1>. QED
  BY <1>1 DEF EmptyBuffer, IsBuffer

\* A buffer whose flight changes.
LEMMA FlightChanges ==
  ASSUME NEW b, IsBuffer(b), NEW F, F \subseteq Nat
  PROVE  /\ IsBuffer([b EXCEPT !.flight = F])
         /\ [b EXCEPT !.flight = F].sig = b.sig
         /\ [b EXCEPT !.flight = F].pages = b.pages
<1>. QED
  BY DEF IsBuffer

\* A buffer whose pages change.
LEMMA PagesChange ==
  ASSUME NEW b, IsBuffer(b), NEW p, DOMAIN p \subseteq Nat, p \in [DOMAIN p -> Pages]
  PROVE  /\ IsBuffer([b EXCEPT !.pages = p])
         /\ [b EXCEPT !.pages = p].sig = b.sig
         /\ [b EXCEPT !.pages = p].pages = p
<1>. QED
  BY DEF IsBuffer

\* Aborted loops stay on their buffers.
LEMMA AbortedLoops ==
  ASSUME NEW D, loops \subseteq LoopsOn(D)
  PROVE  /\ Aborted(loops) \subseteq LoopsOn(D)
         /\ {l.buf : l \in Aborted(loops)} = {l.buf : l \in loops}
<1>1. ASSUME NEW l \in loops,
             NEW k, k = IF l.buf = cur /\ ~l.ready THEN [l EXCEPT !.i = @ + 1, !.ready = TRUE]
                                                  ELSE l
      PROVE  k \in LoopsOn(D) /\ k.buf = l.buf
  <2>1. l \in [buf : D, start : Nat, i : Nat, ready : BOOLEAN]
    BY DEF LoopsOn
  <2>2. PICK n \in Nat : n = l.i + 1
    BY <2>1
  <2>3. k = IF l.buf = cur /\ ~l.ready THEN [l EXCEPT !.i = n, !.ready = TRUE] ELSE l
    BY <1>1, <2>2
  <2>. QED
    BY <2>1, <2>3 DEF LoopsOn
<1>2. PICK f : f = [l \in loops |-> IF l.buf = cur /\ ~l.ready
                                     THEN [l EXCEPT !.i = @ + 1, !.ready = TRUE] ELSE l]
  OBVIOUS
<1>3. Aborted(loops) = {f[l] : l \in loops}
  BY <1>2 DEF Aborted
<1>4. \A l \in loops : f[l] \in LoopsOn(D) /\ f[l].buf = l.buf
  BY <1>1, <1>2
<1>5. {l.buf : l \in {f[l] : l \in loops}} = {f[l].buf : l \in loops}
  OBVIOUS
<1>6. {f[l].buf : l \in loops} = {l.buf : l \in loops}
  BY <1>4
<1>. QED
  BY <1>3, <1>4, <1>5, <1>6

\* The buffers nothing refers to go.
LEMMA CollectedBuffers ==
  ASSUME NEW bs, NEW c, NEW ls, NEW D,
         c \in D, ls \subseteq LoopsOn(D), \A b \in D : IsBuffer(bs[b])
  PROVE  /\ c \in DOMAIN Collected(bs, c, ls)
         /\ Collected(bs, c, ls) =
             [b \in DOMAIN Collected(bs, c, ls) |-> Collected(bs, c, ls)[b]]
         /\ \A b \in DOMAIN Collected(bs, c, ls) : IsBuffer(Collected(bs, c, ls)[b])
         /\ ls \subseteq LoopsOn(DOMAIN Collected(bs, c, ls))
         /\ Collected(bs, c, ls)[c] = bs[c]
<1>1. PICK d : d = Collected(bs, c, ls)
  OBVIOUS
<1>2. d = [b \in {c} \cup {l.buf : l \in ls} |-> bs[b]]
  BY <1>1 DEF Collected
<1>3. \A l \in ls : l.buf \in D
  BY DEF LoopsOn
<1>4. \A b \in DOMAIN d : b \in D /\ d[b] = bs[b]
  BY <1>2, <1>3
<1>5. ls \subseteq LoopsOn(DOMAIN d)
  <2>1. \A l \in ls : l.buf \in DOMAIN d
    BY <1>2
  <2>. QED
    BY <2>1 DEF LoopsOn
<1>. QED
  BY <1>1, <1>2, <1>4, <1>5

\* resetPrefetch binds a new empty buffer.
LEMMA ResetKeeps ==
  ASSUME WarmTyped, NEW s \in Snapshot, ResetPrefetch(s)
  PROVE  WarmTyped' /\ buffers'[cur'] = EmptyBuffer(s)
<1>1. PICK ls : ls = Aborted(loops)
  OBVIOUS
<1>2. PICK new : new = CHOOSE b \in 1..(Cardinality(ls) + 2) :
                         b # cur /\ \A l \in ls : l.buf # b
  OBVIOUS
<1>3. PICK bs : bs = [b \in DOMAIN buffers \cup {new} |->
                        IF b = new THEN Rebound(s)
                        ELSE IF b = cur THEN [buffers[b] EXCEPT !.flight = {}]
                        ELSE buffers[b]]
  OBVIOUS
<1>4. cur' = new /\ loops' = ls /\ buffers' = Collected(bs, new, ls)
  BY <1>1, <1>2, <1>3 DEF ResetPrefetch
<1>5. PICK D : D = DOMAIN buffers \cup {new}
  OBVIOUS
<1>6. ls \subseteq LoopsOn(D)
  <2>1. ls \subseteq LoopsOn(DOMAIN buffers)
    BY <1>1, AbortedLoops DEF WarmTyped
  <2>. QED
    BY <1>5, <2>1 DEF LoopsOn
<1>7. \A b \in D : IsBuffer(bs[b])
  <2>1. ASSUME NEW b \in D PROVE IsBuffer(bs[b])
    <3>1. CASE b = new
      <4>1. bs[b] = EmptyBuffer(s)
        BY <1>3, <1>5, <3>1 DEF Rebound
      <4>. QED
        BY <4>1, EmptyBuffers
    <3>2. CASE b # new /\ b = cur
      <4>1. PICK v : v = buffers[b]
        OBVIOUS
      <4>2. bs[b] = [v EXCEPT !.flight = {}]
        BY <1>3, <1>5, <3>2, <4>1
      <4>3. IsBuffer(v)
        BY <1>5, <3>2, <4>1 DEF WarmTyped
      <4>4. IsBuffer([v EXCEPT !.flight = {}])
        BY <4>3, FlightChanges
      <4>. QED
        BY <4>2, <4>4
    <3>3. CASE b # new /\ b # cur
      BY <1>3, <1>5, <3>3 DEF WarmTyped
    <3>. QED
      BY <3>1, <3>2, <3>3
  <2>. QED
    BY <2>1
<1>8. bs[new] = EmptyBuffer(s)
  BY <1>3 DEF Rebound
<1>9. new \in D
  BY <1>5
<1>10. PICK d : d = Collected(bs, new, ls)
  OBVIOUS
<1>11. /\ new \in DOMAIN d /\ d = [b \in DOMAIN d |-> d[b]]
       /\ \A b \in DOMAIN d : IsBuffer(d[b])
       /\ ls \subseteq LoopsOn(DOMAIN d) /\ d[new] = bs[new]
  BY <1>6, <1>7, <1>9, <1>10, CollectedBuffers
<1>. QED
  BY <1>4, <1>8, <1>10, <1>11 DEF WarmTyped

\* One buffer is replaced, the loops stay on the same buffers.
LEMMA BufferReplaced ==
  ASSUME WarmTyped, NEW b \in DOMAIN buffers, NEW v, IsBuffer(v),
         NEW ls, ls \subseteq LoopsOn(DOMAIN buffers),
         buffers' = [buffers EXCEPT ![b] = v], cur' = cur, loops' = ls
  PROVE  WarmTyped' /\ buffers'[cur'] = IF b = cur THEN v ELSE buffers[cur]
<1>1. DOMAIN buffers' = DOMAIN buffers
  BY DEF WarmTyped
<1>2. \A c \in DOMAIN buffers : buffers'[c] = IF c = b THEN v ELSE buffers[c]
  BY DEF WarmTyped
<1>3. buffers' = [c \in DOMAIN buffers' |-> buffers'[c]]
  OBVIOUS
<1>. QED
  BY <1>1, <1>2, <1>3 DEF WarmTyped

\* The pages that were warmed go, the filters they were warmed for stay.
LEMMA InvalidateKeeps ==
  ASSUME WarmTyped, InvalidatePrefetchPages
  PROVE  /\ WarmTyped' /\ buffers'[cur'].sig = buffers[cur].sig
         /\ DOMAIN buffers'[cur'].pages = {}
<1>1. PICK v : v = EmptyBuffer(buffers[cur].sig)
  OBVIOUS
<1>2. buffers[cur].sig \in Snapshot
  BY DEF WarmTyped, IsBuffer
<1>3. IsBuffer(v) /\ v.sig = buffers[cur].sig /\ DOMAIN v.pages = {}
  BY <1>1, <1>2, EmptyBuffers
<1>4. buffers' = [buffers EXCEPT ![cur] = v] /\ cur' = cur /\ loops' = Aborted(loops)
  BY <1>1 DEF InvalidatePrefetchPages
<1>5. Aborted(loops) \subseteq LoopsOn(DOMAIN buffers) /\ cur \in DOMAIN buffers
  BY AbortedLoops DEF WarmTyped
<1>6. WarmTyped' /\ buffers'[cur'] = v
  BY <1>3, <1>4, <1>5, BufferReplaced
<1>. QED
  BY <1>3, <1>6

\* schedulePrefetch starts a loop on the live buffer.
LEMMA ScheduleKeeps ==
  ASSUME WarmTyped, NEW s, NEW n \in Nat, NEW v, IsBuffer(v),
         NEW bs, bs = [buffers EXCEPT ![cur] = v], SchedulePrefetch(s, bs, n)
  PROVE  WarmTyped' /\ buffers'[cur'] = v
<1>1. PICK l : l = [buf |-> cur, start |-> n, i |-> 0, ready |-> TRUE]
  OBVIOUS
<1>2. cur \in DOMAIN buffers /\ loops \subseteq LoopsOn(DOMAIN buffers)
  BY DEF WarmTyped
<1>3. l \in LoopsOn(DOMAIN buffers)
  BY <1>1, <1>2 DEF LoopsOn
<1>4. PICK ls : ls = loops'
  OBVIOUS
<1>5. ls \subseteq LoopsOn(DOMAIN buffers)
  BY <1>1, <1>2, <1>3, <1>4 DEF SchedulePrefetch
<1>6. buffers' = [buffers EXCEPT ![cur] = v] /\ cur' = cur
  BY DEF SchedulePrefetch
<1>. QED
  BY <1>2, <1>4, <1>5, <1>6, BufferReplaced

\* A page goes out of a buffer.
LEMMA PagesGo ==
  ASSUME NEW p, DOMAIN p \subseteq Nat, p \in [DOMAIN p -> Pages], NEW i
  PROVE  /\ DOMAIN Without(p, i) \subseteq Nat
         /\ Without(p, i) \in [DOMAIN Without(p, i) -> Pages]
         /\ \A j \in DOMAIN Without(p, i) : j \in DOMAIN p /\ Without(p, i)[j] = p[j]
<1>. QED
  BY DEF Without

\* And another comes into it.
LEMMA PagesCome ==
  ASSUME NEW p, DOMAIN p \subseteq Nat, p \in [DOMAIN p -> Pages], NEW i \in Nat,
         NEW x \in Pages
  PROVE  /\ DOMAIN Extended(p, i, x) \subseteq Nat
         /\ Extended(p, i, x) \in [DOMAIN Extended(p, i, x) -> Pages]
         /\ \A j \in DOMAIN Extended(p, i, x) :
              Extended(p, i, x)[j] = IF j = i THEN x ELSE p[j]
         /\ \A j \in DOMAIN Extended(p, i, x) : j = i \/ j \in DOMAIN p
<1>. QED
  BY DEF Extended

\* A loop goes on or ends; the pages of the live buffer stay.
LEMMA WarmNextKeeps ==
  ASSUME WarmTyped, NEW l \in loops, WarmNext(l)
  PROVE  /\ WarmTyped' /\ buffers'[cur'].sig = buffers[cur].sig
         /\ buffers'[cur'].pages = buffers[cur].pages
<1>1. PICK W : W = {i \in l.i..(PREFETCH_AHEAD - 1) :
                      /\ ~buffers[l.buf].exhausted
                      /\ l.start + i \notin DOMAIN buffers[l.buf].pages
                          \cup buffers[l.buf].flight}
  OBVIOUS
<1>2. /\ cur \in DOMAIN buffers /\ \A b \in DOMAIN buffers : IsBuffer(buffers[b])
      /\ loops \subseteq LoopsOn(DOMAIN buffers)
  BY DEF WarmTyped
<1>3. l \in [buf : DOMAIN buffers, start : Nat, i : Nat, ready : BOOLEAN]
  BY <1>2 DEF LoopsOn
<1>4. CASE W = {}
  <2>1. PICK ls : ls = loops \ {l}
    OBVIOUS
  <2>2. PICK d : d = Collected(buffers, cur, ls)
    OBVIOUS
  <2>3. buffers' = d /\ loops' = ls /\ cur' = cur
    BY <1>1, <1>4, <2>1, <2>2 DEF WarmNext
  <2>4. ls \subseteq LoopsOn(DOMAIN buffers)
    BY <1>2, <2>1
  <2>5. /\ cur \in DOMAIN d /\ d = [b \in DOMAIN d |-> d[b]]
        /\ \A b \in DOMAIN d : IsBuffer(d[b])
        /\ ls \subseteq LoopsOn(DOMAIN d) /\ d[cur] = buffers[cur]
    BY <1>2, <2>2, <2>4, CollectedBuffers
  <2>. QED
    BY <2>3, <2>5 DEF WarmTyped
<1>5. CASE W # {}
  <2>1. PICK i : i = Sets!Min(W)
    OBVIOUS
  <2>2. W \subseteq Nat
    BY <1>1, <1>3
  <2>3. i \in W
    <3>1. \E x \in W : \A y \in W : x <= y
      BY <1>5, <2>2, LeastNumber
    <3>. QED
      BY <2>1, <3>1 DEF Sets!Min
  <2>4. PICK k : k = [l EXCEPT !.i = i, !.ready = FALSE]
    OBVIOUS
  <2>5. PICK v : v = [buffers[l.buf] EXCEPT !.flight = @ \cup {l.start + i}]
    OBVIOUS
  <2>6. /\ buffers' = [buffers EXCEPT ![l.buf] = v] /\ cur' = cur
        /\ loops' = (loops \ {l}) \cup {k}
    BY <1>1, <1>5, <2>1, <2>4, <2>5 DEF WarmNext
  <2>7. k \in LoopsOn(DOMAIN buffers)
    BY <1>3, <2>2, <2>3, <2>4 DEF LoopsOn
  <2>8. PICK ls : ls = (loops \ {l}) \cup {k}
    OBVIOUS
  <2>9. ls \subseteq LoopsOn(DOMAIN buffers)
    BY <1>2, <2>7, <2>8
  <2>10. PICK b : b = buffers[l.buf]
    OBVIOUS
  <2>11. IsBuffer(b) /\ b.flight \subseteq Nat
    BY <1>2, <1>3, <2>10 DEF IsBuffer
  <2>12. PICK F : F = b.flight \cup {l.start + i}
    OBVIOUS
  <2>13. F \subseteq Nat
    <3>1. i \in Nat /\ l.start \in Nat
      BY <1>3, <2>2, <2>3
    <3>2. l.start + i \in Nat
      BY <3>1
    <3>. QED
      BY <2>11, <2>12, <3>2
  <2>14. v = [b EXCEPT !.flight = F]
    BY <2>5, <2>10, <2>12
  <2>15. IsBuffer(v) /\ v.sig = b.sig /\ v.pages = b.pages
    BY <2>11, <2>13, <2>14, FlightChanges
  <2>16. WarmTyped' /\ buffers'[cur'] = IF l.buf = cur THEN v ELSE buffers[cur]
    BY <1>3, <2>6, <2>8, <2>9, <2>15, BufferReplaced
  <2>. QED
    BY <2>10, <2>15, <2>16
<1>. QED
  BY <1>4, <1>5

\* A warmed page is lost: nothing but the flight of its buffer changes.
LEMMA WarmLostKeeps ==
  ASSUME WarmTyped, NEW l \in loops, WarmLost(l), cur' = cur
  PROVE  /\ WarmTyped' /\ buffers'[cur'].sig = buffers[cur].sig
         /\ buffers'[cur'].pages = buffers[cur].pages
<1>1. /\ cur \in DOMAIN buffers /\ \A b \in DOMAIN buffers : IsBuffer(buffers[b])
      /\ loops \subseteq LoopsOn(DOMAIN buffers)
  BY DEF WarmTyped
<1>2. l \in [buf : DOMAIN buffers, start : Nat, i : Nat, ready : BOOLEAN]
  BY <1>1 DEF LoopsOn
<1>3. PICK n \in Nat : n = l.i + 1
  BY <1>2
<1>4. PICK k : k = [l EXCEPT !.i = n, !.ready = TRUE]
  OBVIOUS
<1>5. k \in LoopsOn(DOMAIN buffers)
  BY <1>2, <1>4 DEF LoopsOn
<1>6. PICK ls : ls = (loops \ {l}) \cup {k}
  OBVIOUS
<1>7. ls \subseteq LoopsOn(DOMAIN buffers)
  BY <1>1, <1>5, <1>6
<1>8. PICK b : b = buffers[l.buf]
  OBVIOUS
<1>9. IsBuffer(b) /\ b.flight \subseteq Nat
  BY <1>1, <1>2, <1>8 DEF IsBuffer
<1>10. PICK F : F = b.flight \ {WarmIndex(l)}
  OBVIOUS
<1>11. PICK v : v = [b EXCEPT !.flight = F]
  OBVIOUS
<1>12. IsBuffer(v) /\ v.sig = b.sig /\ v.pages = b.pages
  BY <1>9, <1>10, <1>11, FlightChanges
<1>13. loops' = ls /\ buffers' = [buffers EXCEPT ![l.buf] = v]
  BY <1>3, <1>4, <1>6, <1>8, <1>10, <1>11 DEF WarmLost
<1>14. WarmTyped' /\ buffers'[cur'] = IF l.buf = cur THEN v ELSE buffers[cur]
  BY <1>2, <1>7, <1>12, <1>13, BufferReplaced
<1>. QED
  BY <1>8, <1>12, <1>14

\* A warmed page arrives: the live buffer gets what the server answers.
LEMMA WarmArrivesKeeps ==
  ASSUME catalog \subseteq Images, WarmTyped, NEW l \in loops, WarmArrives(l), cur' = cur
  PROVE  /\ WarmTyped' /\ buffers'[cur'].sig = buffers[cur].sig
         /\ \A i \in DOMAIN buffers'[cur'].pages :
              \/ /\ i \in DOMAIN buffers[cur].pages
                 /\ buffers'[cur'].pages[i] = buffers[cur].pages[i]
              \/ buffers'[cur'].pages[i] = Page(buffers[cur].sig, Offset(i))
<1>1. /\ cur \in DOMAIN buffers /\ \A b \in DOMAIN buffers : IsBuffer(buffers[b])
      /\ loops \subseteq LoopsOn(DOMAIN buffers)
  BY DEF WarmTyped
<1>2. l \in [buf : DOMAIN buffers, start : Nat, i : Nat, ready : BOOLEAN]
  BY <1>1 DEF LoopsOn
<1>3. PICK n \in Nat : n = l.i + 1
  BY <1>2
<1>4. PICK j : j = WarmIndex(l)
  OBVIOUS
<1>5. j \in Nat
  <2>1. l.start \in Nat /\ l.i \in Nat
    BY <1>2
  <2>. QED
    BY <1>4, <2>1 DEF WarmIndex
<1>6. PICK b : b = buffers[l.buf]
  OBVIOUS
<1>7. IsBuffer(b) /\ b.flight \subseteq Nat /\ b.sig \in Snapshot /\ b.exhausted \in BOOLEAN
      /\ DOMAIN b.pages \subseteq Nat /\ b.pages \in [DOMAIN b.pages -> Pages]
  BY <1>1, <1>2, <1>6 DEF IsBuffer
<1>8. PICK page : page = Page(b.sig, Offset(j))
  OBVIOUS
<1>9. page \in Pages
  <2>1. Offset(j) \in Nat
    BY <1>5, OffsetFacts
  <2>. QED
    BY <1>7, <1>8, <2>1, PageTyped
<1>10. PICK F : F = b.flight \ {j}
  OBVIOUS
<1>11. F \subseteq Nat
  BY <1>7, <1>10
<1>12. PICK w : w = [b EXCEPT !.flight = F]
  OBVIOUS
<1>13. PICK done : done = [buffers EXCEPT ![l.buf] = w]
  OBVIOUS
<1>14. done = [buffers EXCEPT ![l.buf].flight = @ \ {j}]
  BY <1>6, <1>10, <1>12, <1>13
<1>15. /\ DOMAIN done = DOMAIN buffers
       /\ \A c \in DOMAIN buffers : done[c] = IF c = l.buf THEN w ELSE buffers[c]
  BY <1>13
<1>16. IsBuffer(w) /\ w.sig = b.sig /\ w.pages = b.pages
  BY <1>7, <1>11, <1>12, FlightChanges
<1>17. CASE buffers[cur].sig # b.sig
  <2>1. PICK ls : ls = loops \ {l}
    OBVIOUS
  <2>2. PICK d : d = Collected(done, cur, ls)
    OBVIOUS
  <2>3. buffers' = d /\ loops' = ls /\ cur' = cur
    BY <1>4, <1>6, <1>14, <1>17, <2>1, <2>2 DEF WarmArrives
  <2>4. PICK D : D = DOMAIN buffers
    OBVIOUS
  <2>5. ls \subseteq LoopsOn(D) /\ cur \in D /\ \A c \in D : IsBuffer(done[c])
    BY <1>1, <1>15, <1>16, <2>1, <2>4
  <2>6. /\ cur \in DOMAIN d /\ d = [c \in DOMAIN d |-> d[c]]
        /\ \A c \in DOMAIN d : IsBuffer(d[c])
        /\ ls \subseteq LoopsOn(DOMAIN d) /\ d[cur] = done[cur]
    BY <2>2, <2>5, CollectedBuffers
  <2>7. cur # l.buf
    BY <1>6, <1>17
  <2>8. done[cur] = buffers[cur]
    BY <1>1, <1>15, <2>7
  <2>. QED
    BY <2>3, <2>6, <2>8 DEF WarmTyped
<1>18. CASE buffers[cur].sig = b.sig
  <2>1. PICK k : k = [l EXCEPT !.i = n, !.ready = TRUE]
    OBVIOUS
  <2>2. k \in LoopsOn(DOMAIN buffers)
    BY <1>2, <2>1 DEF LoopsOn
  <2>3. PICK ls : ls = (loops \ {l}) \cup {k}
    OBVIOUS
  <2>4. ls \subseteq LoopsOn(DOMAIN buffers)
    BY <1>1, <2>2, <2>3
  <2>5. PICK E : E = Extended(b.pages, j, page)
    OBVIOUS
  <2>6. /\ DOMAIN E \subseteq Nat /\ E \in [DOMAIN E -> Pages]
        /\ \A c \in DOMAIN E : E[c] = IF c = j THEN page ELSE b.pages[c]
        /\ \A c \in DOMAIN E : c = j \/ c \in DOMAIN b.pages
    BY <1>5, <1>7, <1>9, <2>5, PagesCome
  <2>7. PICK x \in BOOLEAN : x <=> (b.exhausted \/ ~page.more)
    OBVIOUS
  <2>8. PICK v : v = [w EXCEPT !.pages = E, !.exhausted = x]
    OBVIOUS
  <2>9. IsBuffer(v) /\ v.sig = b.sig /\ v.pages = E
    BY <1>16, <2>6, <2>7, <2>8 DEF IsBuffer
  <2>10. page.more \in BOOLEAN
    BY <1>9 DEF Pages
  <2>11. x = (b.exhausted \/ ~page.more)
    BY <1>7, <2>7, <2>10
  <2>12. loops' = ls /\ buffers' = [done EXCEPT ![l.buf].pages = E, ![l.buf].exhausted = x]
    <3>1. done[l.buf].pages = b.pages /\ done[l.buf].exhausted = b.exhausted
      BY <1>2, <1>7, <1>12, <1>13 DEF IsBuffer
    <3>2. /\ loops' = ls
          /\ buffers' = [done EXCEPT ![l.buf].pages = Extended(@, j, page),
                                     ![l.buf].exhausted = @ \/ ~page.more]
      BY <1>3, <1>4, <1>6, <1>8, <1>14, <1>18, <2>1, <2>3 DEF WarmArrives
    <3>. QED
      BY <2>5, <2>11, <3>1, <3>2
  <2>13. buffers' = [buffers EXCEPT ![l.buf] = v]
    BY <2>8, <2>12, <1>13
  <2>14. WarmTyped' /\ buffers'[cur'] = IF l.buf = cur THEN v ELSE buffers[cur]
    BY <1>2, <2>3, <2>4, <2>9, <2>12, <2>13, BufferReplaced
  <2>15. CASE l.buf = cur
    <3>1. buffers'[cur'] = v /\ buffers[cur] = b
      BY <1>6, <2>14, <2>15
    <3>. QED
      BY <1>8, <2>6, <2>9, <2>14, <3>1
  <2>16. CASE l.buf # cur
    BY <2>14, <2>16
  <2>. QED
    BY <2>15, <2>16
<1>. QED
  BY <1>17, <1>18

\* The page goes away: what was in flight is aborted.
LEMMA UnmountKeeps ==
  ASSUME WarmTyped, cur' = cur, loops' = Aborted(loops),
         buffers' = [buffers EXCEPT ![cur].flight = {}]
  PROVE  /\ WarmTyped' /\ buffers'[cur'].sig = buffers[cur].sig
         /\ buffers'[cur'].pages = buffers[cur].pages
<1>1. PICK b : b = buffers[cur]
  OBVIOUS
<1>2. PICK v : v = [b EXCEPT !.flight = {}]
  OBVIOUS
<1>3. cur \in DOMAIN buffers /\ IsBuffer(b)
  BY <1>1 DEF WarmTyped
<1>4. IsBuffer(v) /\ v.sig = b.sig /\ v.pages = b.pages
  BY <1>2, <1>3, FlightChanges
<1>5. Aborted(loops) \subseteq LoopsOn(DOMAIN buffers)
  BY AbortedLoops DEF WarmTyped
<1>6. buffers' = [buffers EXCEPT ![cur] = v]
  BY <1>1, <1>2
<1>7. WarmTyped' /\ buffers'[cur'] = v
  BY <1>3, <1>4, <1>5, <1>6, BufferReplaced
<1>. QED
  BY <1>1, <1>4, <1>7

-----------------------------------------------------------------------------
(* The inductive invariant.                                                *)

Requests == [append : BOOLEAN, s : Snapshot, offset : Nat, answer : SUBSET Pages]
Restores == [left : Nat, s : Snapshot, ready : BOOLEAN]
Polls == [served : BOOLEAN, rows : Rows]
AtMostOne(S) == \A x, y \in S : x = y

GridTyped ==
    /\ results \in Listings(misread) /\ misread \subseteq Images
    /\ hasMore \in BOOLEAN /\ pageRef \in Nat
    /\ loading \in BOOLEAN /\ error \in BOOLEAN
    /\ grid \subseteq Requests /\ AtMostOne(grid)
RestTyped ==
    /\ catalog \subseteq Images /\ typed \in Snapshot
    /\ resultsRef \in Seq(Images)
    /\ hasNew \in BOOLEAN /\ newest \in Images \cup {None} /\ polls \subseteq Polls
    /\ restore \subseteq Restores /\ AtMostOne(restore)
    /\ mounted \in BOOLEAN /\ searches \in Nat /\ mishaps \in Nat /\ still \in BOOLEAN
Typed == GridTyped /\ WarmTyped /\ RestTyped

\* The image mode before an image is chosen: nothing is fetched.
Blank(s) == s.mode = "image" /\ ~s.file

\* The warm pages are what the server answers now.
FreshPages == \A s \in Snapshot, i \in Nat :
    s = buffers[cur].sig /\ i \in DOMAIN buffers[cur].pages
      => buffers[cur].pages[i] = Page(s, Offset(i))

\* So is the answer on its way to the grid.
FreshAnswers == \A s \in Snapshot, o \in Nat, g \in grid : \A p \in g.answer :
    s = g.s /\ o = g.offset => p = Page(s, o)

\* The grid holds the pages it says of a search.
Holds(s) == \A i \in Nat : i = pageRef =>
    /\ Seqs!ToSet(results) = Loaded(s, i)
    /\ ~hasMore => Loaded(s, i) = All(s)

InForce == still => buffers[cur].sig = typed
Warm == still => FreshPages
Asked == still =>
    /\ FreshAnswers
    /\ \A g \in grid : /\ g.s = typed
                       /\ g.append => g.offset = Offset(pageRef)
                       /\ ~g.append => g.offset = 0
Resumed == still => \A r \in restore : r.s = typed \/ (r.ready /\ grid # {})
NothingAsked == Blank(typed) => restore = {} /\ pageRef = 0 /\ ~hasMore /\ grid = {}
Listed == (still /\ misread = {} /\ mounted /\ (\A g \in grid : g.append)
                 /\ Paginates(typed) /\ ~Blank(typed))
            => pageRef > 0 /\ \A s \in Snapshot : s = typed => Holds(s)

IInv == /\ Typed /\ SpinnerIsHonest /\ InForce /\ Warm /\ Asked /\ Resumed
        /\ NothingAsked /\ Listed

\* While the catalog stays, so does what the server answers.
LEMMA CatalogStays ==
  ASSUME catalog' = catalog
  PROVE  /\ \A s, o : Page(s, o)' = Page(s, o)
         /\ \A s, i : Loaded(s, i)' = Loaded(s, i)
         /\ \A s : All(s)' = All(s)
<1>1. \A s : Ranked(s)' = Ranked(s) /\ All(s)' = All(s)
  BY DEF Ranked, All
<1>2. \A s, i : Loaded(s, i)' = Loaded(s, i)
  BY <1>1 DEF Loaded
<1>3. \A s, o : Page(s, o)' = Page(s, o)
  BY <1>1 DEF Page, SimilarRoute, ByImageRoute, BrowseRoute, SearchRoute
<1>. QED
  BY <1>1, <1>2, <1>3

\* The live buffer keeps its pages, loses some, or gets what the server answers.
LEMMA FreshPagesStay ==
  ASSUME catalog' = catalog, FreshPages, WarmTyped,
         buffers'[cur'].sig = buffers[cur].sig,
         \A i \in DOMAIN buffers'[cur'].pages :
           \/ /\ i \in DOMAIN buffers[cur].pages
              /\ buffers'[cur'].pages[i] = buffers[cur].pages[i]
           \/ buffers'[cur'].pages[i] = Page(buffers[cur].sig, Offset(i))
  PROVE  FreshPages'
<1>1. buffers[cur].sig \in Snapshot /\ DOMAIN buffers[cur].pages \subseteq Nat
  BY DEF WarmTyped, IsBuffer
<1>2. ASSUME NEW i \in DOMAIN buffers'[cur'].pages
      PROVE  buffers'[cur'].pages[i] = Page(buffers[cur].sig, Offset(i))
  BY <1>1 DEF FreshPages
<1>3. ASSUME NEW s \in Snapshot, NEW i \in Nat,
             s = buffers'[cur'].sig, i \in DOMAIN buffers'[cur'].pages
      PROVE  buffers'[cur'].pages[i] = Page(s, Offset(i))'
  <2>1. buffers'[cur'].pages[i] = Page(s, Offset(i))
    BY <1>2, <1>3
  <2>. QED
    BY <2>1, CatalogStays
<1>. QED
  BY <1>3 DEF FreshPages

\* No page is warm.
LEMMA NoPageIsWarm ==
  ASSUME DOMAIN buffers'[cur'].pages = {}
  PROVE  FreshPages'
<1>. QED
  BY DEF FreshPages

\* The grid holds what it says while it and the catalog stay.
LEMMA HoldsStays ==
  ASSUME catalog' = catalog, results' = results, pageRef' = pageRef, hasMore' = hasMore,
         NEW s \in Snapshot, Holds(s)
  PROVE  Holds(s)'
<1>. QED
  BY CatalogStays DEF Holds

\* And the answer on its way is right while they stay.
LEMMA AnswersStay ==
  ASSUME catalog' = catalog, grid' = grid, FreshAnswers
  PROVE  FreshAnswers'
<1>. QED
  BY CatalogStays DEF FreshAnswers

\* A step that leaves the grid and the live pages alone keeps what is said of them.
LEMMA OthersStay ==
  ASSUME IInv, UNCHANGED <<catalog, typed, gridVars, mounted>>, still' => still,
         RestTyped', WarmTyped',
         buffers'[cur'].sig = buffers[cur].sig,
         still' => FreshPages',
         restore' = restore
  PROVE  IInv'
<1>1. Typed' /\ SpinnerIsHonest'
  BY DEF IInv, Typed, GridTyped, AtMostOne, gridVars, SpinnerIsHonest
<1>2. InForce' /\ Warm'
  BY DEF IInv, InForce, Warm
<1>3. Asked'
  BY AnswersStay DEF IInv, Asked, gridVars
<1>4. Resumed' /\ NothingAsked'
  BY DEF IInv, Resumed, NothingAsked, gridVars
<1>5. Listed'
  BY HoldsStays DEF IInv, Listed, gridVars
<1>. QED
  BY <1>1, <1>2, <1>3, <1>4, <1>5 DEF IInv

\* What an appended page does to the grid.
LEMMA AppendKeeps ==
  ASSUME catalog \subseteq Images, GridTyped, WarmTyped, resultsRef \in Seq(Images),
         NEW s \in Snapshot, NEW page \in Pages, NEW v, IsBuffer(v),
         NEW bs, bs = [buffers EXCEPT ![cur] = v], LandAppend(s, page, bs)
  PROVE  /\ results' \in Listings(misread') /\ misread' \subseteq Images
         /\ misread' = {} => misread = {}
         /\ hasMore' \in BOOLEAN /\ pageRef' \in Nat /\ pageRef' > 0
         /\ WarmTyped' /\ buffers'[cur'] = v /\ newest' = newest
         /\ (catalog' = catalog /\ misread' = {} /\ Paginates(s) /\ Holds(s)
               /\ \A i \in Nat : i = pageRef => page = Page(s, Offset(i))) => Holds(s)'
<1>1. PICK q : q = page.rows
  OBVIOUS
<1>2. q \in Rows /\ page.more \in BOOLEAN
  BY <1>1 DEF Pages
<1>3. PICK n \in Nat : n = pageRef
  BY DEF GridTyped
<1>4. /\ results' = results \o Novel(q) /\ misread' = misread \cup Unmirrored
      /\ hasMore' = (Novel(q) # <<>> /\ page.more)
      /\ pageRef' = n + 1 /\ newest' = newest
      /\ SchedulePrefetch(s, bs, n + 1)
  BY <1>1, <1>3 DEF LandAppend
<1>5. /\ results' \in Listings(misread') /\ misread' \subseteq Images
      /\ misread' = {} =>
           /\ misread = {}
           /\ Seqs!ToSet(results') = Seqs!ToSet(results) \cup Seqs!ToSet(q)
           /\ Novel(q) = <<>> => Seqs!ToSet(q) \subseteq Seqs!ToSet(results)
  <2>1. PICK M : M = misread
    OBVIOUS
  <2>2. results \in Listings(M) /\ M \subseteq Images
    BY <2>1 DEF GridTyped
  <2>3. /\ results \o Novel(q) \in Listings(M \cup Unmirrored)
        /\ Unmirrored \subseteq Images
        /\ Unmirrored = {} =>
             /\ Seqs!ToSet(results \o Novel(q)) = Seqs!ToSet(results) \cup Seqs!ToSet(q)
             /\ Novel(q) = <<>> => Seqs!ToSet(q) \subseteq Seqs!ToSet(results)
    BY <1>2, <2>2, NovelRows
  <2>. QED
    BY <1>4, <2>1, <2>2, <2>3
<1>6. n + 1 \in Nat /\ n + 1 > 0
  OBVIOUS
<1>7. WarmTyped' /\ buffers'[cur'] = v
  BY <1>4, <1>6, ScheduleKeeps
<1>8. ASSUME catalog' = catalog, misread' = {}, Paginates(s), Holds(s),
             \A i \in Nat : i = pageRef => page = Page(s, Offset(i))
      PROVE  Holds(s)'
  <2>1. page = Page(s, Offset(n))
    BY <1>3, <1>8
  <2>2. /\ Loaded(s, n + 1) = Loaded(s, n) \cup Seqs!ToSet(q)
        /\ Loaded(s, n) \cap Seqs!ToSet(q) = {}
        /\ q = <<>> => ~page.more
        /\ ~page.more => Loaded(s, n + 1) = All(s)
    BY <1>1, <1>8, <2>1, PageFills
  <2>3. Seqs!ToSet(results) = Loaded(s, n)
    BY <1>3, <1>8 DEF Holds
  <2>4. Seqs!ToSet(results') = Loaded(s, n + 1)
    BY <1>5, <1>8, <2>2, <2>3
  <2>5. ASSUME ~hasMore' PROVE ~page.more
    <3>1. CASE Novel(q) = <<>>
      <4>1. Seqs!ToSet(q) = {}
        BY <1>5, <1>8, <2>2, <2>3, <3>1
      <4>2. DOMAIN q = {} /\ Len(q) \in Nat /\ DOMAIN q = 1..Len(q) /\ q \in Seq(Images)
        BY <1>2, <4>1, RowsAre DEF Seqs!ToSet
      <4>3. Len(q) = 0
        BY <4>2
      <4>4. q = <<>>
        BY <4>2, <4>3, EmptySeq
      <4>. QED
        BY <2>2, <4>4
    <3>2. CASE Novel(q) # <<>>
      BY <1>4, <2>5, <3>2
    <3>. QED
      BY <3>1, <3>2
  <2>6. /\ Seqs!ToSet(results') = Loaded(s, n + 1)'
        /\ ~hasMore' => Loaded(s, n + 1)' = All(s)'
    BY <1>8, <2>2, <2>4, <2>5, CatalogStays
  <2>. QED
    BY <1>4, <2>6 DEF Holds
<1>. QED
  BY <1>2, <1>4, <1>5, <1>6, <1>7, <1>8

\* What the first page does.
LEMMA FirstPageKeeps ==
  ASSUME catalog \subseteq Images, WarmTyped,
         NEW s \in Snapshot, NEW page \in Pages, LandFresh(s, page)
  PROVE  /\ results' \in Listings(misread') /\ misread' = {}
         /\ hasMore' \in BOOLEAN /\ pageRef' \in Nat /\ pageRef' > 0
         /\ newest' \in Images \cup {None}
         /\ WarmTyped' /\ buffers'[cur'] = buffers[cur]
         /\ (catalog' = catalog /\ Paginates(s) /\ page = Page(s, 0)) => Holds(s)'
<1>1. PICK q : q = page.rows
  OBVIOUS
<1>2. q \in Rows /\ page.more \in BOOLEAN
  BY <1>1 DEF Pages
<1>3. /\ results' = q /\ misread' = {} /\ hasMore' = page.more /\ pageRef' = 1
      /\ newest' = IF q = <<>> THEN None ELSE Head(q)
      /\ SchedulePrefetch(s, buffers, 1)
  BY <1>1 DEF LandFresh
<1>4. WarmTyped' /\ buffers'[cur'] = buffers[cur]
  <2>1. PICK v : v = buffers[cur]
    OBVIOUS
  <2>2. PICK bs : bs = buffers
    OBVIOUS
  <2>3. IsBuffer(v) /\ bs = [buffers EXCEPT ![cur] = v]
    BY <2>1, <2>2 DEF WarmTyped
  <2>4. SchedulePrefetch(s, bs, 1)
    BY <1>3, <2>2
  <2>5. 1 \in Nat
    OBVIOUS
  <2>. QED
    BY <2>1, <2>3, <2>4, <2>5, ScheduleKeeps
<1>5. newest' \in Images \cup {None}
  <2>1. q \in Seq(Images)
    BY <1>2, RowsAre
  <2>2. q # <<>> => Head(q) \in Images
    BY <2>1, HeadTailProperties
  <2>. QED
    BY <1>3, <2>2
<1>6. ASSUME catalog' = catalog, Paginates(s), page = Page(s, 0) PROVE Holds(s)'
  <2>1. 0 \in Nat /\ page = Page(s, Offset(0)) /\ 0 + 1 = 1
    BY <1>6, OffsetFacts
  <2>2. /\ Loaded(s, 0 + 1) = Loaded(s, 0) \cup Seqs!ToSet(q)
        /\ ~page.more => Loaded(s, 0 + 1) = All(s)
    BY <1>1, <1>6, <2>1, PageFills
  <2>3. Loaded(s, 1) = Seqs!ToSet(q) /\ (~page.more => Loaded(s, 1) = All(s))
    BY <2>1, <2>2, NothingLoaded
  <2>4. Seqs!ToSet(q) = Loaded(s, 1)' /\ (~page.more => Loaded(s, 1)' = All(s)')
    BY <1>6, <2>3, CatalogStays
  <2>. QED
    BY <1>3, <2>4 DEF Holds
<1>7. results' \in Listings(misread')
  BY <1>2, <1>3, RowsAreListings
<1>. QED
  BY <1>2, <1>3, <1>4, <1>5, <1>6, <1>7

\* doFetch(true, s): a warm page lands, or the grid asks for the next one.
LEMMA FetchAppendKeeps ==
  ASSUME catalog \subseteq Images, GridTyped, WarmTyped, resultsRef \in Seq(Images),
         NEW s \in Snapshot, FetchAppend(s)
  PROVE  /\ GridTyped' /\ WarmTyped' /\ hasNew' = hasNew /\ newest' = newest
         /\ loading' <=> grid' # {}
         /\ misread' = {} => misread = {}
         /\ pageRef > 0 => pageRef' > 0
         /\ \A g \in grid' : /\ g.append /\ g.s = s /\ g.offset = Offset(pageRef')
                             /\ g.answer = {}
         /\ buffers'[cur'].sig = buffers[cur].sig
         /\ (catalog' = catalog /\ FreshPages) => FreshPages'
         /\ (catalog' = catalog /\ misread' = {} /\ FreshPages /\ Paginates(s) /\ Holds(s))
              => Holds(s)'
<1>1. PICK n \in Nat : n = pageRef
  BY DEF GridTyped
<1>2. PICK b : b = buffers[cur]
  OBVIOUS
<1>3. /\ cur \in DOMAIN buffers /\ IsBuffer(b) /\ b.sig \in Snapshot
      /\ DOMAIN b.pages \subseteq Nat /\ b.pages \in [DOMAIN b.pages -> Pages]
  BY <1>2 DEF WarmTyped, IsBuffer
<1>4. error' = FALSE /\ hasNew' = hasNew
  BY DEF FetchAppend
<1>5. CASE b.sig = s /\ n \in DOMAIN b.pages
  <2>1. PICK page : page = b.pages[n]
    OBVIOUS
  <2>2. TakePrefetched(s, n) = {page}
    BY <1>2, <1>5, <2>1 DEF TakePrefetched
  <2>3. PICK P : P = Without(b.pages, n)
    OBVIOUS
  <2>4. PICK v : v = [b EXCEPT !.pages = P]
    OBVIOUS
  <2>5. PICK bs : bs = [buffers EXCEPT ![cur] = v]
    OBVIOUS
  <2>6. bs = [buffers EXCEPT ![cur].pages = Without(@, n)]
    BY <1>2, <2>3, <2>4, <2>5
  <2>7. LandAppend(s, page, bs) /\ loading' = FALSE /\ grid' = {}
    BY <1>1, <2>2, <2>6 DEF FetchAppend
  <2>8. /\ DOMAIN P \subseteq Nat /\ P \in [DOMAIN P -> Pages]
        /\ \A j \in DOMAIN P : j \in DOMAIN b.pages /\ P[j] = b.pages[j]
    BY <1>3, <2>3, PagesGo
  <2>9. IsBuffer(v) /\ v.sig = b.sig /\ v.pages = P
    BY <1>3, <2>4, <2>8, PagesChange
  <2>10. page \in Pages
    BY <1>3, <1>5, <2>1
  <2>11. /\ results' \in Listings(misread') /\ misread' \subseteq Images
         /\ misread' = {} => misread = {}
         /\ hasMore' \in BOOLEAN /\ pageRef' \in Nat /\ pageRef' > 0
         /\ WarmTyped' /\ buffers'[cur'] = v /\ newest' = newest
         /\ (catalog' = catalog /\ misread' = {} /\ Paginates(s) /\ Holds(s)
               /\ \A i \in Nat : i = pageRef => page = Page(s, Offset(i))) => Holds(s)'
    BY <2>5, <2>7, <2>9, <2>10, AppendKeeps
  <2>12. GridTyped'
    BY <1>4, <2>7, <2>11 DEF GridTyped, AtMostOne
  <2>13. ASSUME catalog' = catalog, FreshPages PROVE FreshPages'
    BY <1>2, <2>8, <2>9, <2>11, <2>13, FreshPagesStay
  <2>14. ASSUME catalog' = catalog, misread' = {}, FreshPages, Paginates(s), Holds(s)
         PROVE  Holds(s)'
    <3>1. page = Page(s, Offset(n))
      BY <1>2, <1>5, <2>1, <2>14 DEF FreshPages
    <3>. QED
      BY <1>1, <2>11, <2>14, <3>1
  <2>. QED
    BY <1>2, <1>4, <2>7, <2>9, <2>11, <2>12, <2>13, <2>14
<1>6. CASE ~(b.sig = s /\ n \in DOMAIN b.pages)
  <2>1. TakePrefetched(s, n) = {}
    BY <1>2, <1>6 DEF TakePrefetched
  <2>2. PICK g : g = Request(TRUE, s, Offset(n))
    OBVIOUS
  <2>3. /\ loading' = TRUE /\ grid' = {g}
        /\ UNCHANGED <<results, misread, hasMore, pageRef, newest, warmVars>>
    BY <1>1, <2>1, <2>2 DEF FetchAppend
  <2>4. g \in Requests /\ g.append /\ g.s = s /\ g.offset = Offset(n) /\ g.answer = {}
    BY <2>2, OffsetFacts DEF Request, Requests
  <2>5. GridTyped'
    BY <1>4, <2>3, <2>4 DEF GridTyped, AtMostOne
  <2>6. buffers' = buffers /\ cur' = cur /\ loops' = loops
    BY <2>3 DEF warmVars
  <2>7. WarmTyped'
    BY <2>6 DEF WarmTyped
  <2>8. ASSUME catalog' = catalog, FreshPages PROVE FreshPages'
    BY <2>6, <2>8, FreshPagesStay
  <2>9. ASSUME catalog' = catalog, Holds(s) PROVE Holds(s)'
    BY <2>3, <2>9, HoldsStays
  <2>. QED
    BY <1>1, <1>4, <2>3, <2>4, <2>5, <2>6, <2>7, <2>8, <2>9
<1>. QED
  BY <1>5, <1>6

-----------------------------------------------------------------------------
(* The steps.                                                              *)

\* The loop that re-pages a link is woken, and stays what it is.
LEMMA WokenKeeps ==
  ASSUME restore \subseteq Restores, AtMostOne(restore), Woken
  PROVE  /\ restore' \subseteq Restores /\ AtMostOne(restore')
         /\ \A r \in restore' : r.ready /\ \E q \in restore : r.s = q.s
         /\ restore = {} => restore' = {}
<1>1. \A r \in restore : LET w == [r EXCEPT !.ready = TRUE]
                         IN  w \in Restores /\ w.ready /\ w.s = r.s
  BY DEF Restores
<1>2. restore' = {[r EXCEPT !.ready = TRUE] : r \in restore}
  BY DEF Woken
<1>. QED
  BY <1>1, <1>2 DEF AtMostOne

\* A fresh search: the grid asks for its first page, under a new buffer.
LEMMA SearchAnewKeeps ==
  ASSUME IInv, NEW s \in Snapshot, Blank(s) => Blank(typed), SearchAnew(s), searches' \in Nat
  PROVE  IInv'
<1>1. /\ Typed /\ GridTyped /\ WarmTyped /\ RestTyped /\ NothingAsked
  BY DEF IInv, Typed
<1>2. /\ typed' = s /\ catalog' = catalog /\ mounted' = mounted /\ mishaps' = mishaps
      /\ resultsRef' = resultsRef
      /\ hasNew' = FALSE /\ newest' = None /\ still' = TRUE
      /\ searches' \in Nat /\ polls' \in {polls, {}}
      /\ ResetPrefetch(s) /\ Woken /\ FetchFresh(s)
  BY DEF SearchAnew, Retyped, FetchFresh
<1>3. WarmTyped' /\ buffers'[cur'] = EmptyBuffer(s)
  BY <1>1, <1>2, ResetKeeps
<1>4. buffers'[cur'].sig = s /\ DOMAIN buffers'[cur'].pages = {}
  BY <1>3, EmptyBuffers
<1>5. /\ restore' \subseteq Restores /\ AtMostOne(restore')
      /\ \A r \in restore' : r.ready /\ \E q \in restore : r.s = q.s
      /\ restore = {} => restore' = {}
  BY <1>1, <1>2, WokenKeeps DEF RestTyped
<1>6. RestTyped'
  <2>1. searches' \in Nat /\ polls' \subseteq Polls
    BY <1>1, <1>2 DEF RestTyped
  <2>2. newest' \in Images \cup {None} /\ hasNew' \in BOOLEAN /\ still' \in BOOLEAN
    BY <1>2
  <2>. QED
    BY <1>1, <1>2, <1>5, <2>1, <2>2 DEF RestTyped
<1>7. InForce' /\ Warm'
  BY <1>2, <1>4, NoPageIsWarm DEF InForce, Warm
<1>8. CASE Blank(s)
  <2>1. /\ results' = <<>> /\ misread' = {} /\ hasMore' = FALSE /\ loading' = FALSE
        /\ grid' = {}
        /\ pageRef' = pageRef /\ error' = error
    BY <1>2, <1>8 DEF FetchFresh, Blank
  <2>2. restore' = {} /\ pageRef' = 0
    BY <1>1, <1>5, <1>8, <2>1 DEF NothingAsked
  <2>3. <<>> \in Listings({})
    BY EmptySeq DEF Listings
  <2>4. GridTyped'
    BY <1>1, <2>1, <2>3 DEF GridTyped, AtMostOne
  <2>5. SpinnerIsHonest' /\ Resumed' /\ NothingAsked' /\ Asked'
    BY <2>1, <2>2 DEF SpinnerIsHonest, Resumed, NothingAsked, Asked, FreshAnswers
  <2>6. Listed'
    BY <1>2, <1>8 DEF Listed
  <2>. QED
    BY <1>3, <1>6, <1>7, <2>4, <2>5, <2>6 DEF IInv, Typed
<1>9. CASE ~Blank(s)
  <2>1. PICK g : g = Request(FALSE, s, 0)
    OBVIOUS
  <2>2. /\ loading' = TRUE /\ error' = FALSE /\ grid' = {g}
        /\ UNCHANGED <<results, misread, hasMore, pageRef>>
    BY <1>2, <1>9, <2>1 DEF FetchFresh, Blank
  <2>3. g \in Requests /\ ~g.append /\ g.s = s /\ g.offset = 0 /\ g.answer = {}
    BY <2>1 DEF Request, Requests
  <2>4. GridTyped'
    BY <1>1, <2>2, <2>3 DEF GridTyped, AtMostOne
  <2>5. SpinnerIsHonest' /\ NothingAsked'
    BY <1>2, <1>9, <2>2 DEF SpinnerIsHonest, NothingAsked
  <2>6. Asked'
    BY <1>2, <2>2, <2>3 DEF Asked, FreshAnswers
  <2>7. Resumed'
    BY <1>5, <2>2 DEF Resumed
  <2>8. Listed'
    BY <2>2, <2>3 DEF Listed
  <2>. QED
    BY <1>3, <1>6, <1>7, <2>4, <2>5, <2>6, <2>7, <2>8 DEF IInv, Typed
<1>. QED
  BY <1>8, <1>9

\* One the user starts.
LEMMA SubmitKeeps ==
  ASSUME IInv, NEW s \in Snapshot, Blank(s) => Blank(typed), Submit(s)
  PROVE  IInv'
<1>1. SearchAnew(s) /\ searches' \in Nat
  BY DEF Submit, IInv, Typed, RestTyped
<1>. QED
  BY <1>1, SearchAnewKeeps

\* Only the form changes.
LEMMA TypeKeeps ==
  ASSUME IInv, NEW s \in Snapshot, Blank(s) => Blank(typed), Type(s)
  PROVE  IInv'
<1>1. /\ Typed /\ GridTyped /\ WarmTyped /\ RestTyped /\ NothingAsked /\ SpinnerIsHonest
  BY DEF IInv, Typed
<1>2. /\ typed' = s /\ still' = FALSE /\ polls' \in {polls, {}}
      /\ hasNew' = (hasNew /\ BrowsePath(s)) /\ searches' = searches + 1
      /\ UNCHANGED <<catalog, results, misread, hasMore, pageRef, loading, error, grid,
                     buffers, cur,
                     loops, newest, restore, mounted, resultsRef, mishaps>>
  BY DEF Type, Retyped, gridVars, warmVars
<1>3. GridTyped' /\ WarmTyped'
  BY <1>1, <1>2 DEF GridTyped, WarmTyped, AtMostOne
<1>4. RestTyped'
  <2>1. searches' \in Nat /\ polls' \subseteq Polls
    BY <1>1, <1>2 DEF RestTyped
  <2>2. hasNew' \in BOOLEAN /\ still' \in BOOLEAN
    BY <1>2
  <2>. QED
    BY <1>1, <1>2, <2>1, <2>2 DEF RestTyped, AtMostOne
<1>5. SpinnerIsHonest' /\ NothingAsked'
  BY <1>1, <1>2 DEF SpinnerIsHonest, NothingAsked
<1>6. InForce' /\ Warm' /\ Asked' /\ Resumed' /\ Listed'
  BY <1>2 DEF InForce, Warm, Asked, Resumed, Listed
<1>. QED
  BY <1>3, <1>4, <1>5, <1>6 DEF IInv, Typed

\* Every search the user can start, and every change of the form.
LEMMA SearchesKeep ==
  ASSUME IInv,
         \/ Search \/ ChangeFilter \/ ChangeSort \/ FindSimilar \/ ClearSimilar
         \/ ApplyExternalImage \/ ClearImage \/ Refresh \/ TypeText \/ TypePath
  PROVE  IInv'
<1>1. /\ typed \in [mode : {"browse", "similar", "image"}, text : BOOLEAN, filter : Filters,
                    sort : {"newest", "oldest"}, ref : Images \cup {None}, file : BOOLEAN]
      /\ typed.filter \in [link : LinkFilters, panel : PanelFilters]
  BY DEF IInv, Typed, RestTyped, Snapshot, Filters
<1>2. CASE Search
  <2>1. PICK s : s = [typed EXCEPT !.mode = "browse", !.ref = None, !.file = FALSE]
    OBVIOUS
  <2>2. s \in Snapshot /\ ~Blank(s)
    BY <1>1, <2>1 DEF Snapshot, Blank
  <2>3. Submit(s)
    BY <1>2, <2>1 DEF Search
  <2>. QED
    BY <2>2, <2>3, SubmitKeeps
<1>3. CASE ChangeFilter
  <2>1. PICK f \in Filters : Submit([typed EXCEPT !.filter = f])
    BY <1>3 DEF ChangeFilter
  <2>2. PICK s : s = [typed EXCEPT !.filter = f]
    OBVIOUS
  <2>3. s \in Snapshot /\ (Blank(s) => Blank(typed))
    BY <1>1, <2>2 DEF Snapshot, Blank
  <2>. QED
    BY <2>1, <2>2, <2>3, SubmitKeeps
<1>4. CASE ChangeSort
  <2>1. PICK x \in {"newest", "oldest"} :
          \/ Submit([typed EXCEPT !.sort = x]) \/ Type([typed EXCEPT !.sort = x])
    BY <1>4 DEF ChangeSort
  <2>2. PICK s : s = [typed EXCEPT !.sort = x]
    OBVIOUS
  <2>3. s \in Snapshot /\ (Blank(s) => Blank(typed))
    BY <1>1, <2>2 DEF Snapshot, Blank
  <2>4. Submit(s) \/ Type(s)
    BY <2>1, <2>2
  <2>. QED
    BY <2>3, <2>4, SubmitKeeps, TypeKeeps
<1>5. CASE FindSimilar
  <2>1. PICK r \in Seqs!ToSet(results) : Submit([typed EXCEPT !.mode = "similar", !.ref = r])
    BY <1>5 DEF FindSimilar
  <2>2. r \in Images
    <3>1. PICK M : results \in Listings(M)
      BY DEF IInv, Typed, GridTyped
    <3>. QED
      BY <3>1, ListingsAre
  <2>3. PICK s : s = [typed EXCEPT !.mode = "similar", !.ref = r]
    OBVIOUS
  <2>4. s \in Snapshot /\ ~Blank(s)
    BY <1>1, <2>2, <2>3 DEF Snapshot, Blank
  <2>. QED
    BY <2>1, <2>3, <2>4, SubmitKeeps
<1>6. CASE ClearSimilar
  <2>1. PICK s : s = [typed EXCEPT !.mode = "browse", !.ref = None]
    OBVIOUS
  <2>2. s \in Snapshot /\ ~Blank(s)
    BY <1>1, <2>1 DEF Snapshot, Blank
  <2>3. SearchAnew(s) /\ searches' \in Nat
    BY <1>1, <1>6, <2>1 DEF ClearSimilar, IInv, Typed, RestTyped
  <2>. QED
    BY <2>2, <2>3, SearchAnewKeeps
<1>7. CASE ApplyExternalImage
  <2>1. PICK s : s = [typed EXCEPT !.mode = "image", !.file = TRUE, !.ref = None]
    OBVIOUS
  <2>2. s \in Snapshot /\ ~Blank(s)
    BY <1>1, <2>1 DEF Snapshot, Blank
  <2>3. Submit(s)
    BY <1>7, <2>1 DEF ApplyExternalImage
  <2>. QED
    BY <2>2, <2>3, SubmitKeeps
<1>8. CASE ClearImage
  <2>1. PICK s : s = [typed EXCEPT !.mode = "browse", !.file = FALSE]
    OBVIOUS
  <2>2. s \in Snapshot /\ ~Blank(s)
    BY <1>1, <2>1 DEF Snapshot, Blank
  <2>3. Submit(s)
    BY <1>8, <2>1 DEF ClearImage
  <2>. QED
    BY <2>2, <2>3, SubmitKeeps
<1>9. CASE Refresh
  <2>1. PICK s : s = typed
    OBVIOUS
  <2>2. s \in Snapshot /\ (Blank(s) => Blank(typed)) /\ Submit(s)
    BY <1>1, <1>9, <2>1 DEF Snapshot, Refresh
  <2>. QED
    BY <2>2, SubmitKeeps
<1>10. CASE TypeText
  <2>1. PICK b \in BOOLEAN : Type([typed EXCEPT !.text = b])
    BY <1>10 DEF TypeText
  <2>2. PICK s : s = [typed EXCEPT !.text = b]
    OBVIOUS
  <2>3. s \in Snapshot /\ (Blank(s) => Blank(typed))
    BY <1>1, <2>2 DEF Snapshot, Blank
  <2>. QED
    BY <2>1, <2>2, <2>3, TypeKeeps
<1>11. CASE TypePath
  <2>1. PICK p \in PanelFilters : Type([typed EXCEPT !.filter.panel = p])
    BY <1>11 DEF TypePath
  <2>2. PICK f : f = [typed.filter EXCEPT !.panel = p]
    OBVIOUS
  <2>3. PICK s : s = [typed EXCEPT !.filter = f]
    OBVIOUS
  <2>4. f \in Filters
    BY <1>1, <2>2 DEF Filters
  <2>5. s \in Snapshot /\ (Blank(s) => Blank(typed))
    BY <1>1, <2>3, <2>4 DEF Snapshot, Blank
  <2>6. Type(s)
    BY <2>1, <2>2, <2>3
  <2>. QED
    BY <2>5, <2>6, TypeKeeps
<1>. QED
  BY <1>2, <1>3, <1>4, <1>5, <1>6, <1>7, <1>8, <1>9, <1>10, <1>11

\* The next page of the search in force.
LEMMA LoadMoreKeeps ==
  ASSUME IInv, LoadMore
  PROVE  IInv'
<1>1. /\ GridTyped /\ WarmTyped /\ RestTyped /\ NothingAsked /\ SpinnerIsHonest
      /\ InForce /\ Warm /\ Asked /\ Resumed /\ Listed
  BY DEF IInv, Typed
<1>2. PICK s : s = typed
  OBVIOUS
<1>3. /\ Idle /\ mounted /\ hasMore /\ ~loading /\ FetchAppend(s) /\ Woken
      /\ UNCHANGED <<catalog, typed, polls, mounted, resultsRef, searches, mishaps, still>>
  BY <1>2 DEF LoadMore, MayLoad, boundVars
<1>4. /\ s \in Snapshot /\ catalog \subseteq Images /\ grid = {} /\ ~Blank(s)
      /\ resultsRef \in Seq(Images)
  BY <1>1, <1>2, <1>3 DEF RestTyped, SpinnerIsHonest, NothingAsked
<1>5. /\ GridTyped' /\ WarmTyped' /\ hasNew' = hasNew /\ newest' = newest
      /\ loading' <=> grid' # {}
      /\ misread' = {} => misread = {}
      /\ pageRef > 0 => pageRef' > 0
      /\ \A g \in grid' : /\ g.append /\ g.s = s /\ g.offset = Offset(pageRef')
                          /\ g.answer = {}
      /\ buffers'[cur'].sig = buffers[cur].sig
      /\ FreshPages => FreshPages'
      /\ (misread' = {} /\ FreshPages /\ Paginates(s) /\ Holds(s)) => Holds(s)'
  BY <1>1, <1>3, <1>4, FetchAppendKeeps
<1>6. /\ restore' \subseteq Restores /\ AtMostOne(restore')
      /\ \A r \in restore' : r.ready /\ \E q \in restore : r.s = q.s
      /\ restore = {} => restore' = {}
  BY <1>1, <1>3, WokenKeeps DEF RestTyped
<1>7. RestTyped'
  BY <1>1, <1>3, <1>5, <1>6 DEF RestTyped
<1>8. SpinnerIsHonest'
  BY <1>5 DEF SpinnerIsHonest
<1>9. InForce' /\ Warm'
  BY <1>1, <1>3, <1>5 DEF InForce, Warm
<1>10. Asked'
  BY <1>2, <1>3, <1>5 DEF Asked, FreshAnswers
<1>11. Resumed'
  BY <1>1, <1>3, <1>6 DEF Resumed, Idle
<1>12. NothingAsked'
  BY <1>2, <1>3, <1>4 DEF NothingAsked
<1>13. Listed'
  <2>1. SUFFICES ASSUME still, misread' = {}, mounted, Paginates(s)
                 PROVE  pageRef' > 0 /\ Holds(s)'
    BY <1>2, <1>3 DEF Listed
  <2>2. pageRef > 0 /\ Holds(s)
    BY <1>1, <1>2, <1>4, <1>5, <2>1 DEF Listed
  <2>. QED
    BY <1>1, <1>5, <2>1, <2>2 DEF Warm
<1>. QED
  BY <1>5, <1>7, <1>8, <1>9, <1>10, <1>11, <1>12, <1>13 DEF IInv, Typed

\* The page goes away.
LEMMA UnmountStepKeeps ==
  ASSUME IInv, Unmount
  PROVE  IInv'
<1>1. /\ GridTyped /\ WarmTyped /\ RestTyped /\ NothingAsked /\ SpinnerIsHonest
      /\ InForce /\ Warm /\ Asked /\ Resumed /\ Listed
  BY DEF IInv, Typed
<1>2. /\ Idle /\ mounted' = FALSE /\ grid' = {} /\ Woken /\ loops' = Aborted(loops)
      /\ buffers' = [buffers EXCEPT ![cur].flight = {}] /\ polls' = {}
      /\ UNCHANGED <<catalog, typed, results, resultsRef, misread, hasMore, pageRef,
                     loading, error, cur,
                     hasNew, newest, searches, mishaps, still>>
  BY DEF Unmount, boundVars
<1>3. /\ WarmTyped' /\ buffers'[cur'].sig = buffers[cur].sig
      /\ buffers'[cur'].pages = buffers[cur].pages
  BY <1>1, <1>2, UnmountKeeps
<1>4. /\ restore' \subseteq Restores /\ AtMostOne(restore')
      /\ \A r \in restore' : r.ready /\ \E q \in restore : r.s = q.s
      /\ restore = {} => restore' = {}
  BY <1>1, <1>2, WokenKeeps DEF RestTyped
<1>5. GridTyped'
  BY <1>1, <1>2 DEF GridTyped, AtMostOne
<1>6. RestTyped'
  BY <1>1, <1>2, <1>4 DEF RestTyped
<1>7. InForce' /\ SpinnerIsHonest' /\ Listed'
  BY <1>1, <1>2, <1>3 DEF InForce, SpinnerIsHonest, Listed
<1>8. Warm'
  BY <1>1, <1>2, <1>3, FreshPagesStay DEF Warm
<1>9. Asked' /\ NothingAsked'
  BY <1>1, <1>2, <1>4 DEF Asked, FreshAnswers, NothingAsked
<1>10. Resumed'
  BY <1>1, <1>2, <1>4 DEF Resumed, Idle
<1>. QED
  BY <1>3, <1>5, <1>6, <1>7, <1>8, <1>9, <1>10 DEF IInv, Typed

\* The server answers the grid.
LEMMA ServeKeeps ==
  ASSUME IInv, Serve
  PROVE  IInv'
<1>1. /\ GridTyped /\ WarmTyped /\ RestTyped /\ NothingAsked /\ SpinnerIsHonest
      /\ InForce /\ Warm /\ Asked /\ Resumed /\ Listed
  BY DEF IInv, Typed
<1>2. PICK g \in grid : /\ g.answer = {}
                        /\ grid' = {[g EXCEPT !.answer = {Page(g.s, g.offset)}]}
  BY DEF Serve
<1>3. UNCHANGED <<catalog, typed, results, resultsRef, misread, hasMore, pageRef,
                  loading, error, buffers, cur,
                  loops, hasNew, newest, polls, restore, mounted, searches, mishaps, still>>
  BY DEF Serve, warmVars, freshVars, boundVars
<1>4. PICK p : p = Page(g.s, g.offset)
  OBVIOUS
<1>5. PICK h : h = [g EXCEPT !.answer = {p}]
  OBVIOUS
<1>6. grid' = {h}
  BY <1>2, <1>4, <1>5
<1>7. g \in [append : BOOLEAN, s : Snapshot, offset : Nat, answer : SUBSET Pages]
  BY <1>1 DEF GridTyped, Requests
<1>8. p \in Pages
  BY <1>1, <1>4, <1>7, PageTyped DEF RestTyped
<1>9. /\ h \in Requests /\ h.append = g.append /\ h.s = g.s /\ h.offset = g.offset
      /\ h.answer = {p}
  BY <1>5, <1>7, <1>8 DEF Requests
<1>10. GridTyped'
  BY <1>1, <1>3, <1>6, <1>9 DEF GridTyped, AtMostOne
<1>11. WarmTyped' /\ RestTyped'
  BY <1>1, <1>3 DEF WarmTyped, RestTyped, AtMostOne
<1>12. SpinnerIsHonest' /\ InForce' /\ Resumed' /\ NothingAsked'
  BY <1>1, <1>2, <1>3, <1>6 DEF SpinnerIsHonest, InForce, Resumed, NothingAsked
<1>13. Warm'
  BY <1>1, <1>3, FreshPagesStay DEF Warm
<1>14. Asked'
  <2>1. FreshAnswers'
    <3>1. \A s \in Snapshot, o \in Nat : s = h.s /\ o = h.offset => p = Page(s, o)
      BY <1>4, <1>9
    <3>2. \A s \in Snapshot, o \in Nat : s = h.s /\ o = h.offset => p = Page(s, o)'
      BY <1>3, <3>1, CatalogStays
    <3>. QED
      BY <1>6, <1>9, <3>2 DEF FreshAnswers
  <2>. QED
    BY <1>1, <1>3, <1>6, <1>9, <2>1 DEF Asked
<1>15. Listed'
  <2>1. \A k \in grid : k = g
    BY <1>1 DEF GridTyped, AtMostOne
  <2>2. (\A k \in grid' : k.append) => (\A k \in grid : k.append)
    BY <1>6, <1>9, <2>1
  <2>3. \A s \in Snapshot : Holds(s) => Holds(s)'
    BY <1>3, HoldsStays
  <2>. QED
    BY <1>1, <1>3, <2>2, <2>3 DEF Listed
<1>. QED
  BY <1>10, <1>11, <1>12, <1>13, <1>14, <1>15 DEF IInv, Typed

\* The request of the grid failed.
LEMMA GridFailsKeeps ==
  ASSUME IInv, GridFails
  PROVE  IInv'
<1>1. /\ GridTyped /\ WarmTyped /\ RestTyped /\ NothingAsked /\ SpinnerIsHonest
      /\ InForce /\ Warm /\ Asked /\ Resumed /\ Listed
  BY DEF IInv, Typed
<1>2. /\ Idle /\ grid # {} /\ mishaps' = mishaps + 1 /\ error' = TRUE
      /\ still' = (still /\ \A g \in grid : g.append)
      /\ loading' = FALSE /\ grid' = {} /\ Woken
      /\ UNCHANGED <<catalog, typed, results, resultsRef, misread, hasMore, pageRef,
                     buffers, cur, loops,
                     hasNew, newest, polls, mounted, searches>>
  BY DEF GridFails, Landed, warmVars, freshVars
<1>3. /\ restore' \subseteq Restores /\ AtMostOne(restore')
      /\ \A r \in restore' : r.ready /\ \E q \in restore : r.s = q.s
      /\ restore = {} => restore' = {}
  BY <1>1, <1>2, WokenKeeps DEF RestTyped
<1>4. GridTyped' /\ WarmTyped'
  BY <1>1, <1>2 DEF GridTyped, WarmTyped, AtMostOne
<1>5. RestTyped'
  <2>1. mishaps' \in Nat /\ still' \in BOOLEAN
    BY <1>1, <1>2 DEF RestTyped
  <2>. QED
    BY <1>1, <1>2, <1>3, <2>1 DEF RestTyped
<1>6. SpinnerIsHonest' /\ InForce' /\ NothingAsked'
  BY <1>1, <1>2 DEF SpinnerIsHonest, InForce, NothingAsked
<1>7. Warm'
  BY <1>1, <1>2, FreshPagesStay DEF Warm
<1>8. Asked'
  BY <1>2 DEF Asked, FreshAnswers
<1>9. Resumed'
  BY <1>1, <1>2, <1>3 DEF Resumed, Idle
<1>10. Listed'
  <2>1. \A s \in Snapshot : Holds(s) => Holds(s)'
    BY <1>2, HoldsStays
  <2>. QED
    BY <1>1, <1>2, <2>1 DEF Listed
<1>. QED
  BY <1>4, <1>5, <1>6, <1>7, <1>8, <1>9, <1>10 DEF IInv, Typed

\* The answer lands in the grid.
LEMMA DeliverKeeps ==
  ASSUME IInv, Deliver
  PROVE  IInv'
<1>1. /\ GridTyped /\ WarmTyped /\ RestTyped /\ NothingAsked /\ SpinnerIsHonest
      /\ InForce /\ Warm /\ Asked /\ Resumed /\ Listed
  BY DEF IInv, Typed
<1>2. PICK g \in grid, page \in UNION {r.answer : r \in grid} :
        IF g.append THEN LandAppend(g.s, page, buffers) ELSE LandFresh(g.s, page)
  BY DEF Deliver
<1>3. /\ Idle /\ loading' = FALSE /\ grid' = {} /\ Woken
      /\ UNCHANGED <<catalog, typed, error, hasNew, polls, mounted, resultsRef, searches,
                     mishaps, still>>
  BY DEF Deliver, Landed, boundVars
<1>4. g \in [append : BOOLEAN, s : Snapshot, offset : Nat, answer : SUBSET Pages]
  BY <1>1 DEF GridTyped, Requests
<1>5. PICK s \in Snapshot : s = g.s
  BY <1>4
<1>6. page \in g.answer /\ page \in Pages /\ \A k \in grid : k = g
  BY <1>1, <1>4, <1>2 DEF GridTyped, AtMostOne
<1>7. ~Blank(typed)
  BY <1>1, <1>2 DEF NothingAsked
<1>8. still => /\ s = typed /\ page = Page(s, g.offset)
               /\ g.offset = IF g.append THEN Offset(pageRef) ELSE 0
  BY <1>1, <1>4, <1>5, <1>6 DEF Asked, FreshAnswers
<1>9. catalog \subseteq Images /\ resultsRef \in Seq(Images)
  BY <1>1 DEF RestTyped
<1>10. /\ results' \in Listings(misread') /\ misread' \subseteq Images
       /\ hasMore' \in BOOLEAN /\ pageRef' \in Nat /\ pageRef' > 0
       /\ newest' \in Images \cup {None}
       /\ WarmTyped' /\ buffers'[cur'] = buffers[cur]
       /\ still /\ misread' = {} /\ mounted /\ Paginates(typed) => Holds(s)'
  <2>1. CASE g.append
    <3>1. PICK v : v = buffers[cur]
      OBVIOUS
    <3>2. PICK bs : bs = buffers
      OBVIOUS
    <3>3. IsBuffer(v) /\ bs = [buffers EXCEPT ![cur] = v]
      BY <1>1, <3>1, <3>2 DEF WarmTyped
    <3>4. LandAppend(s, page, bs)
      BY <1>2, <1>5, <2>1, <3>2
    <3>5. /\ results' \in Listings(misread') /\ misread' \subseteq Images
          /\ misread' = {} => misread = {}
          /\ hasMore' \in BOOLEAN /\ pageRef' \in Nat /\ pageRef' > 0
          /\ WarmTyped' /\ buffers'[cur'] = v /\ newest' = newest
          /\ (catalog' = catalog /\ misread' = {} /\ Paginates(s) /\ Holds(s)
                /\ \A i \in Nat : i = pageRef => page = Page(s, Offset(i))) => Holds(s)'
      BY <1>1, <1>6, <1>9, <3>3, <3>4, AppendKeeps
    <3>6. ASSUME still, misread' = {}, mounted, Paginates(typed) PROVE Holds(s)'
      <4>1. Holds(s) /\ Paginates(s)
        BY <1>1, <1>6, <1>7, <1>8, <2>1, <3>5, <3>6 DEF Listed
      <4>2. \A i \in Nat : i = pageRef => page = Page(s, Offset(i))
        BY <1>8, <2>1, <3>6
      <4>. QED
        BY <1>3, <3>5, <3>6, <4>1, <4>2
    <3>7. newest' \in Images \cup {None}
      BY <1>1, <3>5 DEF RestTyped
    <3>. QED
      BY <3>1, <3>5, <3>6, <3>7
  <2>2. CASE ~g.append
    <3>1. LandFresh(s, page)
      BY <1>2, <1>5, <2>2
    <3>2. /\ results' \in Listings(misread') /\ misread' = {}
          /\ hasMore' \in BOOLEAN /\ pageRef' \in Nat /\ pageRef' > 0
          /\ newest' \in Images \cup {None}
          /\ WarmTyped' /\ buffers'[cur'] = buffers[cur]
          /\ (catalog' = catalog /\ Paginates(s) /\ page = Page(s, 0)) => Holds(s)'
      BY <1>1, <1>6, <1>9, <3>1, FirstPageKeeps
    <3>. QED
      BY <1>3, <1>8, <2>2, <3>2
  <2>. QED
    BY <2>1, <2>2
<1>11. /\ restore' \subseteq Restores /\ AtMostOne(restore')
       /\ \A r \in restore' : r.ready /\ \E q \in restore : r.s = q.s
  BY <1>1, <1>3, WokenKeeps DEF RestTyped
<1>12. GridTyped'
  BY <1>1, <1>3, <1>10 DEF GridTyped, AtMostOne
<1>13. RestTyped'
  BY <1>1, <1>3, <1>10, <1>11 DEF RestTyped
<1>14. SpinnerIsHonest' /\ InForce' /\ NothingAsked'
  BY <1>1, <1>3, <1>7, <1>10 DEF SpinnerIsHonest, InForce, NothingAsked
<1>15. Warm'
  BY <1>1, <1>3, <1>10, FreshPagesStay DEF Warm
<1>16. Asked'
  BY <1>3 DEF Asked, FreshAnswers
<1>17. Resumed'
  BY <1>1, <1>3, <1>11 DEF Resumed, Idle
<1>18. Listed'
  BY <1>3, <1>8, <1>10 DEF Listed
<1>. QED
  BY <1>10, <1>12, <1>13, <1>14, <1>15, <1>16, <1>17, <1>18 DEF IInv, Typed

\* A loop goes on to its next page.
LEMMA WarmNextStepKeeps ==
  ASSUME IInv, NEW l \in loops, WarmNext(l)
  PROVE  IInv'
<1>1. WarmTyped /\ RestTyped /\ Warm
  BY DEF IInv, Typed
<1>2. UNCHANGED <<catalog, typed, gridVars, cur, hasNew, newest, polls, restore, mounted,
                  resultsRef, searches, mishaps, still>>
  BY DEF WarmNext, freshVars, boundVars
<1>3. /\ WarmTyped' /\ buffers'[cur'].sig = buffers[cur].sig
      /\ buffers'[cur'].pages = buffers[cur].pages
  BY <1>1, WarmNextKeeps
<1>4. RestTyped'
  BY <1>1, <1>2 DEF RestTyped, AtMostOne
<1>5. still' => FreshPages'
  BY <1>1, <1>2, <1>3, FreshPagesStay DEF Warm
<1>. QED
  BY <1>2, <1>3, <1>4, <1>5, OthersStay

\* A warmed page arrives, or is lost.
LEMMA WarmAnswerKeeps ==
  ASSUME IInv, NEW l \in loops, WarmAnswer(l)
  PROVE  IInv'
<1>1. WarmTyped /\ RestTyped /\ Warm
  BY DEF IInv, Typed
<1>2. /\ WarmArrives(l) \/ WarmLost(l)
      /\ mishaps' \in {mishaps, mishaps + 1}
      /\ UNCHANGED <<catalog, typed, gridVars, cur, hasNew, newest, polls, restore, mounted,
                     resultsRef, searches, still>>
  BY DEF WarmAnswer, freshVars
<1>3. catalog \subseteq Images
  BY <1>1 DEF RestTyped
<1>4. /\ WarmTyped' /\ buffers'[cur'].sig = buffers[cur].sig
      /\ \A i \in DOMAIN buffers'[cur'].pages :
           \/ /\ i \in DOMAIN buffers[cur].pages
              /\ buffers'[cur'].pages[i] = buffers[cur].pages[i]
           \/ buffers'[cur'].pages[i] = Page(buffers[cur].sig, Offset(i))
  <2>1. CASE WarmArrives(l)
    BY <1>1, <1>2, <1>3, <2>1, WarmArrivesKeeps
  <2>2. CASE WarmLost(l)
    BY <1>1, <1>2, <2>2, WarmLostKeeps
  <2>. QED
    BY <1>2, <2>1, <2>2
<1>5. RestTyped'
  <2>1. mishaps' \in Nat
    BY <1>1, <1>2 DEF RestTyped
  <2>. QED
    BY <1>1, <1>2, <2>1 DEF RestTyped, AtMostOne
<1>6. still' => FreshPages'
  BY <1>1, <1>2, <1>4, FreshPagesStay DEF Warm
<1>. QED
  BY <1>2, <1>4, <1>5, <1>6, OthersStay

\* The catalog changes, or a poll goes out or is answered by the server.
LEMMA AroundKeeps ==
  ASSUME IInv, PollSend \/ PollServe \/ UNCHANGED vars
  PROVE  IInv'
<1>1. WarmTyped /\ RestTyped /\ Warm
  BY DEF IInv, Typed
<1>2. /\ UNCHANGED <<catalog, typed, gridVars, buffers, cur, loops, hasNew, newest, restore,
                     mounted, resultsRef, searches, mishaps, still>>
      /\ polls' \subseteq Polls
  <2>1. CASE PollSend
    <3>1. <<>> \in Rows
      BY EmptySeq DEF Rows
    <3>. QED
      BY <2>1, <3>1 DEF PollSend, Polls, warmVars, boundVars
  <2>2. CASE PollServe
    <3>1. PICK n \in Nat : polls' = {[served |-> TRUE,
                                      rows |-> Slice(Ranked([typed EXCEPT !.sort = "newest"]),
                                          0, n)]}
      <4>1. (IF NewestFirst(typed) THEN PollWindow ELSE 1) \in Nat
        BY BrowseAssumption
      <4>. QED
        BY <2>2, <4>1 DEF PollServe
    <3>2. PICK s : s = [typed EXCEPT !.sort = "newest"]
      OBVIOUS
    <3>3. s \in Snapshot /\ catalog \subseteq Images
      BY <1>1, <3>2 DEF RestTyped, Snapshot
    <3>4. Ranked(s) \in Rows
      BY <3>3, RankedRows
    <3>5. Slice(Ranked(s), 0, n) \in Rows
      BY <3>4, SliceRows
    <3>6. PICK x \in Rows : polls' = {[served |-> TRUE, rows |-> x]}
      BY <3>1, <3>2, <3>5
    <3>7. polls' \subseteq Polls
      BY <3>6 DEF Polls
    <3>. QED
      BY <2>2, <3>7 DEF PollServe, warmVars, boundVars
  <2>3. CASE UNCHANGED vars
    BY <1>1, <2>3 DEF vars, RestTyped, warmVars, freshVars, boundVars
  <2>. QED
    BY <2>1, <2>2, <2>3
<1>3. WarmTyped' /\ RestTyped'
  BY <1>1, <1>2 DEF WarmTyped, RestTyped, AtMostOne
<1>4. still' => FreshPages'
  BY <1>1, <1>2, FreshPagesStay DEF Warm
<1>. QED
  BY <1>2, <1>3, <1>4, OthersStay

\* An image arrives, or goes.
LEMMA CatalogKeeps ==
  ASSUME IInv, Arrive \/ RemovedElsewhere
  PROVE  IInv'
<1>1. /\ GridTyped /\ WarmTyped /\ RestTyped /\ NothingAsked /\ SpinnerIsHonest
  BY DEF IInv, Typed
<1>2. /\ UNCHANGED <<typed, results, resultsRef, misread, hasMore, pageRef, loading,
                     error, grid, buffers, cur,
                     loops, hasNew, newest, polls, restore, mounted, searches>>
      /\ still' = FALSE
  BY DEF Arrive, RemovedElsewhere, gridVars, warmVars, freshVars, boundVars
<1>3. catalog' \subseteq Images /\ mishaps' \in Nat
  BY <1>1 DEF Arrive, RemovedElsewhere, RestTyped, boundVars
<1>4. GridTyped' /\ WarmTyped' /\ RestTyped'
  BY <1>1, <1>2, <1>3 DEF GridTyped, WarmTyped, RestTyped, AtMostOne
<1>5. SpinnerIsHonest' /\ NothingAsked'
  BY <1>1, <1>2 DEF SpinnerIsHonest, NothingAsked
<1>6. InForce' /\ Warm' /\ Asked' /\ Resumed' /\ Listed'
  BY <1>2 DEF InForce, Warm, Asked, Resumed, Listed
<1>. QED
  BY <1>4, <1>5, <1>6 DEF IInv, Typed

\* The poll: nothing new, a splice, or the banner.
LEMMA PollAnswerKeeps ==
  ASSUME IInv, PollAnswer
  PROVE  IInv'
<1>1. /\ GridTyped /\ WarmTyped /\ RestTyped /\ NothingAsked /\ SpinnerIsHonest
      /\ InForce /\ Warm /\ Asked /\ Resumed /\ Listed
  BY DEF IInv, Typed
<1>2. PICK p \in polls :
        /\ polls' = {}
        /\ IF p.rows = <<>> \/ newest \in {Head(p.rows), None}
           THEN /\ newest' = IF p.rows = <<>> THEN newest ELSE Head(p.rows)
                /\ UNCHANGED <<results, hasNew, warmVars>>
           ELSE \/ NewestFirst(typed) /\ Splice(p.rows)
                \/ hasNew' = TRUE /\ UNCHANGED <<results, newest, warmVars>>
  BY DEF PollAnswer
<1>3. /\ still' = (still /\ results' = results)
      /\ UNCHANGED <<catalog, typed, resultsRef, misread, hasMore, pageRef, loading, error,
                     grid, restore, mounted,
                     searches, mishaps>>
  BY DEF PollAnswer, boundVars
<1>4. PICK q \in Rows : q = p.rows
  BY <1>1 DEF RestTyped, Polls
<1>5. q # <<>> => Head(q) \in Images
  <2>1. q \in Seq(Images)
    BY RowsAre
  <2>. QED
    BY <2>1, HeadTailProperties
<1>6. /\ results' \in Listings(misread) /\ hasNew' \in BOOLEAN /\ newest' \in Images \cup {None}
      /\ WarmTyped' /\ buffers'[cur'].sig = buffers[cur].sig
      /\ \A i \in DOMAIN buffers'[cur'].pages :
           /\ i \in DOMAIN buffers[cur].pages
           /\ buffers'[cur'].pages[i] = buffers[cur].pages[i]
  <2>1. CASE q = <<>> \/ newest \in {Head(q), None}
    <3>1. /\ newest' = IF q = <<>> THEN newest ELSE Head(q)
          /\ UNCHANGED <<results, hasNew, buffers, cur, loops>>
      BY <1>2, <1>4, <2>1 DEF warmVars
    <3>. QED
      BY <1>1, <1>5, <3>1 DEF GridTyped, WarmTyped, RestTyped
  <2>2. CASE ~(q = <<>> \/ newest \in {Head(q), None}) /\ Splice(q)
    <3>1. /\ results' = Unlisted(q) \o results /\ newest' = Head(q) /\ hasNew' = FALSE
          /\ InvalidatePrefetchPages
      BY <2>2 DEF Splice
    <3>2. results' \in Listings(misread)
      <4>1. PICK M : M = misread
        OBVIOUS
      <4>2. results \in Listings(M)
        BY <1>1, <4>1 DEF GridTyped
      <4>. QED
        BY <3>1, <4>1, <4>2, UnlistedRows
    <3>3. /\ WarmTyped' /\ buffers'[cur'].sig = buffers[cur].sig
          /\ DOMAIN buffers'[cur'].pages = {}
      BY <1>1, <3>1, InvalidateKeeps
    <3>. QED
      BY <1>5, <2>2, <3>1, <3>2, <3>3
  <2>3. CASE hasNew' = TRUE /\ UNCHANGED <<results, newest, warmVars>>
    BY <1>1, <2>3 DEF GridTyped, WarmTyped, RestTyped, warmVars
  <2>. QED
    BY <1>2, <1>4, <2>1, <2>2, <2>3
<1>7. GridTyped'
  BY <1>1, <1>3, <1>6 DEF GridTyped, AtMostOne
<1>8. RestTyped'
  <2>1. polls' \subseteq Polls /\ still' \in BOOLEAN
    BY <1>2, <1>3
  <2>. QED
    BY <1>1, <1>3, <1>6, <2>1 DEF RestTyped, AtMostOne
<1>9. SpinnerIsHonest' /\ InForce' /\ NothingAsked' /\ Resumed'
  BY <1>1, <1>3, <1>6 DEF SpinnerIsHonest, InForce, NothingAsked, Resumed
<1>10. Warm'
  BY <1>1, <1>3, <1>6, FreshPagesStay DEF Warm
<1>11. Asked'
  BY <1>1, <1>3, AnswersStay DEF Asked
<1>12. Listed'
  <2>1. ASSUME still' PROVE \A s \in Snapshot : Holds(s) => Holds(s)'
    BY <1>3, <2>1, HoldsStays
  <2>. QED
    BY <1>1, <1>3, <2>1 DEF Listed
<1>. QED
  BY <1>6, <1>7, <1>8, <1>9, <1>10, <1>11, <1>12 DEF IInv, Typed

\* What the link fixed over the form is a search, and the form itself when the
\* link is what the form says.
LEMMA MergedSnapshots ==
  ASSUME typed \in Snapshot, NEW q \in Snapshot
  PROVE  Merged(q) \in Snapshot /\ (q = typed => Merged(q) = typed)
<1>1. /\ q \in [mode : {"browse", "similar", "image"}, text : BOOLEAN, filter : Filters,
                sort : {"newest", "oldest"}, ref : Images \cup {None}, file : BOOLEAN]
      /\ q.filter \in [link : LinkFilters, panel : PanelFilters]
      /\ typed.filter.panel \in PanelFilters /\ typed.sort \in {"newest", "oldest"}
  BY DEF Snapshot, Filters
<1>2. PICK f : f = [q.filter EXCEPT !.panel = typed.filter.panel]
  OBVIOUS
<1>3. PICK x : x = typed.sort
  OBVIOUS
<1>4. f \in Filters /\ (q = typed => f = q.filter)
  BY <1>1, <1>2 DEF Filters
<1>5. Merged(q) = [q EXCEPT !.filter = f, !.sort = x]
  BY <1>2, <1>3 DEF Merged
<1>6. [q EXCEPT !.filter = f, !.sort = x] \in Snapshot
  BY <1>1, <1>3, <1>4 DEF Snapshot
<1>7. q = typed => [q EXCEPT !.filter = f, !.sort = x] = q
  BY <1>1, <1>3, <1>4
<1>. QED
  BY <1>5, <1>6, <1>7

\* The loop that re-pages a link takes its next turn.
LEMMA RestoreNextKeeps ==
  ASSUME IInv, RestoreNext
  PROVE  IInv'
<1>1. /\ GridTyped /\ WarmTyped /\ RestTyped /\ NothingAsked /\ SpinnerIsHonest
      /\ InForce /\ Warm /\ Asked /\ Resumed /\ Listed
  BY DEF IInv, Typed
<1>2. PICK r \in restore :
        /\ r.ready
        /\ IF r.left = 0
           THEN /\ restore' = {}
                /\ UNCHANGED <<gridVars, warmVars, freshVars, still>>
           ELSE /\ FetchAppend(Merged(r.s))
                /\ restore' = {[r EXCEPT !.left = @ - 1, !.ready = (grid' = {})]}
                /\ still' = (still /\ grid = {})
                /\ UNCHANGED polls
  BY DEF RestoreNext
<1>3. UNCHANGED <<catalog, typed, mounted, resultsRef, searches, mishaps>>
  BY DEF RestoreNext, boundVars
<1>4. /\ r \in [left : Nat, s : Snapshot, ready : BOOLEAN] /\ catalog \subseteq Images
      /\ resultsRef \in Seq(Images) /\ typed \in Snapshot
  BY <1>1 DEF RestTyped, Restores
<1>5. \A q \in restore : q = r
  BY <1>1 DEF RestTyped, AtMostOne
<1>6. ~Blank(typed)
  BY <1>1, <1>2 DEF NothingAsked
<1>7. CASE r.left = 0
  <2>1. /\ restore' = {}
        /\ UNCHANGED <<results, misread, hasMore, pageRef, loading, error, grid, buffers,
                       cur, loops,
                       hasNew, newest, polls, still>>
    BY <1>2, <1>7 DEF gridVars, warmVars, freshVars
  <2>2. GridTyped' /\ WarmTyped' /\ RestTyped'
    BY <1>1, <1>3, <2>1 DEF GridTyped, WarmTyped, RestTyped, AtMostOne
  <2>3. SpinnerIsHonest' /\ InForce' /\ NothingAsked' /\ Resumed'
    BY <1>1, <1>3, <2>1 DEF SpinnerIsHonest, InForce, NothingAsked, Resumed
  <2>4. Warm'
    BY <1>1, <1>3, <2>1, FreshPagesStay DEF Warm
  <2>5. Asked'
    BY <1>1, <1>3, <2>1, AnswersStay DEF Asked
  <2>6. Listed'
    BY <1>1, <1>3, <2>1, HoldsStays DEF Listed
  <2>. QED
    BY <2>2, <2>3, <2>4, <2>5, <2>6 DEF IInv, Typed
<1>8. CASE r.left # 0
  <2>1. PICK s \in Snapshot : s = Merged(r.s) /\ (r.s = typed => s = typed)
    BY <1>4, MergedSnapshots
  <2>2. /\ FetchAppend(s) /\ still' = (still /\ grid = {}) /\ polls' = polls
    BY <1>2, <1>8, <2>1
  <2>3. PICK n \in Nat : n = r.left - 1
    BY <1>4, <1>8
  <2>4. PICK b \in BOOLEAN : b = (grid' = {})
    OBVIOUS
  <2>5. PICK w : w = [r EXCEPT !.left = n, !.ready = b]
    OBVIOUS
  <2>6. restore' = {w}
    BY <1>2, <1>8, <2>3, <2>4, <2>5
  <2>7. w \in Restores /\ w.s = r.s
    BY <1>4, <2>1, <2>5 DEF Restores
  <2>8. /\ GridTyped' /\ WarmTyped' /\ hasNew' = hasNew /\ newest' = newest
        /\ loading' <=> grid' # {}
        /\ misread' = {} => misread = {}
        /\ pageRef > 0 => pageRef' > 0
        /\ \A g \in grid' : /\ g.append /\ g.s = s /\ g.offset = Offset(pageRef')
                            /\ g.answer = {}
        /\ buffers'[cur'].sig = buffers[cur].sig
        /\ FreshPages => FreshPages'
        /\ (misread' = {} /\ FreshPages /\ Paginates(s) /\ Holds(s)) => Holds(s)'
    BY <1>1, <1>3, <1>4, <2>2, FetchAppendKeeps
  <2>9. still' => still /\ s = typed /\ r.s = typed /\ grid = {}
    BY <1>1, <2>1, <2>2 DEF Resumed
  <2>10. RestTyped'
    BY <1>1, <1>3, <2>2, <2>6, <2>7, <2>8 DEF RestTyped, AtMostOne
  <2>11. SpinnerIsHonest' /\ NothingAsked'
    BY <1>3, <1>6, <2>8 DEF SpinnerIsHonest, NothingAsked
  <2>12. InForce' /\ Warm'
    BY <1>1, <1>3, <2>8, <2>9 DEF InForce, Warm
  <2>13. Asked'
    BY <1>3, <2>8, <2>9 DEF Asked, FreshAnswers
  <2>14. Resumed'
    BY <1>3, <2>6, <2>7, <2>9 DEF Resumed
  <2>15. Listed'
    <3>1. SUFFICES ASSUME still', misread' = {}, mounted, Paginates(s)
                   PROVE  pageRef' > 0 /\ Holds(s)'
      BY <1>3, <2>9 DEF Listed
    <3>2. pageRef > 0 /\ Holds(s)
      BY <1>1, <1>6, <2>8, <2>9, <3>1 DEF Listed
    <3>. QED
      BY <1>1, <2>8, <2>9, <3>1, <3>2 DEF Warm
  <2>. QED
    BY <2>8, <2>10, <2>11, <2>12, <2>13, <2>14, <2>15 DEF IInv, Typed
<1>. QED
  BY <1>7, <1>8

\* The mirror takes the rows of the list.
LEMMA MirrorKeeps ==
  ASSUME IInv, Mirror
  PROVE  IInv'
<1>1. GridTyped /\ WarmTyped /\ RestTyped /\ Warm
  BY DEF IInv, Typed
<1>2. /\ resultsRef' = results
      /\ UNCHANGED <<catalog, typed, gridVars, buffers, cur, loops, hasNew, newest, polls,
                     restore, mounted, searches, mishaps, still>>
  BY DEF Mirror, warmVars, freshVars, boundVars
<1>3. results \in Seq(Images)
  BY <1>1 DEF GridTyped, Listings
<1>4. WarmTyped' /\ RestTyped'
  BY <1>1, <1>2, <1>3 DEF WarmTyped, RestTyped, AtMostOne
<1>5. still' => FreshPages'
  BY <1>1, <1>2, FreshPagesStay DEF Warm
<1>. QED
  BY <1>2, <1>4, <1>5, OthersStay

\* The page starts.
LEMMA InitKeeps == Init => IInv
<1>1. SUFFICES ASSUME Init PROVE IInv
  OBVIOUS
<1>2. PICK s \in Links, pages \in 1..MAX_RESTORE_PAGES : Link(s, pages)
  BY <1>1 DEF Init
<1>3. s \in Snapshot /\ ~s.file
  BY BrowseAssumption
<1>4. /\ catalog = 1..FirstImages /\ hasNew = FALSE /\ newest = None /\ polls = {}
      /\ mounted = TRUE /\ still = TRUE /\ searches = 0 /\ mishaps = 0
  BY <1>1 DEF Init
<1>5. /\ typed = s /\ results = <<>> /\ resultsRef = <<>> /\ misread = {}
      /\ hasMore = FALSE /\ error = FALSE /\ pageRef = 0
      /\ buffers = [b \in {1} |-> EmptyBuffer(s)] /\ cur = 1 /\ loops = {}
  BY <1>2 DEF Link
<1>6. WarmTyped
  BY <1>3, <1>5, EmptyBuffers DEF WarmTyped
<1>7. buffers[cur].sig = s /\ DOMAIN buffers[cur].pages = {}
  BY <1>3, <1>5, EmptyBuffers
<1>8. InForce /\ Warm
  BY <1>5, <1>7 DEF InForce, Warm, FreshPages
<1>9. <<>> \in Listings({}) /\ <<>> \in Seq(Images)
  BY EmptySeq DEF Listings
<1>10. catalog \subseteq Images
  BY <1>4, BrowseAssumption DEF Images
<1>11. CASE s.mode = "image"
  <2>1. loading = FALSE /\ grid = {} /\ restore = {} /\ Blank(s)
    BY <1>2, <1>3, <1>11 DEF Link, Blank
  <2>2. GridTyped /\ RestTyped
    BY <1>3, <1>4, <1>5, <1>9, <1>10, <2>1 DEF GridTyped, RestTyped, AtMostOne
  <2>3. SpinnerIsHonest /\ Asked /\ Resumed /\ NothingAsked /\ Listed
    BY <1>5, <2>1 DEF SpinnerIsHonest, Asked, FreshAnswers, Resumed, NothingAsked, Listed
  <2>. QED
    BY <1>6, <1>8, <2>2, <2>3 DEF IInv, Typed
<1>12. CASE s.mode # "image"
  <2>1. PICK g : g = Request(FALSE, s, 0)
    OBVIOUS
  <2>2. PICK r : r = [left |-> pages - 1, s |-> s, ready |-> FALSE]
    OBVIOUS
  <2>3. loading = TRUE /\ grid = {g} /\ restore = {r} /\ ~Blank(s)
    BY <1>2, <1>12, <2>1, <2>2 DEF Link, Blank
  <2>4. g \in Requests /\ ~g.append /\ g.s = s /\ g.offset = 0 /\ g.answer = {}
    BY <1>3, <2>1 DEF Request, Requests
  <2>5. r \in Restores /\ r.s = s
    <3>1. pages - 1 \in Nat
      BY BrowseAssumption
    <3>. QED
      BY <1>3, <2>2, <3>1 DEF Restores
  <2>6. GridTyped /\ RestTyped
    BY <1>3, <1>4, <1>5, <1>9, <1>10, <2>3, <2>4, <2>5 DEF GridTyped, RestTyped, AtMostOne
  <2>7. SpinnerIsHonest /\ NothingAsked /\ Listed /\ Resumed
    BY <1>5, <2>3, <2>4, <2>5 DEF SpinnerIsHonest, NothingAsked, Listed, Resumed
  <2>8. Asked
    BY <1>5, <2>3, <2>4 DEF Asked, FreshAnswers
  <2>. QED
    BY <1>6, <1>8, <2>6, <2>7, <2>8 DEF IInv, Typed
<1>. QED
  BY <1>11, <1>12

\* Every step of the page keeps the invariant.
LEMMA NextKeeps == IInv /\ [Next]_vars => IInv'
<1>1. SUFFICES ASSUME IInv, [Next]_vars PROVE IInv'
  OBVIOUS
<1>2. CASE User
  BY <1>1, <1>2, SearchesKeep, LoadMoreKeeps, UnmountStepKeeps DEF User
<1>3. CASE Network
  BY <1>1, <1>3, ServeKeeps, DeliverKeeps, GridFailsKeeps, WarmAnswerKeeps, AroundKeeps,
     PollAnswerKeeps, CatalogKeeps DEF Network
<1>4. CASE Code
  BY <1>1, <1>4, RestoreNextKeeps, WarmNextStepKeeps DEF Code
<1>5. CASE Mirror
  BY <1>1, <1>5, MirrorKeeps
<1>6. CASE UNCHANGED vars
  BY <1>1, <1>6, AroundKeeps
<1>. QED
  BY <1>1, <1>2, <1>3, <1>4, <1>5, <1>6 DEF Next

\* IInv holds in every state the page can reach: doFetch, schedulePrefetch, the
\* poll and the restore of a link keep it in whatever order they run.
THEOREM InvariantHolds == Spec => []IInv
<1>. QED
  BY InitKeeps, NextKeeps, PTL DEF Spec

\* An image is in the grid twice only if doFetch appended a page while the mirror
\* it compares with was wrong about that image, whatever arrives or goes between
\* the pages that doFetch appends and the poll splices in.
THEOREM NothingIsListedTwice == Spec => []NoDuplicateRows
<1>1. IInv => NoDuplicateRows
  BY DEF IInv, Typed, GridTyped, Listings, NoDuplicateRows
<1>. QED
  BY <1>1, InvariantHolds, PTL

\* A page of the live prefetch buffer holds what the server would answer now,
\* unless the offsets have shifted since the search.
THEOREM WarmPagesStayCurrent == Spec => []WarmPagesAreCurrent
<1>1. IInv => WarmPagesAreCurrent
  <2>1. SUFFICES ASSUME IInv, still, NEW i \in DOMAIN buffers[cur].pages
                 PROVE  buffers[cur].pages[i] = Page(buffers[cur].sig, Offset(i))
    BY DEF WarmPagesAreCurrent
  <2>2. buffers[cur].sig \in Snapshot /\ i \in Nat
    BY <2>1 DEF IInv, Typed, WarmTyped, IsBuffer
  <2>3. FreshPages
    BY <2>1 DEF IInv, Warm
  <2>. QED
    BY <2>1, <2>2, <2>3 DEF FreshPages
<1>. QED
  BY <1>1, InvariantHolds, PTL

\* The spinner is on exactly while a request of the grid is in flight; and when
\* nothing has shifted the offsets and no page was appended under a mirror that
\* was behind, a grid that says there is no more holds every
\* image that matches, the pages taken from the prefetch buffer included.
THEOREM ListIsWhatItSays == Spec => []ListIsAsItSays
<1>1. IInv => ListIsAsItSays
  <2>1. SUFFICES ASSUME IInv PROVE ListIsAsItSays
    OBVIOUS
  <2>2. SpinnerIsHonest /\ Listed /\ NothingAsked /\ typed \in Snapshot /\ pageRef \in Nat
    BY <2>1 DEF IInv, Typed, GridTyped, RestTyped
  <2>3. EndOfListIsComplete
    <3>1. SUFFICES ASSUME still, misread = {}, mounted, ~loading, ~hasMore, pageRef > 0,
                          Paginates(typed)
                   PROVE  Seqs!ToSet(results) = All(typed)
      BY DEF EndOfListIsComplete, All
    <3>2. grid = {} /\ ~Blank(typed)
      BY <2>2, <3>1 DEF SpinnerIsHonest, NothingAsked
    <3>3. PICK s \in Snapshot : s = typed
      BY <2>2
    <3>4. Holds(s)
      BY <2>2, <3>1, <3>2, <3>3 DEF Listed
    <3>. QED
      BY <2>2, <3>1, <3>3, <3>4 DEF Holds
  <2>. QED
    BY <2>2, <2>3 DEF ListIsAsItSays
<1>. QED
  BY <1>1, InvariantHolds, PTL

=============================================================================
