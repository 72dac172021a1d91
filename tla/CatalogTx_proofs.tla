-------------------------- MODULE CatalogTx_proofs --------------------------
(***************************************************************************)
(* Proofs about CatalogTx for any transactions, calls, images, references  *)
(* and tags, and any number of attempts.                                   *)
(***************************************************************************)
EXTENDS CatalogTx, SequenceTheorems, FiniteSetTheorems, WellFoundedInduction, TLAPS

-----------------------------------------------------------------------------
(* The types of keys, rows and statements.                                 *)

Writer == Txs \cup {Seed}

ParentKey ==
    ({"images"} \X Images \X {None}) \cup ({"tags"} \X Nat \X {None})
        \cup ({"image_references"} \X Images \X References) \cup {NoteKey, CollectionKey}
Parent == [key : ParentKey, by : Writer] \cup {NoRow}

\* The keys of the children of the rows P.
ChildKeyOf(P) ==
    ({"image_tags"} \X P \X Nat)
        \cup ({"note_image_refs", "collection_images"} \X P \X Images)
        \cup ({"generation_params", "image_descriptions"} \X P \X {None})
ChildKey == ChildKeyOf(Parent)
Key == ParentKey \cup ChildKey
DbRow == [key : Key, by : Writer]

\* A key as a program writes it.
WrittenKey == ParentKey \cup ChildKeyOf({This})

OnceEach == {"put", "insert", "append"}     \* the statements that insert one key
Rowwise == {"update", "delete", "cascade"}  \* that work through rows,
Keywise == {"ensure", "link"}               \* and that work through keys
Kinds == OnceEach \cup Rowwise \cup Keywise \cup {"select", "fkey"}

\* What the WHERE clauses name: a table and an owner.
Tables == ChildTables \cup {"images", "tags", "image_references", "notes", "collections"}
Where == Tables \X (Images \cup {Note, Collection, This})
Rooted == {"images", "notes", "collections"} \X (Images \cup {Note, Collection})

\* A statement of a program.
WellFormed(s) ==
    /\ s.does \in OnceEach => \E k \in WrittenKey : s.on = <<k>>
    /\ s.does \in {"put", "insert"} => s.on # <<DescriptionKey>>
    /\ s.does = "append" => s.on = <<DescriptionKey>>
    /\ s.does = "ensure" =>
          /\ s.on \in Seq({"tags"} \X Nat \X {None})
          /\ s.on # <<>>
          /\ \A i, j \in DOMAIN s.on : i < j => s.on[i][2] < s.on[j][2]
    /\ s.does = "link" => s.on \in SUBSET Nat /\ IsFiniteSet(s.on)
    /\ s.does = "fkey" => s.on = <<This>>
    /\ s.does = "delete" => s.on \in SUBSET Where
    /\ s.does \in {"select", "update"} => s.on \in SUBSET Rooted

Lists ==
    Seq(WrittenKey) \cup {<<This>>} \cup (SUBSET Nat) \cup (SUBSET Where) \cup (SUBSET Rooted)

StatementSet == {s \in [does : Kinds, on : Lists, must : BOOLEAN] : WellFormed(s)}

-----------------------------------------------------------------------------
(* Numbers, sequences and finite sets.                                     *)

\* A set of numbers that is not empty has a least one.
LEMMA NatMin ==
  ASSUME NEW T, T \subseteq Nat, T # {}
  PROVE  \E x \in T : \A y \in T : x <= y
<1>1. IsWellFoundedOn(OpToRel(<, Nat), Nat)
  BY NatLessThanWellFounded
<1>2. \E x \in T : \A y \in T : ~ (<<y, x>> \in OpToRel(<, Nat))
  BY <1>1, WFMin
<1>3. ASSUME NEW x \in T, NEW y \in T, ~ (<<y, x>> \in OpToRel(<, Nat))
      PROVE  x <= y
  <2>1. <<y, x>> \in Nat \X Nat
    OBVIOUS
  <2>. QED
    BY <1>3, <2>1 DEF OpToRel
<1>. QED
  BY <1>2, <1>3

\* The elements of a sequence are finitely many.
LEMMA FiniteToSet ==
  ASSUME NEW S, NEW s \in Seq(S)
  PROVE  IsFiniteSet(Seqs!ToSet(s)) /\ Seqs!ToSet(s) \subseteq S
<1>1. Len(s) \in Nat /\ DOMAIN s = 1..Len(s) /\ s \in [1..Len(s) -> S]
  BY LenProperties
<1>2. s \in Surjection(1..Len(s), Seqs!ToSet(s))
  BY <1>1 DEF Surjection, Seqs!ToSet
<1>3. ExistsSurjection(1..Len(s), Seqs!ToSet(s))
  BY <1>2 DEF ExistsSurjection
<1>4. IsFiniteSet(Seqs!ToSet(s))
  BY <1>1, <1>3, FS_NatSurjection
<1>. QED
  BY <1>1, <1>4 DEF Seqs!ToSet

\* SetToSeqs: every one of the sequences has all elements of the set.
LEMMA SetToSeqsFacts ==
  ASSUME NEW S, IsFiniteSet(S), NEW q \in Seqs!SetToSeqs(S)
  PROVE  /\ q \in Seq(S)
         /\ Seqs!ToSet(q) = S
         /\ S # {} => q # <<>>
<1>. DEFINE n == Cardinality(S)
<1>1. n \in Nat
  BY FS_CardinalityType
<1>2. q \in [1..n -> S] /\ \A i, j \in 1..n : i # j => q[i] # q[j]
  BY DEF Seqs!SetToSeqs, Seqs!Cardinality, Cardinality
<1>3. q \in Injection(1..n, S)
  BY <1>2 DEF Injection, IsInjective
<1>4. IsFiniteSet(1..n) /\ Cardinality(1..n) = n
  BY <1>1, FS_Interval
<1>5. q \in Surjection(1..n, S)
  BY <1>3, <1>4, FS_Injection
<1>6. Seqs!ToSet(q) = S
  BY <1>2, <1>5 DEF Surjection, Seqs!ToSet
<1>7. q \in Seq(S) /\ Len(q) = n
  BY <1>1, <1>2
<1>8. S # {} => q # <<>>
  BY <1>6, <1>7 DEF Seqs!ToSet
<1>. QED
  BY <1>6, <1>7, <1>8

\* What is left of a list when its first element is taken off.
LEMMA TailFacts ==
  ASSUME NEW S, NEW q \in Seq(S), q # <<>>
  PROVE  /\ Len(q) \in Nat \ {0}
         /\ Head(q) = q[1] /\ Head(q) \in Seqs!ToSet(q) /\ Head(q) \in S
         /\ Len(q) = 1 => Seqs!ToSet(q) = {Head(q)}
         /\ Len(q) # 1 =>
               /\ Tail(q) \in Seq(S) /\ Tail(q) # <<>>
               /\ Len(Tail(q)) = Len(q) - 1
               /\ DOMAIN Tail(q) = 1..(Len(q) - 1)
               /\ \A i \in 1..(Len(q) - 1) : Tail(q)[i] = q[i + 1]
               /\ Seqs!ToSet(q) = {Head(q)} \cup Seqs!ToSet(Tail(q))
<1>1. Len(q) \in Nat \ {0} /\ DOMAIN q = 1..Len(q)
  BY EmptySeq, LenProperties
<1>2. Head(q) = q[1] /\ q[1] \in S /\ q[1] \in Seqs!ToSet(q)
  BY <1>1, ElementOfSeq DEF Seqs!ToSet
<1>3. Len(q) = 1 => Seqs!ToSet(q) = {Head(q)}
  BY <1>1, <1>2 DEF Seqs!ToSet
<1>4. /\ Tail(q) \in Seq(S) /\ Len(Tail(q)) = Len(q) - 1
      /\ DOMAIN Tail(q) = 1..(Len(q) - 1)
      /\ \A i \in 1..(Len(q) - 1) : Tail(q)[i] = q[i + 1]
  BY <1>1, HeadTailProperties, LenProperties
<1>5. ASSUME Len(q) # 1 PROVE Tail(q) # <<>>
  BY <1>1, <1>4, <1>5
<1>6. ASSUME Len(q) # 1 PROVE Seqs!ToSet(q) = {Head(q)} \cup Seqs!ToSet(Tail(q))
  <2>1. ASSUME NEW x \in Seqs!ToSet(q) PROVE x = Head(q) \/ x \in Seqs!ToSet(Tail(q))
    <3>1. PICK i \in 1..Len(q) : x = q[i]
      BY <1>1, <2>1 DEF Seqs!ToSet
    <3>2. CASE i = 1
      BY <3>1, <3>2, <1>2
    <3>3. CASE i # 1
      <4>1. i - 1 \in 1..(Len(q) - 1) /\ Tail(q)[i - 1] = q[i]
        BY <1>1, <1>4, <3>3
      <4>. QED
        BY <4>1, <3>1, <1>4 DEF Seqs!ToSet
    <3>. QED
      BY <3>2, <3>3
  <2>2. ASSUME NEW x \in Seqs!ToSet(Tail(q)) PROVE x \in Seqs!ToSet(q)
    <3>1. PICK i \in 1..(Len(q) - 1) : x = q[i + 1]
      BY <1>4, <2>2 DEF Seqs!ToSet
    <3>2. i + 1 \in DOMAIN q
      BY <1>1, <3>1
    <3>. QED
      BY <3>1, <3>2 DEF Seqs!ToSet
  <2>. QED
    BY <1>2, <2>1, <2>2
<1>. QED
  BY <1>1, <1>2, <1>3, <1>4, <1>5, <1>6

\* Sorted: the tags of a request, each once and in increasing order.
LEMMA SortedTags ==
  ASSUME NEW tags \in Seq(Nat)
  PROVE  /\ Sorted(tags) \in Seq(Nat)
         /\ Seqs!ToSet(Sorted(tags)) = Seqs!ToSet(tags)
         /\ \A i, j \in DOMAIN Sorted(tags) : i < j => Sorted(tags)[i] < Sorted(tags)[j]
         /\ tags # <<>> => Sorted(tags) # <<>>
<1>. DEFINE G == Seqs!ToSet(tags)
            n == Cardinality(G)
            Upto(g) == {h \in G : h <= g}
            rank == [g \in G |-> Cardinality(Upto(g))]
<1>1. IsFiniteSet(G) /\ G \subseteq Nat /\ n \in Nat
  BY FiniteToSet, FS_CardinalityType
<1>2. ASSUME NEW g \in G, NEW h \in G, g < h
      PROVE  rank[g] < rank[h]
  <2>1. Upto(g) \in SUBSET Upto(h) /\ h \in Upto(h) /\ h \notin Upto(g)
    BY <1>1, <1>2
  <2>2. IsFiniteSet(Upto(g)) /\ IsFiniteSet(Upto(h))
    BY <1>1, FS_Subset
  <2>3. /\ Cardinality(Upto(g)) <= Cardinality(Upto(h))
        /\ Cardinality(Upto(g)) # Cardinality(Upto(h))
    <3>. HIDE DEF Upto
    <3>. QED
      BY <2>1, <2>2, FS_Subset
  <2>4. Cardinality(Upto(g)) \in Nat /\ Cardinality(Upto(h)) \in Nat
    BY <2>2, FS_CardinalityType
  <2>. QED
    BY <2>3, <2>4
<1>3. ASSUME NEW g \in G PROVE rank[g] \in 1..n
  <2>1. Upto(g) \in SUBSET G /\ g \in Upto(g)
    BY <1>1
  <2>2. IsFiniteSet(Upto(g)) /\ Cardinality(Upto(g)) <= n
    <3>. HIDE DEF Upto, G
    <3>. QED
      BY <1>1, <2>1, FS_Subset
  <2>3. Cardinality(Upto(g)) \in Nat /\ Cardinality(Upto(g)) # 0
    <3>. HIDE DEF Upto, G
    <3>. QED
      BY <2>1, <2>2, FS_CardinalityType, FS_EmptySet
  <2>. QED
    BY <1>1, <2>2, <2>3
<1>4. rank \in Injection(G, 1..n)
  <2>1. rank \in [G -> 1..n]
    BY <1>3
  <2>2. ASSUME NEW g \in G, NEW h \in G, rank[g] = rank[h] PROVE g = h
    <3>1. rank[g] \in Nat /\ rank[h] \in Nat /\ g \in Nat /\ h \in Nat
      BY <1>1, <1>3
    <3>2. ~ (g < h) /\ ~ (h < g)
      <4>. HIDE DEF rank, G
      <4>. QED
        BY <1>2, <2>2, <3>1
    <3>. QED
      BY <3>1, <3>2
  <2>3. IsInjective(rank)
    <3>1. DOMAIN rank = G
      OBVIOUS
    <3>. HIDE DEF rank
    <3>. QED
      BY <2>2, <3>1 DEF IsInjective
  <2>. HIDE DEF rank
  <2>. QED
    BY <2>1, <2>3 DEF Injection
<1>5. \A i \in 1..n : \E g \in G : rank[g] = i
  <2>1. IsFiniteSet(1..n) /\ Cardinality(1..n) = n
    BY <1>1, FS_Interval
  <2>. HIDE DEF rank, G
  <2>2. rank \in Surjection(G, 1..n)
    BY <1>1, <1>4, <2>1, FS_Injection
  <2>. QED
    BY <2>2 DEF Surjection
<1>. DEFINE s == Sorted(tags)
            ranked(i) == CHOOSE g \in G : Cardinality({h \in G : h <= g}) = i
<1>6. s \in [1..n -> G] /\ DOMAIN s = 1..n /\ \A i \in 1..n : s[i] \in G /\ rank[s[i]] = i
  <2>1. s = [i \in 1..n |-> ranked(i)]
    BY DEF Sorted
  <2>2. ASSUME NEW i \in 1..n PROVE ranked(i) \in G /\ rank[ranked(i)] = i
    <3>1. \E g \in G : Cardinality({h \in G : h <= g}) = i
      BY <1>5
    <3>. QED
      BY <3>1
  <2>. HIDE DEF ranked, rank, G, s
  <2>. QED
    BY <1>1, <2>1, <2>2
<1>. HIDE DEF rank, s, G
<1>7. s \in [1..n -> Nat]
  BY <1>1, <1>6
<1>8. s \in Seq(Nat)
  BY <1>1, <1>7
<1>9. ASSUME NEW i \in 1..n, NEW j \in 1..n, i < j PROVE s[i] < s[j]
  <2>1. s[i] \in G /\ s[j] \in G /\ s[i] \in Nat /\ s[j] \in Nat /\ rank[s[i]] = i /\ rank[s[j]] = j
    BY <1>1, <1>6
  <2>2. CASE s[j] < s[i]
    BY <1>1, <1>2, <1>9, <2>1, <2>2
  <2>3. CASE s[j] = s[i]
    BY <1>1, <1>9, <2>1, <2>3
  <2>. QED
    BY <2>1, <2>2, <2>3
<1>10. Seqs!ToSet(s) = G
  <2>1. Seqs!ToSet(s) \subseteq G
    BY <1>6 DEF Seqs!ToSet
  <2>2. ASSUME NEW g \in G PROVE g \in Seqs!ToSet(s)
    <3>1. rank[g] \in 1..n
      BY <1>4 DEF Injection
    <3>2. s[rank[g]] \in G /\ rank[s[rank[g]]] = rank[g]
      BY <1>6, <3>1
    <3>3. s[rank[g]] = g
      BY <1>4, <3>2 DEF Injection, IsInjective
    <3>. QED
      BY <1>6, <3>1, <3>3 DEF Seqs!ToSet
  <2>. QED
    BY <2>1, <2>2
<1>11. ASSUME tags # <<>> PROVE s # <<>>
  <2>1. tags[1] \in G
    BY <1>11, LenProperties, EmptySeq DEF G, Seqs!ToSet
  <2>2. \E i \in DOMAIN s : s[i] = tags[1]
    BY <1>10, <2>1 DEF Seqs!ToSet
  <2>. QED
    BY <2>2, <1>8, LenProperties
<1>. QED
  BY <1>6, <1>8, <1>9, <1>10, <1>11 DEF s, G

\* Where the elements of a concatenation of two sequences are.
LEMMA Concat2 ==
  ASSUME NEW S, NEW a \in Seq(S), NEW b \in Seq(S), NEW p, p = a \o b
  PROVE  /\ p \in Seq(S)
         /\ Len(p) = Len(a) + Len(b)
         /\ \A i \in 1..(Len(a) + Len(b)) :
               p[i] = IF i <= Len(a) THEN a[i] ELSE b[i - Len(a)]
BY ConcatProperties

\* And of three.
LEMMA Concat3 ==
  ASSUME NEW S, NEW a \in Seq(S), NEW b \in Seq(S), NEW c \in Seq(S), NEW p, p = a \o b \o c
  PROVE  /\ p \in Seq(S)
         /\ Len(p) = Len(a) + Len(b) + Len(c)
         /\ \A i \in 1..Len(a) : p[i] = a[i]
         /\ \A i \in 1..Len(b) : p[Len(a) + i] = b[i]
         /\ \A i \in 1..Len(c) : p[Len(a) + Len(b) + i] = c[i]
<1>1. Len(a) \in Nat /\ Len(b) \in Nat /\ Len(c) \in Nat
  BY LenProperties
<1>2. PICK ab \in Seq(S) : ab = a \o b
  BY ConcatProperties
<1>3. /\ Len(ab) = Len(a) + Len(b)
      /\ \A i \in 1..(Len(a) + Len(b)) :
            ab[i] = IF i <= Len(a) THEN a[i] ELSE b[i - Len(a)]
  BY <1>2, Concat2
<1>4. /\ p \in Seq(S) /\ Len(p) = Len(ab) + Len(c)
      /\ \A i \in 1..(Len(ab) + Len(c)) :
            p[i] = IF i <= Len(ab) THEN ab[i] ELSE c[i - Len(ab)]
  <2>1. p = ab \o c
    BY <1>2
  <2>. QED
    BY <2>1, Concat2
<1>5. Len(p) = Len(a) + Len(b) + Len(c)
  BY <1>3, <1>4
<1>6. \A i \in 1..Len(a) : p[i] = a[i]
  BY <1>1, <1>3, <1>4
<1>7. \A i \in 1..Len(b) : p[Len(a) + i] = b[i]
  BY <1>1, <1>3, <1>4
<1>8. \A i \in 1..Len(c) : p[Len(a) + Len(b) + i] = c[i]
  BY <1>1, <1>3, <1>4
<1>. QED
  BY <1>4, <1>5, <1>6, <1>7, <1>8

-----------------------------------------------------------------------------
(* The statements of the programs, and where they are.                     *)

Selecting(k) == Doing("select", {<<k[1], k[2]>>}, TRUE)
Deleting(k) == Doing("delete", {<<k[1], k[2]>>}, FALSE)
Ensuring(tags) ==
    Doing("ensure", [i \in DOMAIN Sorted(tags) |-> TagKey(Sorted(tags)[i])], FALSE)
Linking(tags) == Doing("link", Seqs!ToSet(tags), FALSE)

\* What the fields of a call are, by its name.
LEMMA RequestFacts ==
  ASSUME NEW r \in Requests
  PROVE  /\ Program(r) = Programs[r]
         /\ r.call \in {"upsert_image", "patch_image", "delete_images", "update_note",
                        "set_collection_images", "delete_collection"}
         /\ r.call = "upsert_image" =>
               /\ r.image \in Images /\ r.tags \in Seq(Nat) /\ r.refs \in Seq(References)
               /\ r.params \in BOOLEAN /\ r.description \in BOOLEAN
         /\ r.call = "patch_image" =>
               r.image \in Images /\ r.tags \in Seq(Nat) /\ r.scalars \in BOOLEAN
         /\ r.call = "delete_images" => r.images \in SUBSET Images
         /\ r.call \in {"update_note", "set_collection_images"} => r.images \in Seq(Images)
<1>1. r \in Request
  BY RequestsAssumption
<1>2. Program(r) = Programs[r]
  BY DEF Programs
<1>. QED
  BY <1>1, <1>2 DEF Request

\* The statements that are written with the key of one row.
LEMMA StatementFacts ==
  /\ \A k \in WrittenKey : k # DescriptionKey => Putting(k) \in StatementSet
  /\ \A i \in Images : Inserting(NoteRefKey(i)) \in StatementSet
                       /\ Inserting(MemberKey(i)) \in StatementSet
  /\ Doing("append", <<DescriptionKey>>, FALSE) \in StatementSet
  /\ CheckingParent \in StatementSet
  /\ Doing("cascade", {}, FALSE) \in StatementSet
  /\ \A tags \in Seq(Nat) : tags # <<>> => Ensuring(tags) \in StatementSet
  /\ \A tags \in Seq(Nat) : Linking(tags) \in StatementSet
  /\ \A on \in SUBSET Where : Doing("delete", on, FALSE) \in StatementSet
  /\ \A does \in {"select", "update"}, must \in BOOLEAN :
        \A on \in SUBSET Rooted :
            Doing(does, on, must) \in StatementSet
<1>1. ASSUME NEW k \in WrittenKey, k # DescriptionKey PROVE Putting(k) \in StatementSet
  <2>1. <<k>> \in Seq(WrittenKey) /\ <<k>> # <<DescriptionKey>>
    BY <1>1
  <2>. QED
    BY <2>1 DEF StatementSet, Lists, Putting, Doing, WellFormed, Kinds, OnceEach, Rowwise, Keywise
<1>2. ASSUME NEW i \in Images
      PROVE  Inserting(NoteRefKey(i)) \in StatementSet /\ Inserting(MemberKey(i)) \in StatementSet
  <2>1. /\ NoteRefKey(i) \in WrittenKey /\ MemberKey(i) \in WrittenKey
        /\ NoteRefKey(i) # DescriptionKey /\ MemberKey(i) # DescriptionKey
    BY DEF NoteRefKey, MemberKey, DescriptionKey, WrittenKey, ChildKeyOf
  <2>2. ASSUME NEW k \in WrittenKey, k # DescriptionKey PROVE Inserting(k) \in StatementSet
    <3>1. <<k>> \in Seq(WrittenKey) /\ <<k>> # <<DescriptionKey>>
      BY <2>2
    <3>. QED
      BY <3>1 DEF StatementSet, Lists, Inserting, Doing, WellFormed, Kinds, OnceEach, Rowwise, Keywise
  <2>. QED
    BY <2>1, <2>2
<1>3. Doing("append", <<DescriptionKey>>, FALSE) \in StatementSet
  <2>1. DescriptionKey \in WrittenKey
    BY DEF DescriptionKey, WrittenKey, ChildKeyOf
  <2>2. <<DescriptionKey>> \in Seq(WrittenKey)
    BY <2>1
  <2>. QED
    BY <2>1, <2>2 DEF StatementSet, Lists, Doing, WellFormed, Kinds, OnceEach, Rowwise, Keywise
<1>4. CheckingParent \in StatementSet /\ Doing("cascade", {}, FALSE) \in StatementSet
  BY DEF StatementSet, Lists, CheckingParent, Doing, WellFormed, Kinds, OnceEach, Rowwise, Keywise
<1>5. ASSUME NEW tags \in Seq(Nat), tags # <<>> PROVE Ensuring(tags) \in StatementSet
  <2>. DEFINE s == Sorted(tags)
              on == [i \in DOMAIN s |-> TagKey(s[i])]
              TagKeys == {"tags"} \X Nat \X {None}
  <2>1. /\ s \in Seq(Nat) /\ s # <<>> /\ Len(s) \in Nat /\ DOMAIN s = 1..Len(s)
        /\ \A i, j \in DOMAIN s : i < j => s[i] < s[j]
        /\ \A i \in DOMAIN s : s[i] \in Nat
    BY <1>5, SortedTags, LenProperties, ElementOfSeq
  <2>. HIDE DEF s
  <2>2. on \in [1..Len(s) -> TagKeys]
    BY <2>1 DEF TagKey
  <2>3. on \in Seq(TagKeys) /\ Len(on) = Len(s) /\ DOMAIN on = DOMAIN s
    BY <2>1, <2>2
  <2>4. on # <<>>
    BY <2>1, <2>3, EmptySeq
  <2>5. \A i, j \in DOMAIN on : i < j => on[i][2] < on[j][2]
    BY <2>1, <2>3 DEF TagKey
  <2>6. on \in Seq(WrittenKey)
    <3>1. TagKeys \subseteq WrittenKey
      BY DEF WrittenKey, ParentKey
    <3>. HIDE DEF on, TagKeys
    <3>. QED
      BY <2>3, <3>1, SeqMonotonic
  <2>7. Ensuring(tags) = Doing("ensure", on, FALSE)
    BY DEF Ensuring, s
  <2>. HIDE DEF on
  <2>8. Ensuring(tags).does = "ensure" /\ Ensuring(tags).on = on
    BY <2>7 DEF Doing
  <2>9. WellFormed(Ensuring(tags))
    BY <2>3, <2>4, <2>5, <2>8 DEF WellFormed, OnceEach
  <2>. QED
    BY <2>6, <2>7, <2>9 DEF StatementSet, Lists, Doing, Kinds, OnceEach, Rowwise, Keywise
<1>6. ASSUME NEW tags \in Seq(Nat) PROVE Linking(tags) \in StatementSet
  <2>1. Seqs!ToSet(tags) \in SUBSET Nat /\ IsFiniteSet(Seqs!ToSet(tags))
    BY FiniteToSet
  <2>. QED
    BY <2>1 DEF StatementSet, Lists, Linking, Doing, WellFormed, Kinds, OnceEach, Rowwise, Keywise
<1>7. ASSUME NEW on \in SUBSET Where PROVE Doing("delete", on, FALSE) \in StatementSet
  <2>1. on \in Lists
    BY DEF Lists
  <2>. QED
    BY <2>1 DEF StatementSet, Doing, WellFormed, Kinds, OnceEach, Rowwise, Keywise
<1>8. ASSUME NEW does \in {"select", "update"}, NEW must \in BOOLEAN,
             NEW on \in SUBSET Rooted
      PROVE  Doing(does, on, must) \in StatementSet
  <2>1. /\ Doing(does, on, must).does = does /\ Doing(does, on, must).on = on
        /\ Doing(does, on, must).must = must
    BY DEF Doing
  <2>2. WellFormed(Doing(does, on, must))
    BY <2>1 DEF WellFormed, OnceEach
  <2>. QED
    <3>1. does \in Kinds
      BY DEF Kinds, Rowwise
    <3>2. on \in Lists
      BY DEF Lists
    <3>3. Doing(does, on, must) \in [does : Kinds, on : Lists, must : BOOLEAN]
      BY <3>1, <3>2 DEF Doing
    <3>. QED
      BY <2>2, <3>3 DEF StatementSet
<1>. QED
  BY <1>1, <1>2, <1>3, <1>4, <1>5, <1>6, <1>7, <1>8

\* Sequences of one element, glued together.
LEMMA Glue ==
  ASSUME NEW a, NEW b, NEW c
  PROVE  /\ <<a>> \o <<>> = <<a>>
         /\ <<a, b>> \o <<>> = <<a, b>>
         /\ <<a>> \o <<b>> = <<a, b>>
         /\ <<a, b>> \o <<c>> = <<a, b, c>>
<1>. DEFINE S == {a, b, c}
<1>1. <<>> \in Seq(S) /\ <<a>> \in Seq(S) /\ <<b>> \in Seq(S) /\ <<c>> \in Seq(S)
      /\ <<a, b>> \in Seq(S) /\ <<a, b, c>> \in Seq(S)
  OBVIOUS
<1>. HIDE DEF S
<1>2. <<a>> \o <<>> = <<a>> /\ <<a, b>> \o <<>> = <<a, b>>
  BY <1>1, ConcatEmptySeq
<1>3. <<a>> \o <<b>> = <<a, b>>
  <2>. DEFINE p == <<a>> \o <<b>>
  <2>1. p \in Seq(S) /\ Len(p) = 2 /\ p[1] = a /\ p[2] = b
    BY <1>1, ConcatProperties
  <2>. HIDE DEF p
  <2>2. p = <<a, b>>
    BY <1>1, <2>1, SeqEqual
  <2>. QED
    BY <2>2 DEF p
<1>4. <<a, b>> \o <<c>> = <<a, b, c>>
  <2>. DEFINE p == <<a, b>> \o <<c>>
  <2>1. p \in Seq(S) /\ Len(p) = 3 /\ p[1] = a /\ p[2] = b /\ p[3] = c
    BY <1>1, ConcatProperties
  <2>. HIDE DEF p
  <2>2. p = <<a, b, c>>
    BY <1>1, <2>1, SeqEqual
  <2>. QED
    BY <2>2 DEF p
<1>. QED
  BY <1>2, <1>3, <1>4

\* Short programs written out.
LEMMA GlueFour ==
  ASSUME NEW a, NEW b, NEW c, NEW d
  PROVE  <<a>> \o <<b, c, d>> = <<a, b, c, d>>
<1>. DEFINE S == {a, b, c, d}
            p == <<a>> \o <<b, c, d>>
<1>1. <<a>> \in Seq(S) /\ <<b, c, d>> \in Seq(S) /\ <<a, b, c, d>> \in Seq(S)
  OBVIOUS
<1>2. p \in Seq(S) /\ Len(p) = 4 /\ p[1] = a /\ p[2] = b /\ p[3] = c /\ p[4] = d
  <2>. HIDE DEF S
  <2>. QED
    BY <1>1, ConcatProperties
<1>. HIDE DEF S, p
<1>3. p = <<a, b, c, d>>
  BY <1>1, <1>2, SeqEqual
<1>. QED
  BY <1>3 DEF p

\* The same, five statements long.
LEMMA GlueFive ==
  ASSUME NEW a, NEW b, NEW c, NEW d, NEW e
  PROVE  <<a, b>> \o <<c, d, e>> = <<a, b, c, d, e>>
<1>. DEFINE S == {a, b, c, d, e}
            p == <<a, b>> \o <<c, d, e>>
<1>1. <<a, b>> \in Seq(S) /\ <<c, d, e>> \in Seq(S) /\ <<a, b, c, d, e>> \in Seq(S)
  OBVIOUS
<1>2. p \in Seq(S) /\ Len(p) = 5 /\ p[1] = a /\ p[2] = b /\ p[3] = c /\ p[4] = d /\ p[5] = e
  <2>. HIDE DEF S
  <2>. QED
    BY <1>1, ConcatProperties
<1>. HIDE DEF S, p
<1>3. p = <<a, b, c, d, e>>
  BY <1>1, <1>2, SeqEqual
<1>. QED
  BY <1>3 DEF p

\* The same, the last statement apart.
LEMMA GlueLast ==
  ASSUME NEW a, NEW b, NEW c, NEW d
  PROVE  <<a, b, c>> \o <<d>> = <<a, b, c, d>>
<1>. DEFINE S == {a, b, c, d}
            p == <<a, b, c>> \o <<d>>
<1>1. <<a, b, c>> \in Seq(S) /\ <<d>> \in Seq(S) /\ <<a, b, c, d>> \in Seq(S)
  OBVIOUS
<1>2. p \in Seq(S) /\ Len(p) = 4 /\ p[1] = a /\ p[2] = b /\ p[3] = c /\ p[4] = d
  <2>. HIDE DEF S
  <2>. QED
    BY <1>1, ConcatProperties
<1>. HIDE DEF S, p
<1>3. p = <<a, b, c, d>>
  BY <1>1, <1>2, SeqEqual
<1>. QED
  BY <1>3 DEF p

\* _set_tags, with the patch's delete of the earlier links and without.
LEMMA SetTagsProgram ==
  ASSUME NEW s \in Images, NEW tags \in Seq(Nat)
  PROVE  /\ tags = <<>> => /\ SetTags(s, tags, TRUE) = <<Selecting(ImageKey(s)), Deleting(LinkKey(None))>>
                           /\ SetTags(s, tags, FALSE) = <<Selecting(ImageKey(s))>>
         /\ tags # <<>> =>
               /\ SetTags(s, tags, TRUE) =
                     <<Selecting(ImageKey(s)), Deleting(LinkKey(None)), Ensuring(tags),
                       Linking(tags), CheckingParent>>
               /\ SetTags(s, tags, FALSE) =
                     <<Selecting(ImageKey(s)), Ensuring(tags), Linking(tags), CheckingParent>>
<1>. DEFINE a == Selecting(ImageKey(s))
            b == Deleting(LinkKey(None))
            c == Ensuring(tags)
            d == Linking(tags)
            e == CheckingParent
<1>1. /\ Select(ImageKey(s)) = <<a>> /\ Delete({LinkKey(None)}) = <<b>>
      /\ EnsureTags(tags) = <<c>> /\ Link(Seqs!ToSet(tags)) = <<d>> /\ ForeignKey = <<e>>
  BY DEF Select, Delete, EnsureTags, Ensure, Link, ForeignKey, Statement, Selecting, Deleting,
         Ensuring, Linking
<1>. HIDE DEF a, b, c, d, e
<1>2. <<a>> \o <<b>> \o <<>> = <<a, b>> /\ <<a>> \o <<>> \o <<>> = <<a>>
  BY Glue
<1>3. <<c>> \o <<d>> \o <<e>> = <<c, d, e>>
  BY Glue
<1>4. <<a>> \o <<b>> \o <<c, d, e>> = <<a, b, c, d, e>>
  <2>1. <<a>> \o <<b>> = <<a, b>>
    BY Glue
  <2>2. <<a, b>> \o <<c, d, e>> = <<a, b, c, d, e>>
    BY GlueFive
  <2>. QED
    BY <2>1, <2>2
<1>5. <<a>> \o <<>> \o <<c, d, e>> = <<a, c, d, e>>
  <2>1. <<a>> \o <<>> = <<a>>
    BY Glue
  <2>2. <<a>> \o <<c, d, e>> = <<a, c, d, e>>
    BY GlueFour
  <2>. QED
    BY <2>1, <2>2
<1>6. SetTags(s, tags, TRUE) = <<a>> \o <<b>> \o (IF tags = <<>> THEN <<>> ELSE <<c>> \o <<d>> \o <<e>>)
  BY <1>1 DEF SetTags
<1>7. SetTags(s, tags, FALSE) = <<a>> \o <<>> \o (IF tags = <<>> THEN <<>> ELSE <<c>> \o <<d>> \o <<e>>)
  BY <1>1 DEF SetTags
<1>. QED
  BY <1>2, <1>3, <1>4, <1>5, <1>6, <1>7 DEF a, b, c, d, e

\* Where the parts of an upsert begin, less one.
ParamsAt(r) == IF r.tags = <<>> THEN 1 ELSE 5
RefsAt(r) == ParamsAt(r) + (IF r.params THEN 3 ELSE 0)
DescAt(r) == RefsAt(r) + (IF r.refs = <<>> THEN 0 ELSE 1 + Len(r.refs))
UpsertLen(r) == DescAt(r) + (IF r.description THEN 4 ELSE 0)

\* The part of an upsert's program that begins after n, when it has one.
TagsPart(r, P) ==
    /\ P[2] = Selecting(ImageKey(r.image)) /\ P[3] = Ensuring(r.tags)
    /\ P[4] = Linking(r.tags) /\ P[5] = CheckingParent
ParamsPart(r, P, n) ==
    /\ P[n + 1] = Selecting(ImageKey(r.image)) /\ P[n + 2] = Putting(ParamsKey)
    /\ P[n + 3] = CheckingParent
RefsPart(r, P, n) ==
    /\ P[n + 1] = Deleting(RefKey(r.image, None))
    /\ \A j \in 1..Len(r.refs) : P[n + 1 + j] = Putting(RefKey(r.image, r.refs[j]))
DescPart(r, P, n) ==
    /\ P[n + 1] = Selecting(ImageKey(r.image)) /\ P[n + 2] = Deleting(DescriptionKey)
    /\ P[n + 3] = Doing("append", <<DescriptionKey>>, FALSE) /\ P[n + 4] = CheckingParent

\* Where the parts of an upsert's program start.
LEMMA UpsertAts ==
  ASSUME NEW r \in Requests, r.call = "upsert_image"
  PROVE  /\ Len(r.refs) \in Nat /\ DOMAIN r.refs = 1..Len(r.refs)
         /\ r.refs = <<>> <=> Len(r.refs) = 0
         /\ ParamsAt(r) \in {1, 5} /\ (r.tags = <<>> <=> ParamsAt(r) = 1)
         /\ RefsAt(r) \in Nat /\ RefsAt(r) >= ParamsAt(r) /\ (r.params => RefsAt(r) = ParamsAt(r) + 3)
         /\ ~r.params => RefsAt(r) = ParamsAt(r)
         /\ DescAt(r) \in Nat /\ DescAt(r) >= RefsAt(r)
         /\ r.refs # <<>> => DescAt(r) = RefsAt(r) + 1 + Len(r.refs)
         /\ r.refs = <<>> => DescAt(r) = RefsAt(r)
         /\ UpsertLen(r) \in Nat
         /\ r.description => UpsertLen(r) = DescAt(r) + 4
         /\ ~r.description => UpsertLen(r) = DescAt(r)
<1>1. r.refs \in Seq(References) /\ r.params \in BOOLEAN /\ r.description \in BOOLEAN
  BY RequestFacts
<1>2. /\ Len(r.refs) \in Nat /\ DOMAIN r.refs = 1..Len(r.refs)
      /\ r.refs = <<>> <=> Len(r.refs) = 0
  BY <1>1, LenProperties, EmptySeq
<1>3. ParamsAt(r) \in {1, 5} /\ (r.tags = <<>> <=> ParamsAt(r) = 1)
  BY DEF ParamsAt
<1>4. /\ RefsAt(r) \in Nat /\ RefsAt(r) >= ParamsAt(r) /\ (r.params => RefsAt(r) = ParamsAt(r) + 3)
      /\ ~r.params => RefsAt(r) = ParamsAt(r)
  BY <1>1, <1>3 DEF RefsAt
<1>5. /\ DescAt(r) \in Nat /\ DescAt(r) >= RefsAt(r)
      /\ r.refs # <<>> => DescAt(r) = RefsAt(r) + 1 + Len(r.refs)
      /\ r.refs = <<>> => DescAt(r) = RefsAt(r)
  BY <1>2, <1>4 DEF DescAt
<1>6. /\ UpsertLen(r) \in Nat
      /\ r.description => UpsertLen(r) = DescAt(r) + 4
      /\ ~r.description => UpsertLen(r) = DescAt(r)
  BY <1>1, <1>5 DEF UpsertLen
<1>. QED
  BY <1>2, <1>3, <1>4, <1>5, <1>6

\* A program of four statements is a sequence of them.
LEMMA FourElements ==
  ASSUME NEW S, NEW a \in S, NEW b \in S, NEW c \in S, NEW d \in S
  PROVE  /\ <<a, b, c, d>> \in Seq(S) /\ Len(<<a, b, c, d>>) = 4
         /\ <<a, b, c, d>>[1] = a /\ <<a, b, c, d>>[2] = b
         /\ <<a, b, c, d>>[3] = c /\ <<a, b, c, d>>[4] = d
OBVIOUS

UpsertIs(r, a, b, c, d, e) ==
    /\ Programs[r] = a \o b \o c \o d \o e
    /\ Len(a) = 1 /\ a[1] = Putting(ImageKey(r.image))
    /\ Len(b) = ParamsAt(r) - 1
    /\ r.tags # <<>> =>
          /\ Len(b) = 4 /\ b[1] = Selecting(ImageKey(r.image)) /\ b[2] = Ensuring(r.tags)
          /\ b[3] = Linking(r.tags) /\ b[4] = CheckingParent
    /\ Len(c) = RefsAt(r) - ParamsAt(r)
    /\ r.params =>
          /\ Len(c) = 3 /\ c[1] = Selecting(ImageKey(r.image))
          /\ c[2] = Putting(ParamsKey) /\ c[3] = CheckingParent
    /\ Len(d) = DescAt(r) - RefsAt(r)
    /\ r.refs # <<>> =>
          /\ Len(d) = 1 + Len(r.refs) /\ d[1] = Deleting(RefKey(r.image, None))
          /\ \A j \in 1..Len(r.refs) : d[1 + j] = Putting(RefKey(r.image, r.refs[j]))
    /\ Len(e) = UpsertLen(r) - DescAt(r)
    /\ r.description =>
          /\ Len(e) = 4 /\ e[1] = Selecting(ImageKey(r.image))
          /\ e[2] = Deleting(DescriptionKey)
          /\ e[3] = Doing("append", <<DescriptionKey>>, FALSE) /\ e[4] = CheckingParent

\* The five parts of an upsert.
LEMMA UpsertParts ==
  ASSUME NEW r \in Requests, r.call = "upsert_image"
  PROVE  \E a, b, c, d, e \in Seq(StatementSet) :
            UpsertIs(r, a, b, c, d, e)
<1>. DEFINE S == StatementSet
            here == ImageKey(r.image)
            a == StoreImage(r.image)
            b == IF r.tags = <<>> THEN <<>> ELSE SetTags(r.image, r.tags, FALSE)
            c == IF r.params THEN SetParams(r.image) ELSE <<>>
            d == IF r.refs = <<>> THEN <<>> ELSE SetReferences(r.image, r.refs)
            e == IF r.description THEN SetDescription(r.image) ELSE <<>>
<1>1. Programs[r] = a \o b \o c \o d \o e
  BY RequestFacts DEF Program, UpsertImage
<1>2. /\ r.image \in Images /\ r.tags \in Seq(Nat) /\ r.refs \in Seq(References)
      /\ r.params \in BOOLEAN /\ r.description \in BOOLEAN
  BY RequestFacts
<1>3. /\ here \in WrittenKey /\ here # DescriptionKey
      /\ ParamsKey \in WrittenKey /\ ParamsKey # DescriptionKey
      /\ \A n \in References :
            RefKey(r.image, n) \in WrittenKey /\ RefKey(r.image, n) # DescriptionKey
  BY <1>2 DEF ImageKey, ParamsKey, RefKey, DescriptionKey, WrittenKey, ParentKey, ChildKeyOf
<1>4. /\ Selecting(here) \in S /\ Deleting(RefKey(r.image, None)) \in S
      /\ Deleting(DescriptionKey) \in S
  <2>1. /\ {<<here[1], here[2]>>} \in SUBSET Rooted
        /\ {<<RefKey(r.image, None)[1], RefKey(r.image, None)[2]>>} \in SUBSET Where
        /\ {<<DescriptionKey[1], DescriptionKey[2]>>} \in SUBSET Where
    <3>2. /\ <<here[1], here[2]>> = <<"images", r.image>>
          /\ <<RefKey(r.image, None)[1], RefKey(r.image, None)[2]>> = <<"image_references", r.image>>
          /\ <<DescriptionKey[1], DescriptionKey[2]>> = <<"image_descriptions", This>>
      BY DEF ImageKey, RefKey, DescriptionKey
    <3>3. /\ {<<"images", r.image>>} \in SUBSET Rooted
          /\ {<<"image_references", r.image>>} \in SUBSET Where
          /\ {<<"image_descriptions", This>>} \in SUBSET Where
      <4>1. <<"images", r.image>> \in Rooted
        BY <1>2 DEF Rooted
      <4>2. <<"image_references", r.image>> \in Where
        BY <1>2 DEF Where, Tables, ChildTables
      <4>3. <<"image_descriptions", This>> \in Where
        BY DEF Where, Tables, ChildTables
      <4>. QED
        BY <4>1, <4>2, <4>3
    <3>. QED
      BY <3>2, <3>3
  <2>. QED
    BY <2>1, StatementFacts DEF Selecting, Deleting
<1>5. a \in Seq(S) /\ Len(a) = 1 /\ a[1] = Putting(here)
  <2>1. Putting(here) \in S
    BY <1>3, StatementFacts
  <2>2. a = <<Putting(here)>>
    BY DEF StoreImage, Put
  <2>. HIDE DEF a, S
  <2>. QED
    BY <2>1, <2>2
<1>6. /\ b \in Seq(S) /\ Len(b) = ParamsAt(r) - 1
      /\ r.tags # <<>> => /\ Len(b) = 4 /\ b[1] = Selecting(here) /\ b[2] = Ensuring(r.tags)
                          /\ b[3] = Linking(r.tags) /\ b[4] = CheckingParent
  <2>1. CASE r.tags = <<>>
    BY <2>1 DEF ParamsAt
  <2>2. CASE r.tags # <<>>
    <3>1. b = <<Selecting(here), Ensuring(r.tags), Linking(r.tags), CheckingParent>>
      BY <1>2, <2>2, SetTagsProgram
    <3>2. Ensuring(r.tags) \in S /\ Linking(r.tags) \in S /\ CheckingParent \in S
      BY <1>2, <2>2, StatementFacts
    <3>. HIDE DEF b, S, here
    <3>. QED
      BY <1>4, <2>2, <3>1, <3>2 DEF ParamsAt
  <2>. QED
    BY <2>1, <2>2
<1>7. /\ c \in Seq(S) /\ Len(c) = RefsAt(r) - ParamsAt(r)
      /\ r.params => /\ Len(c) = 3 /\ c[1] = Selecting(here) /\ c[2] = Putting(ParamsKey)
                     /\ c[3] = CheckingParent
  <2>1. CASE ~r.params
    BY <2>1 DEF RefsAt, ParamsAt
  <2>2. CASE r.params
    <3>1. c = <<Selecting(here)>> \o <<Putting(ParamsKey)>> \o <<CheckingParent>>
      BY <2>2 DEF SetParams, Select, Statement, Selecting, Put, ForeignKey
    <3>. HIDE DEF c, S, here
    <3>2. c = <<Selecting(here), Putting(ParamsKey), CheckingParent>>
      BY <3>1, Glue
    <3>3. Putting(ParamsKey) \in S /\ CheckingParent \in S
      BY <1>3, StatementFacts DEF S
    <3>. QED
      BY <1>4, <2>2, <3>2, <3>3 DEF RefsAt, ParamsAt
  <2>. QED
    BY <1>2, <2>1, <2>2
<1>8. /\ d \in Seq(S) /\ Len(d) = DescAt(r) - RefsAt(r)
      /\ r.refs # <<>> =>
            /\ Len(d) = 1 + Len(r.refs) /\ d[1] = Deleting(RefKey(r.image, None))
            /\ \A j \in 1..Len(r.refs) : d[1 + j] = Putting(RefKey(r.image, r.refs[j]))
  <2>1. CASE r.refs = <<>>
    BY <2>1, UpsertAts
  <2>2. CASE r.refs # <<>>
    <3>. DEFINE q == [i \in DOMAIN r.refs |-> Putting(RefKey(r.image, r.refs[i]))]
    <3>1. Delete({RefKey(r.image, None)}) = <<Deleting(RefKey(r.image, None))>>
      BY DEF Delete, Statement, Deleting
    <3>2. d = <<Deleting(RefKey(r.image, None))>> \o q
      BY <2>2, <3>1 DEF SetReferences
    <3>3. q \in Seq(S) /\ Len(q) = Len(r.refs) /\ DOMAIN r.refs = 1..Len(r.refs)
          /\ \A i \in 1..Len(r.refs) : q[i] = Putting(RefKey(r.image, r.refs[i]))
      <4>1. DOMAIN r.refs = 1..Len(r.refs) /\ Len(r.refs) \in Nat
        BY UpsertAts
      <4>2. \A i \in 1..Len(r.refs) : Putting(RefKey(r.image, r.refs[i])) \in S
        BY <1>2, <1>3, StatementFacts, ElementOfSeq
      <4>. HIDE DEF S
      <4>3. q \in [1..Len(r.refs) -> S]
        BY <4>1, <4>2
      <4>. QED
        BY <4>1, <4>3
    <3>4. <<Deleting(RefKey(r.image, None))>> \in Seq(S)
      BY <1>4
    <3>. HIDE DEF d, S, q
    <3>5. /\ d \in Seq(S) /\ Len(d) = 1 + Len(q)
          /\ \A i \in 1..(1 + Len(q)) :
                d[i] = IF i <= 1 THEN <<Deleting(RefKey(r.image, None))>>[i] ELSE q[i - 1]
      <4>. DEFINE h == <<Deleting(RefKey(r.image, None))>>
      <4>1. Len(h) = 1
        OBVIOUS
      <4>2. h \in Seq(S) /\ q \in Seq(S) /\ d = h \o q
        BY <3>2, <3>3, <3>4
      <4>. HIDE DEF h
      <4>3. /\ d \in Seq(S) /\ Len(d) = Len(h) + Len(q)
            /\ \A i \in 1..(Len(h) + Len(q)) : d[i] = IF i <= Len(h) THEN h[i] ELSE q[i - Len(h)]
        BY <4>2, Concat2
      <4>. QED
        BY <4>1, <4>3 DEF h
    <3>6. Len(r.refs) \in Nat /\ DescAt(r) = RefsAt(r) + 1 + Len(r.refs) /\ RefsAt(r) \in Nat
      BY <2>2, UpsertAts
    <3>7. d[1] = Deleting(RefKey(r.image, None))
      BY <3>3, <3>5, <3>6
    <3>8. \A j \in 1..Len(r.refs) : d[1 + j] = q[j]
      BY <3>3, <3>5, <3>6
    <3>. QED
      BY <3>3, <3>5, <3>6, <3>7, <3>8
  <2>. QED
    BY <2>1, <2>2
<1>9. /\ e \in Seq(S) /\ Len(e) = UpsertLen(r) - DescAt(r)
      /\ r.description =>
            /\ Len(e) = 4 /\ e[1] = Selecting(here) /\ e[2] = Deleting(DescriptionKey)
            /\ e[3] = Doing("append", <<DescriptionKey>>, FALSE) /\ e[4] = CheckingParent
  <2>0. DescAt(r) \in Nat
    BY UpsertAts
  <2>1. CASE ~r.description
    BY <2>0, <2>1 DEF UpsertLen
  <2>2. CASE r.description
    <3>1. e = <<Selecting(here)>> \o <<Deleting(DescriptionKey)>>
                \o <<Doing("append", <<DescriptionKey>>, FALSE)>> \o <<CheckingParent>>
      BY <2>2 DEF SetDescription, Select, Statement, Selecting, Delete, Deleting, Accrue, ForeignKey
    <3>. HIDE DEF e, S, here
    <3>2. e = <<Selecting(here), Deleting(DescriptionKey),
                Doing("append", <<DescriptionKey>>, FALSE)>> \o <<CheckingParent>>
      BY <3>1, Glue
    <3>3. e = <<Selecting(here), Deleting(DescriptionKey),
                Doing("append", <<DescriptionKey>>, FALSE), CheckingParent>>
      BY <3>2, GlueLast
    <3>4. Doing("append", <<DescriptionKey>>, FALSE) \in S /\ CheckingParent \in S
      BY StatementFacts DEF S
    <3>5. e \in Seq(S) /\ Len(e) = 4
      BY <1>4, <3>3, <3>4, FourElements
    <3>6. Len(e) = UpsertLen(r) - DescAt(r)
      BY <2>0, <2>2, <3>5 DEF UpsertLen
    <3>. QED
      BY <3>3, <3>5, <3>6
  <2>. QED
    BY <1>2, <2>1, <2>2
<1>. HIDE DEF a, b, c, d, e, S
<1>10. /\ a \in Seq(S) /\ b \in Seq(S) /\ c \in Seq(S) /\ d \in Seq(S) /\ e \in Seq(S)
  BY <1>5, <1>6, <1>7, <1>8, <1>9
<1>11. UpsertIs(r, a, b, c, d, e)
  BY <1>1, <1>5, <1>6, <1>7, <1>8, <1>9 DEF UpsertIs
<1>. QED
  BY <1>10, <1>11 DEF S

\* upsert_image, statement by statement.
LEMMA UpsertProgram ==
  ASSUME NEW r \in Requests, r.call = "upsert_image", NEW P, P = Programs[r]
  PROVE  /\ P \in Seq(StatementSet) /\ Len(P) = UpsertLen(r)
         /\ P[1] = Putting(ImageKey(r.image))
         /\ r.tags # <<>> => TagsPart(r, P)
         /\ r.params => ParamsPart(r, P, ParamsAt(r))
         /\ r.refs # <<>> => RefsPart(r, P, RefsAt(r))
         /\ r.description => DescPart(r, P, DescAt(r))
<1>. PICK a, b, c, d, e \in Seq(StatementSet) : UpsertIs(r, a, b, c, d, e)
  BY UpsertParts
<1>. PICK m, n, o \in Int : m = ParamsAt(r) /\ n = RefsAt(r) /\ o = DescAt(r)
  BY UpsertAts
<1>1. PICK q \in Seq(StatementSet) : q = a \o b \o c
  BY ConcatProperties
<1>2. /\ Len(q) = Len(a) + Len(b) + Len(c)
      /\ \A i \in 1..Len(a) : q[i] = a[i]
      /\ \A i \in 1..Len(b) : q[Len(a) + i] = b[i]
      /\ \A i \in 1..Len(c) : q[Len(a) + Len(b) + i] = c[i]
  BY <1>1, Concat3
<1>3. /\ P \in Seq(StatementSet) /\ Len(P) = Len(q) + Len(d) + Len(e)
      /\ \A i \in 1..Len(q) : P[i] = q[i]
      /\ \A i \in 1..Len(d) : P[Len(q) + i] = d[i]
      /\ \A i \in 1..Len(e) : P[Len(q) + Len(d) + i] = e[i]
  <2>1. P = q \o d \o e
    BY <1>1 DEF UpsertIs
  <2>. QED
    BY <2>1, Concat3
<1>4. Len(a) = 1 /\ Len(b) = m - 1 /\ Len(c) = n - m
  BY DEF UpsertIs
<1>5. Len(d) = o - n /\ Len(e) = UpsertLen(r) - o /\ UpsertLen(r) \in Int
  <2>1. UpsertLen(r) \in Int
    BY UpsertAts
  <2>. QED
    BY <2>1 DEF UpsertIs
<1>6. Len(a) + Len(b) = m /\ Len(q) = n
  BY <1>2, <1>4
<1>7. Len(q) + Len(d) = o /\ Len(P) = UpsertLen(r)
  BY <1>3, <1>5, <1>6
<1>8. m >= 1 /\ n >= m
  <2>1. m \in {1, 5}
    BY UpsertAts
  <2>2. n >= m
    BY UpsertAts
  <2>. QED
    BY <2>1, <2>2
<1>18. /\ \A i \in 1..Len(b) : P[1 + i] = b[i]
       /\ \A i \in 1..Len(c) : P[m + i] = c[i]
       /\ \A i \in 1..Len(d) : P[n + i] = d[i]
       /\ \A i \in 1..Len(e) : P[o + i] = e[i]
  <2>1. ASSUME NEW i \in 1..Len(b) PROVE P[1 + i] = b[i]
    <3>0. Len(b) = m - 1 /\ Len(q) = n /\ n >= m
      BY <1>4, <1>6, <1>8
    <3>1. 1 + i \in 1..Len(q)
      BY <3>0
    <3>2. P[1 + i] = q[1 + i]
      BY <1>3, <3>1
    <3>3. q[Len(a) + i] = b[i]
      BY <1>2
    <3>. QED
      BY <1>4, <3>2, <3>3
  <2>2. ASSUME NEW i \in 1..Len(c) PROVE P[m + i] = c[i]
    <3>0. Len(c) = n - m /\ Len(q) = n /\ m >= 1
      BY <1>4, <1>6, <1>8
    <3>1. m + i \in 1..Len(q)
      BY <3>0
    <3>2. P[m + i] = q[m + i]
      BY <1>3, <3>1
    <3>3. q[Len(a) + Len(b) + i] = c[i]
      BY <1>2
    <3>. QED
      BY <1>6, <3>2, <3>3
  <2>. QED
    BY <2>1, <2>2, <1>3, <1>6, <1>7
<1>12. P \in Seq(StatementSet) /\ Len(P) = UpsertLen(r)
  BY <1>3, <1>7
<1>13. P[1] = Putting(ImageKey(r.image))
  <2>1. 1 \in 1..Len(q) /\ 1 \in 1..Len(a)
    BY <1>4, <1>6, <1>8
  <2>. QED
    BY <1>2, <1>3, <2>1 DEF UpsertIs
<1>14. ASSUME r.tags # <<>> PROVE TagsPart(r, P)
  <2>1. Len(b) = 4
    BY <1>14 DEF UpsertIs
  <2>3. \A i \in 1..4 : P[1 + i] = b[i]
    BY <1>18, <2>1
  <2>4. P[1 + 1] = b[1] /\ P[1 + 2] = b[2] /\ P[1 + 3] = b[3] /\ P[1 + 4] = b[4]
    BY <2>3
  <2>2. P[2] = b[1] /\ P[3] = b[2] /\ P[4] = b[3] /\ P[5] = b[4]
    BY <2>4
  <2>. QED
    BY <1>14, <2>2 DEF UpsertIs, TagsPart
<1>15. ASSUME r.params PROVE ParamsPart(r, P, ParamsAt(r))
  <2>1. Len(c) = 3
    BY <1>15 DEF UpsertIs
  <2>2. P[m + 1] = c[1] /\ P[m + 2] = c[2] /\ P[m + 3] = c[3]
    BY <1>18, <2>1
  <2>. QED
    BY <1>15, <2>2 DEF UpsertIs, ParamsPart
<1>16. ASSUME r.refs # <<>> PROVE RefsPart(r, P, RefsAt(r))
  <2>1. Len(r.refs) \in Nat /\ Len(d) = 1 + Len(r.refs)
    BY <1>16, UpsertAts DEF UpsertIs
  <2>2. P[n + 1] = d[1]
    <3>1. 1 \in 1..Len(d)
      BY <2>1
    <3>. QED
      BY <1>18, <3>1
  <2>3. ASSUME NEW j \in 1..Len(r.refs) PROVE P[n + 1 + j] = d[1 + j]
    <3>1. 1 + j \in 1..Len(d) /\ n + (1 + j) = n + 1 + j
      BY <2>1
    <3>. QED
      BY <1>18, <3>1
  <2>. QED
    BY <1>16, <2>2, <2>3 DEF UpsertIs, RefsPart
<1>17. ASSUME r.description PROVE DescPart(r, P, DescAt(r))
  <2>1. Len(e) = 4
    BY <1>17 DEF UpsertIs
  <2>2. P[o + 1] = e[1] /\ P[o + 2] = e[2] /\ P[o + 3] = e[3] /\ P[o + 4] = e[4]
    BY <1>18, <2>1
  <2>. QED
    BY <1>17, <2>2 DEF UpsertIs, DescPart
<1>. QED
  BY <1>12, <1>13, <1>14, <1>15, <1>16, <1>17

\* What the p-th statement of an upsert is.
UpsertAt(r, p) ==
    LET s == Programs[r][p] IN
    \/ p = 1 /\ s = Putting(ImageKey(r.image))
    \/ p > 1 /\ s = Selecting(ImageKey(r.image))
    \/ p = 3 /\ r.tags # <<>> /\ s = Ensuring(r.tags)
    \/ r.refs # <<>> /\ p = RefsAt(r) + 1 /\ s = Deleting(RefKey(r.image, None))
    \/ /\ r.refs # <<>>
       /\ \E j \in 1..Len(r.refs) :
             p = RefsAt(r) + 1 + j /\ s = Putting(RefKey(r.image, r.refs[j]))
    \/ /\ \E q \in 1..(p - 1) : Programs[r][q].does = "select"
       /\ \/ p = 4 /\ r.tags # <<>> /\ s = Linking(r.tags)
          \/ s = CheckingParent
          \/ s = Putting(ParamsKey)
          \/ r.description /\ p = DescAt(r) + 2 /\ s = Deleting(DescriptionKey)
          \/ /\ r.description /\ p = DescAt(r) + 3
             /\ s = Doing("append", <<DescriptionKey>>, FALSE)

\* Every statement of an upsert is one of those UpsertAt lists for its place.
LEMMA UpsertStatement ==
  ASSUME NEW r \in Requests, r.call = "upsert_image", NEW p \in 1..Len(Programs[r])
  PROVE  UpsertAt(r, p)
<1>. DEFINE P == Programs[r]
<1>1. PICK m, n, o \in Nat : m = ParamsAt(r) /\ n = RefsAt(r) /\ o = DescAt(r)
  BY UpsertAts
<1>2. PICK l \in Nat : l = Len(r.refs)
  BY UpsertAts
<1>3. /\ m \in {1, 5} /\ (r.tags = <<>> <=> m = 1)
      /\ r.params => n = m + 3
      /\ ~r.params => n = m
      /\ r.refs # <<>> => o = n + 1 + l
      /\ r.refs = <<>> => o = n
      /\ r.description => UpsertLen(r) = o + 4
      /\ ~r.description => UpsertLen(r) = o
  BY <1>1, <1>2, UpsertAts
<1>4. p \in 1..UpsertLen(r)
  BY UpsertProgram
<1>. DEFINE Selected(k) == \E q \in 1..(k - 1) : P[q].does = "select"
<1>5. Selecting(ImageKey(r.image)).does = "select"
  BY DEF Selecting, Doing
<1>11. r.params \in BOOLEAN /\ r.description \in BOOLEAN
  BY RequestFacts
<1>6. CASE p = 1
  BY <1>6, UpsertProgram DEF UpsertAt
<1>7. CASE r.tags # <<>> /\ p \in 2..5
  <2>1. P[2] = Selecting(ImageKey(r.image)) /\ P[3] = Ensuring(r.tags)
        /\ P[4] = Linking(r.tags) /\ P[5] = CheckingParent
    BY <1>7, UpsertProgram DEF TagsPart
  <2>2. p > 2 => Selected(p)
    BY <1>5, <1>7, <2>1
  <2>3. p = 2 \/ p = 3 \/ p = 4 \/ p = 5
    BY <1>7
  <2>4. CASE p = 2
    <3>1. p > 1 /\ P[p] = Selecting(ImageKey(r.image))
      BY <2>1, <2>4
    <3>. QED
      BY <3>1 DEF UpsertAt
  <2>5. CASE p = 3
    BY <1>7, <2>1, <2>5 DEF UpsertAt
  <2>6. CASE p = 4
    <3>1. Selected(p) /\ P[p] = Linking(r.tags)
      BY <2>1, <2>2, <2>6
    <3>. QED
      BY <1>7, <2>6, <3>1 DEF UpsertAt
  <2>7. CASE p = 5
    <3>1. Selected(p) /\ P[p] = CheckingParent
      BY <2>1, <2>2, <2>7
    <3>. QED
      BY <3>1 DEF UpsertAt
  <2>. QED
    BY <2>3, <2>4, <2>5, <2>6, <2>7
<1>8. CASE r.params /\ p \in (m + 1)..(m + 3)
  <2>1. P[m + 1] = Selecting(ImageKey(r.image)) /\ P[m + 2] = Putting(ParamsKey)
        /\ P[m + 3] = CheckingParent
    BY <1>1, <1>8, UpsertProgram DEF ParamsPart
  <2>2. p > m + 1 => Selected(p)
    BY <1>3, <1>5, <1>8, <2>1
  <2>3. p > 1 /\ (p = m + 1 \/ p = m + 2 \/ p = m + 3)
    BY <1>3, <1>8
  <2>4. CASE p = m + 1
    BY <2>1, <2>3, <2>4 DEF UpsertAt
  <2>5. CASE p # m + 1
    <3>1. Selected(p) /\ (P[p] = Putting(ParamsKey) \/ P[p] = CheckingParent)
      BY <2>1, <2>2, <2>3, <2>5
    <3>. QED
      BY <3>1 DEF UpsertAt
  <2>. QED
    BY <2>4, <2>5
<1>9. CASE r.refs # <<>> /\ p \in (n + 1)..(n + 1 + l)
  <2>1. /\ P[n + 1] = Deleting(RefKey(r.image, None))
        /\ \A j \in 1..l : P[n + 1 + j] = Putting(RefKey(r.image, r.refs[j]))
    BY <1>1, <1>2, <1>9, UpsertProgram DEF RefsPart
  <2>2. CASE p = n + 1
    BY <1>1, <1>9, <2>1, <2>2 DEF UpsertAt
  <2>3. CASE p # n + 1
    <3>1. PICK j \in 1..l : p = n + 1 + j
      <4>1. p - n - 1 \in 1..l /\ p = n + 1 + (p - n - 1)
        BY <1>9, <2>3
      <4>. QED
        BY <4>1
    <3>2. P[p] = Putting(RefKey(r.image, r.refs[j]))
      BY <2>1, <3>1
    <3>. QED
      BY <1>1, <1>2, <1>9, <3>1, <3>2 DEF UpsertAt
  <2>. QED
    BY <2>2, <2>3
<1>10. CASE r.description /\ p \in (o + 1)..(o + 4)
  <2>1. P[o + 1] = Selecting(ImageKey(r.image)) /\ P[o + 2] = Deleting(DescriptionKey)
        /\ P[o + 3] = Doing("append", <<DescriptionKey>>, FALSE) /\ P[o + 4] = CheckingParent
    BY <1>1, <1>10, UpsertProgram DEF DescPart
  <2>0. o >= 1
    <3>1. n >= 1
      BY <1>3, <1>11
    <3>2. CASE r.refs = <<>>
      BY <1>3, <3>1, <3>2
    <3>3. CASE r.refs # <<>>
      BY <1>3, <3>1, <3>3
    <3>. QED
      BY <3>2, <3>3
  <2>2. p > o + 1 => Selected(p)
    BY <2>0, <1>5, <1>10, <2>1
  <2>3. p > 1 /\ (p = o + 1 \/ p = o + 2 \/ p = o + 3 \/ p = o + 4)
    BY <2>0, <1>10
  <2>4. CASE p = o + 1
    BY <2>1, <2>3, <2>4 DEF UpsertAt
  <2>5. CASE p = o + 2
    <3>1. Selected(p) /\ P[p] = Deleting(DescriptionKey) /\ p = DescAt(r) + 2
      BY <1>1, <2>1, <2>2, <2>5
    <3>. QED
      BY <1>10, <3>1 DEF UpsertAt
  <2>6. CASE p = o + 3
    <3>1. Selected(p) /\ P[p] = Doing("append", <<DescriptionKey>>, FALSE) /\ p = DescAt(r) + 3
      <4>1. Selected(p) /\ p = DescAt(r) + 3
        BY <1>1, <2>2, <2>6
      <4>. QED
        BY <2>1, <2>6, <4>1
    <3>. QED
      BY <1>10, <3>1 DEF UpsertAt
  <2>7. CASE p = o + 4
    <3>1. Selected(p) /\ P[p] = CheckingParent
      BY <2>1, <2>2, <2>7
    <3>. QED
      BY <3>1 DEF UpsertAt
  <2>. QED
    BY <2>3, <2>4, <2>5, <2>6, <2>7
<1>12. \/ p = 1
       \/ r.tags # <<>> /\ p \in 2..5
       \/ r.params /\ p \in (m + 1)..(m + 3)
       \/ r.refs # <<>> /\ p \in (n + 1)..(n + 1 + l)
       \/ r.description /\ p \in (o + 1)..(o + 4)
  <2>1. p \in Nat /\ p >= 1
    BY <1>4
  <2>2. CASE p <= m
    BY <1>3, <2>1, <2>2
  <2>3. CASE p > m /\ p <= n
    BY <1>3, <1>11, <2>1, <2>3
  <2>4. CASE p > n /\ p <= o
    BY <1>3, <2>1, <2>4
  <2>5. CASE p > o
    BY <1>3, <1>4, <1>11, <2>1, <2>5
  <2>. QED
    BY <2>1, <2>2, <2>3, <2>4, <2>5
<1>. QED
  BY <1>6, <1>7, <1>8, <1>9, <1>10, <1>12

\* The calls that store a list: the key of an item, and of all of them.
ItemKey(r, i) == IF r.call = "update_note" THEN NoteRefKey(i) ELSE MemberKey(i)
FirstOf(r) ==
    IF r.call = "update_note" THEN Doing("update", {<<NoteKey[1], NoteKey[2]>>}, TRUE)
    ELSE Selecting(CollectionKey)

ListIs(r, P, l) ==
    /\ l \in Nat /\ r.images \in Seq(Images) /\ DOMAIN r.images = 1..l
    /\ P \in Seq(StatementSet) /\ Len(P) = 2 + 2 * l
    /\ P[1] = FirstOf(r) /\ P[2] = Deleting(ItemKey(r, None))
    /\ \A j \in 1..l : /\ P[2 * j + 1] = Inserting(ItemKey(r, r.images[j]))
                       /\ P[2 * j + 2] = CheckingParent

\* update_note and set_collection_images, statement by statement.
LEMMA ListProgram ==
  ASSUME NEW r \in Requests, r.call \in {"update_note", "set_collection_images"},
         NEW P, P = Programs[r], NEW l, l = Len(r.images)
  PROVE  ListIs(r, P, l)
<1>1. r.images \in Seq(Images)
  BY RequestFacts
<1>2. l \in Nat /\ DOMAIN r.images = 1..l /\ \A j \in 1..l : r.images[j] \in Images
  BY <1>1, LenProperties, ElementOfSeq
<1>. DEFINE keys == [i \in DOMAIN r.images |-> ItemKey(r, r.images[i])]
            ins(i) == IF i % 2 = 1 THEN Inserting(keys[(i + 1) \div 2]) ELSE CheckingParent
<1>3. keys \in [1..l -> WrittenKey] /\ \A j \in 1..l : keys[j] = ItemKey(r, r.images[j])
  <2>1. \A i \in Images : NoteRefKey(i) \in WrittenKey /\ MemberKey(i) \in WrittenKey
    BY DEF NoteRefKey, MemberKey, WrittenKey, ChildKeyOf
  <2>. QED
    BY <1>2, <2>1 DEF ItemKey
<1>4. keys \in Seq(WrittenKey) /\ Len(keys) = l
  BY <1>2, <1>3
<1>5. InsertEach(keys) = [i \in 1..(2 * l) |-> ins(i)]
  BY <1>4 DEF InsertEach
<1>6. ASSUME NEW j \in 1..l
      PROVE  /\ ins(2 * j - 1) = Inserting(ItemKey(r, r.images[j]))
             /\ ins(2 * j) = CheckingParent
  <2>1. /\ (2 * j - 1) % 2 = 1 /\ (2 * j - 1 + 1) \div 2 = j /\ (2 * j) % 2 = 0
    BY <1>2
  <2>. HIDE DEF keys
  <2>. QED
    BY <1>3, <2>1
<1>7. \A j \in 1..l : Inserting(ItemKey(r, r.images[j])) \in StatementSet
  BY <1>2, StatementFacts DEF ItemKey
<1>8. CheckingParent \in StatementSet
  BY StatementFacts
<1>9. \A i \in 1..(2 * l) : \E j \in 1..l : i = 2 * j - 1 \/ i = 2 * j
  <2>1. SUFFICES ASSUME NEW i \in 1..(2 * l) PROVE \E j \in 1..l : i = 2 * j - 1 \/ i = 2 * j
    OBVIOUS
  <2>2. (i + 1) \div 2 \in 1..l /\ (i = 2 * ((i + 1) \div 2) - 1 \/ i = 2 * ((i + 1) \div 2))
    BY <1>2
  <2>. QED
    BY <2>2
<1>10. \A i \in 1..(2 * l) : ins(i) \in StatementSet
  <2>1. SUFFICES ASSUME NEW i \in 1..(2 * l) PROVE ins(i) \in StatementSet
    OBVIOUS
  <2>2. PICK j \in 1..l : i = 2 * j - 1 \/ i = 2 * j
    BY <1>9
  <2>. HIDE DEF ins
  <2>. QED
    BY <1>6, <1>7, <1>8, <2>2
<1>. HIDE DEF keys, ins
<1>11. PICK q : q = InsertEach(keys)
  OBVIOUS
<1>12. q \in Seq(StatementSet) /\ Len(q) = 2 * l /\ \A i \in 1..(2 * l) : q[i] = ins(i)
  <2>1. 2 * l \in Nat
    BY <1>2
  <2>2. q \in [1..(2 * l) -> StatementSet]
    BY <1>5, <1>10, <1>11
  <2>. QED
    BY <1>5, <1>11, <2>1, <2>2
<1>13. PICK a, b \in StatementSet : a = FirstOf(r) /\ b = Deleting(ItemKey(r, None))
  <2>1. /\ {<<NoteKey[1], NoteKey[2]>>} \in SUBSET Rooted
        /\ {<<CollectionKey[1], CollectionKey[2]>>} \in SUBSET Rooted
    BY DEF NoteKey, CollectionKey, Rooted
  <2>2. /\ {<<NoteRefKey(None)[1], NoteRefKey(None)[2]>>} \in SUBSET Where
        /\ {<<MemberKey(None)[1], MemberKey(None)[2]>>} \in SUBSET Where
    BY DEF NoteRefKey, MemberKey, Where, Tables, ChildTables
  <2>3. FirstOf(r) \in StatementSet
    BY <2>1, StatementFacts DEF FirstOf, Selecting
  <2>4. Deleting(ItemKey(r, None)) \in StatementSet
    BY <2>2, StatementFacts DEF ItemKey, Deleting
  <2>. QED
    BY <2>3, <2>4
<1>14. P = <<a>> \o (<<b>> \o q)
  <2>1. CASE r.call = "update_note"
    <3>1. Program(r) = UpdateNote(r)
      BY <2>1 DEF Program
    <3>2. Update(NoteKey, TRUE) = <<a>> /\ Delete({NoteRefKey(None)}) = <<b>>
      BY <2>1, <1>13 DEF Update, Delete, Statement, FirstOf, ItemKey, Deleting
    <3>3. [i \in DOMAIN r.images |-> NoteRefKey(r.images[i])] = keys
      BY <2>1 DEF keys, ItemKey
    <3>. QED
      BY <1>11, <3>1, <3>2, <3>3, RequestFacts DEF UpdateNote, SetNoteRefs
  <2>2. CASE r.call = "set_collection_images"
    <3>1. Program(r) = SetCollectionImages(r)
      BY <2>2 DEF Program
    <3>2. Select(CollectionKey) = <<a>> /\ Delete({MemberKey(None)}) = <<b>>
      BY <2>2, <1>13 DEF Select, Delete, Statement, FirstOf, ItemKey, Selecting, Deleting
    <3>3. [i \in DOMAIN r.images |-> MemberKey(r.images[i])] = keys
      BY <2>2 DEF keys, ItemKey
    <3>. QED
      BY <1>11, <3>1, <3>2, <3>3, RequestFacts DEF SetCollectionImages, SetMembers
  <2>. QED
    BY <2>1, <2>2
<1>15. PICK d \in Seq(StatementSet) : d = <<b>> \o q
  <2>1. <<b>> \in Seq(StatementSet)
    OBVIOUS
  <2>. QED
    BY <1>12, <2>1, ConcatProperties
<1>16. Len(d) = 1 + 2 * l /\ d[1] = b /\ \A i \in 1..(2 * l) : d[1 + i] = q[i]
  <2>1. <<b>> \in Seq(StatementSet) /\ Len(<<b>>) = 1 /\ <<b>>[1] = b
    OBVIOUS
  <2>2. /\ Len(d) = Len(<<b>>) + Len(q)
        /\ \A i \in 1..(Len(<<b>>) + Len(q)) :
              d[i] = IF i <= Len(<<b>>) THEN <<b>>[i] ELSE q[i - Len(<<b>>)]
    BY <1>12, <1>15, <2>1, Concat2
  <2>3. Len(d) = 1 + 2 * l
    BY <1>2, <1>12, <2>1, <2>2
  <2>4. d[1] = b
    BY <1>2, <1>12, <2>1, <2>2
  <2>5. ASSUME NEW i \in 1..(2 * l) PROVE d[1 + i] = q[i]
    <3>1. 1 + i \in 1..(Len(<<b>>) + Len(q)) /\ ~ (1 + i <= 1) /\ 1 + i - 1 = i
      BY <1>2, <1>12, <2>1
    <3>. QED
      BY <2>1, <2>2, <3>1
  <2>. QED
    BY <2>3, <2>4, <2>5
<1>17. /\ P \in Seq(StatementSet) /\ Len(P) = 2 + 2 * l /\ P[1] = a
       /\ \A i \in 1..(1 + 2 * l) : P[1 + i] = d[i]
  <2>1. <<a>> \in Seq(StatementSet) /\ Len(<<a>>) = 1 /\ <<a>>[1] = a
    OBVIOUS
  <2>2. P = <<a>> \o d
    BY <1>14, <1>15
  <2>3. /\ P \in Seq(StatementSet) /\ Len(P) = Len(<<a>>) + Len(d)
        /\ \A i \in 1..(Len(<<a>>) + Len(d)) :
              P[i] = IF i <= Len(<<a>>) THEN <<a>>[i] ELSE d[i - Len(<<a>>)]
    BY <2>1, <2>2, Concat2
  <2>4. P \in Seq(StatementSet) /\ Len(P) = 2 + 2 * l
    BY <1>2, <1>16, <2>1, <2>3
  <2>5. P[1] = a
    BY <1>2, <1>16, <2>1, <2>3
  <2>6. ASSUME NEW i \in 1..(1 + 2 * l) PROVE P[1 + i] = d[i]
    <3>1. 1 + i \in 1..(Len(<<a>>) + Len(d)) /\ ~ (1 + i <= 1) /\ 1 + i - 1 = i
      BY <1>2, <1>16, <2>1
    <3>2. PICK h : h = <<a>>
      OBVIOUS
    <3>3. \A k \in 1..(Len(h) + Len(d)) : P[k] = IF k <= Len(h) THEN h[k] ELSE d[k - Len(h)]
      BY <2>3, <3>2
    <3>4. Len(h) = 1 /\ 1 + i \in 1..(Len(h) + Len(d))
      BY <2>1, <3>1, <3>2
    <3>5. PICK n \in 1..(Len(h) + Len(d)) : n = 1 + i
      BY <3>4
    <3>6. P[n] = d[n - 1]
      <4>1. P[n] = IF n <= Len(h) THEN h[n] ELSE d[n - Len(h)]
        BY <3>3
      <4>2. ~ (n <= Len(h)) /\ n - Len(h) = n - 1
        BY <3>1, <3>4, <3>5
      <4>. QED
        BY <4>1, <4>2
    <3>. QED
      BY <3>1, <3>5, <3>6
  <2>. QED
    BY <2>4, <2>5, <2>6
<1>18. P[2] = b
  <2>1. 1 \in 1..(1 + 2 * l) /\ 1 + 1 = 2
    BY <1>2
  <2>. QED
    BY <1>16, <1>17, <2>1
<1>19. ASSUME NEW i \in 1..(2 * l) PROVE P[2 + i] = ins(i)
  <2>1. 1 + i \in 1..(1 + 2 * l) /\ 1 + (1 + i) = 2 + i
    BY <1>2
  <2>. QED
    BY <1>12, <1>16, <1>17, <2>1
<1>20. ASSUME NEW j \in 1..l
       PROVE  P[2 * j + 1] = Inserting(ItemKey(r, r.images[j])) /\ P[2 * j + 2] = CheckingParent
  <2>1. /\ 2 * j - 1 \in 1..(2 * l) /\ 2 * j \in 1..(2 * l)
        /\ 2 + (2 * j - 1) = 2 * j + 1 /\ 2 + 2 * j = 2 * j + 2
    BY <1>2
  <2>. QED
    BY <1>6, <1>19, <2>1
<1>. QED
  BY <1>1, <1>2, <1>13, <1>17, <1>18, <1>20 DEF ListIs

\* Which part of such a program the p-th statement is.
LEMMA ListPositions ==
  ASSUME NEW l \in Nat, NEW p \in 1..(2 + 2 * l), p > 2
  PROVE  \E j \in 1..l : p = 2 * j + 1 \/ p = 2 * j + 2
<1>1. CASE p % 2 = 1
  <2>1. (p - 1) \div 2 \in 1..l /\ p = 2 * ((p - 1) \div 2) + 1
    BY <1>1
  <2>. QED
    BY <2>1
<1>2. CASE p % 2 # 1
  <2>1. (p - 2) \div 2 \in 1..l /\ p = 2 * ((p - 2) \div 2) + 2
    BY <1>2
  <2>. QED
    BY <2>1
<1>. QED
  BY <1>1, <1>2

\* The other calls insert no row that belongs to a group.
PatchStatements(r) ==
    {Selecting(ImageKey(r.image)),
     Doing("update", {<<ImageKey(r.image)[1], ImageKey(r.image)[2]>>}, FALSE),
     Deleting(LinkKey(None)), CheckingParent}
        \cup (IF r.tags = <<>> THEN {} ELSE {Ensuring(r.tags), Linking(r.tags)})
DeleteStatements(r) ==
    {Doing("delete", {<<"image_references", s>> : s \in r.images}, FALSE),
     Doing("delete", {<<"images", s>> : s \in r.images}, FALSE),
     Doing("cascade", {}, FALSE)}
CollectionStatements == {Deleting(CollectionKey), Doing("cascade", {}, FALSE)}

\* The programs of the other calls are sequences of their statements.
LEMMA OtherPrograms ==
  ASSUME NEW r \in Requests, NEW P, P = Programs[r]
  PROVE  /\ r.call = "patch_image" => P \in Seq(PatchStatements(r)) /\ Len(P) >= 1
         /\ r.call = "delete_images" => P \in Seq(DeleteStatements(r)) /\ Len(P) >= 1
         /\ r.call = "delete_collection" => P \in Seq(CollectionStatements) /\ Len(P) >= 1
<1>1. ASSUME r.call = "patch_image"
      PROVE  P \in Seq(PatchStatements(r)) /\ Len(P) >= 1
  <2>. DEFINE here == ImageKey(r.image)
  <2>1. PICK S : S = PatchStatements(r)
    OBVIOUS
  <2>2. PICK a : a = Selecting(here)
    OBVIOUS
  <2>3. PICK b : b = IF r.scalars THEN <<Doing("update", {<<here[1], here[2]>>}, FALSE)>> ELSE <<>>
    OBVIOUS
  <2>4. PICK c : c = SetTags(r.image, r.tags, TRUE)
    OBVIOUS
  <2>5. P = <<a>> \o b \o c
    <3>1. Program(r) = PatchImage(r)
      BY <1>1 DEF Program
    <3>2. Select(here) = <<a>>
      BY <2>2 DEF Select, Selecting, Statement
    <3>3. (IF r.scalars THEN Update(here, FALSE) ELSE <<>>) = b
      BY <2>3 DEF Update, Statement
    <3>. QED
      BY <2>4, <3>1, <3>2, <3>3, RequestFacts DEF PatchImage
  <2>6. <<a>> \in Seq(S) /\ Len(<<a>>) = 1
    BY <2>1, <2>2 DEF PatchStatements
  <2>7. b \in Seq(S) /\ Len(b) \in Nat
    <3>1. PICK u \in S : u = Doing("update", {<<here[1], here[2]>>}, FALSE)
      BY <2>1 DEF PatchStatements
    <3>2. <<u>> \in Seq(S) /\ Len(<<u>>) = 1 /\ <<>> \in Seq(S) /\ Len(<<>>) = 0
      OBVIOUS
    <3>3. b = <<u>> \/ b = <<>>
      BY <2>3, <3>1
    <3>. QED
      BY <3>2, <3>3
  <2>8. c \in Seq(S) /\ Len(c) \in Nat
    <3>1. Selecting(here) \in S /\ Deleting(LinkKey(None)) \in S /\ CheckingParent \in S
      BY <2>1 DEF PatchStatements
    <3>2. r.tags # <<>> => Ensuring(r.tags) \in S /\ Linking(r.tags) \in S
      BY <2>1 DEF PatchStatements
    <3>3. r.image \in Images /\ r.tags \in Seq(Nat)
      BY <1>1, RequestFacts
    <3>4. CASE r.tags = <<>>
      <4>1. c = <<Selecting(here), Deleting(LinkKey(None))>>
        BY <2>4, <3>3, <3>4, SetTagsProgram
      <4>. QED
        BY <3>1, <4>1
    <3>5. CASE r.tags # <<>>
      <4>1. c = <<Selecting(here), Deleting(LinkKey(None)), Ensuring(r.tags), Linking(r.tags),
                  CheckingParent>>
        BY <2>4, <3>3, <3>5, SetTagsProgram
      <4>. HIDE DEF here
      <4>. QED
        BY <3>1, <3>2, <3>5, <4>1
    <3>. QED
      BY <3>4, <3>5
  <2>9. P \in Seq(S) /\ Len(P) = Len(<<a>>) + Len(b) + Len(c)
    BY <2>5, <2>6, <2>7, <2>8, Concat3
  <2>10. Len(P) >= 1
    BY <2>6, <2>7, <2>8, <2>9
  <2>. QED
    BY <2>1, <2>9, <2>10
<1>2. ASSUME r.call = "delete_images"
      PROVE  P \in Seq(DeleteStatements(r)) /\ Len(P) >= 1
  <2>1. PICK S : S = DeleteStatements(r)
    OBVIOUS
  <2>2. PICK a, b, c \in S :
           /\ a = Doing("delete", {<<"image_references", s>> : s \in r.images}, FALSE)
           /\ b = Doing("delete", {<<"images", s>> : s \in r.images}, FALSE)
           /\ c = Doing("cascade", {}, FALSE)
    BY <2>1 DEF DeleteStatements
  <2>3. P = <<a>> \o <<b>> \o <<c>>
    <3>1. Program(r) = DeleteImages(r)
      BY <1>2 DEF Program
    <3>2. /\ {<<k[1], k[2]>> : k \in {RefKey(s, None) : s \in r.images}}
               = {<<"image_references", s>> : s \in r.images}
          /\ {<<k[1], k[2]>> : k \in {ImageKey(s) : s \in r.images}}
               = {<<"images", s>> : s \in r.images}
      <4>1. \A s : RefKey(s, None)[1] = "image_references" /\ RefKey(s, None)[2] = s
        BY DEF RefKey
      <4>2. \A s : ImageKey(s)[1] = "images" /\ ImageKey(s)[2] = s
        BY DEF ImageKey
      <4>3. ASSUME NEW K(_), NEW tb, \A s : K(s)[1] = tb /\ K(s)[2] = s
            PROVE  {<<k[1], k[2]>> : k \in {K(s) : s \in r.images}} = {<<tb, s>> : s \in r.images}
        <5>1. ASSUME NEW x \in {<<k[1], k[2]>> : k \in {K(s) : s \in r.images}}
              PROVE  x \in {<<tb, s>> : s \in r.images}
          <6>1. PICK k \in {K(s) : s \in r.images} : x = <<k[1], k[2]>>
            BY <5>1
          <6>2. PICK s \in r.images : k = K(s)
            BY <6>1
          <6>3. x = <<tb, s>>
            BY <4>3, <6>1, <6>2
          <6>. QED
            BY <6>3
        <5>2. ASSUME NEW x \in {<<tb, s>> : s \in r.images}
              PROVE  x \in {<<k[1], k[2]>> : k \in {K(s) : s \in r.images}}
          <6>1. PICK s \in r.images : x = <<tb, s>>
            BY <5>2
          <6>2. K(s) \in {K(q) : q \in r.images} /\ x = <<K(s)[1], K(s)[2]>>
            BY <4>3, <6>1
          <6>. QED
            BY <6>2
        <5>. QED
          BY <5>1, <5>2
      <4>4. {<<k[1], k[2]>> : k \in {RefKey(s, None) : s \in r.images}}
               = {<<"image_references", s>> : s \in r.images}
        BY <4>1, <4>3
      <4>5. {<<k[1], k[2]>> : k \in {ImageKey(s) : s \in r.images}}
               = {<<"images", s>> : s \in r.images}
        BY <4>2, <4>3
      <4>. QED
        BY <4>4, <4>5
    <3>3. /\ Delete({RefKey(s, None) : s \in r.images}) = <<a>>
          /\ Delete({ImageKey(s) : s \in r.images}) = <<b>>
          /\ Cascade = <<c>>
      BY <2>2, <3>2 DEF Delete, Cascade, Statement
    <3>. QED
      BY <3>1, <3>3, RequestFacts DEF DeleteImages
  <2>4. P = <<a, b, c>>
    BY <2>3, Glue
  <2>. QED
    BY <2>1, <2>4
<1>3. ASSUME r.call = "delete_collection"
      PROVE  P \in Seq(CollectionStatements) /\ Len(P) >= 1
  <2>1. PICK a, b \in CollectionStatements :
           a = Deleting(CollectionKey) /\ b = Doing("cascade", {}, FALSE)
    BY DEF CollectionStatements
  <2>2. P = <<a>> \o <<b>>
    <3>1. Program(r) = DeleteCollection(r)
      BY <1>3 DEF Program
    <3>2. Delete({CollectionKey}) = <<a>> /\ Cascade = <<b>>
      BY <2>1 DEF Delete, Cascade, Statement, Deleting
    <3>. QED
      BY <3>1, <3>2, RequestFacts DEF DeleteCollection
  <2>3. P = <<a, b>>
    BY <2>2, Glue
  <2>. QED
    BY <2>3
<1>. QED
  BY <1>1, <1>2, <1>3

\* Every program is a sequence of well-formed statements.
LEMMA ProgramsOK ==
  ASSUME NEW r \in Requests
  PROVE  Programs[r] \in Seq(StatementSet) /\ Len(Programs[r]) \in Nat \ {0}
<1>. DEFINE P == Programs[r]
<1>0. \A o \in Images \cup {Note, Collection, This}, tb \in Tables : <<tb, o>> \in Where
  BY DEF Where
<1>1. ASSUME r.call = "upsert_image" PROVE P \in Seq(StatementSet) /\ Len(P) >= 1
  <2>1. P \in Seq(StatementSet) /\ Len(P) = UpsertLen(r)
    BY <1>1, UpsertProgram
  <2>2. ParamsAt(r) \in {1, 5} /\ RefsAt(r) >= ParamsAt(r) /\ RefsAt(r) \in Nat
    BY <1>1, UpsertAts
  <2>3. DescAt(r) >= RefsAt(r) /\ DescAt(r) \in Nat
    BY <1>1, UpsertAts
  <2>4. UpsertLen(r) = DescAt(r) + 4 \/ UpsertLen(r) = DescAt(r)
    BY <1>1, UpsertAts
  <2>. QED
    BY <2>1, <2>2, <2>3, <2>4
<1>2. ASSUME r.call = "patch_image" PROVE P \in Seq(StatementSet) /\ Len(P) >= 1
  <2>1. P \in Seq(PatchStatements(r)) /\ Len(P) >= 1
    BY <1>2, OtherPrograms
  <2>2. r.image \in Images /\ r.tags \in Seq(Nat)
    BY <1>2, RequestFacts
  <2>3. /\ {<<ImageKey(r.image)[1], ImageKey(r.image)[2]>>} \in SUBSET Rooted
        /\ {<<LinkKey(None)[1], LinkKey(None)[2]>>} \in SUBSET Where
    <3>1. <<ImageKey(r.image)[1], ImageKey(r.image)[2]>> \in Rooted
      BY <2>2 DEF ImageKey, Rooted
    <3>2. <<LinkKey(None)[1], LinkKey(None)[2]>> \in Where
      BY <1>0 DEF LinkKey, Tables, ChildTables
    <3>. QED
      BY <3>1, <3>2
  <2>4. /\ Selecting(ImageKey(r.image)) \in StatementSet
        /\ Doing("update", {<<ImageKey(r.image)[1], ImageKey(r.image)[2]>>}, FALSE) \in StatementSet
        /\ Deleting(LinkKey(None)) \in StatementSet
        /\ CheckingParent \in StatementSet
    BY <2>3, StatementFacts DEF Selecting, Deleting
  <2>5. r.tags # <<>> => Ensuring(r.tags) \in StatementSet /\ Linking(r.tags) \in StatementSet
    BY <2>2, StatementFacts
  <2>6. PatchStatements(r) \subseteq StatementSet
    BY <2>4, <2>5 DEF PatchStatements
  <2>. QED
    BY <2>1, <2>6, SeqMonotonic
<1>3. ASSUME r.call = "delete_images" PROVE P \in Seq(StatementSet) /\ Len(P) >= 1
  <2>1. P \in Seq(DeleteStatements(r)) /\ Len(P) >= 1
    BY <1>3, OtherPrograms
  <2>2. r.images \in SUBSET Images
    BY <1>3, RequestFacts
  <2>3. /\ {<<"image_references", s>> : s \in r.images} \in SUBSET Where
        /\ {<<"images", s>> : s \in r.images} \in SUBSET Where
    BY <1>0, <2>2 DEF Tables
  <2>4. DeleteStatements(r) \subseteq StatementSet
    BY <2>3, StatementFacts DEF DeleteStatements
  <2>. QED
    BY <2>1, <2>4, SeqMonotonic
<1>4. ASSUME r.call \in {"update_note", "set_collection_images"}
      PROVE  P \in Seq(StatementSet) /\ Len(P) >= 1
  <2>1. P \in Seq(StatementSet) /\ Len(P) = 2 + 2 * Len(r.images) /\ Len(r.images) \in Nat
    BY <1>4, ListProgram DEF ListIs
  <2>. QED
    BY <2>1
<1>5. ASSUME r.call = "delete_collection" PROVE P \in Seq(StatementSet) /\ Len(P) >= 1
  <2>1. P \in Seq(CollectionStatements) /\ Len(P) >= 1
    BY <1>5, OtherPrograms
  <2>2. {<<CollectionKey[1], CollectionKey[2]>>} \in SUBSET Where
    BY <1>0 DEF CollectionKey, Tables
  <2>3. CollectionStatements \subseteq StatementSet
    BY <2>2, StatementFacts DEF CollectionStatements, Deleting
  <2>. QED
    BY <2>1, <2>3, SeqMonotonic
<1>6. P \in Seq(StatementSet) /\ Len(P) >= 1
  BY <1>1, <1>2, <1>3, <1>4, <1>5, RequestFacts
<1>. QED
  BY <1>6, LenProperties

-----------------------------------------------------------------------------
(* The types of the state, and what a statement works on.                  *)

TxRecord ==
    [st : {"open", "committed", "failed"}, try : 1..Attempts, at : Nat \ {0},
     started : BOOLEAN, todo : Seq(DbRow \cup Key), row : Parent,
     ins : SUBSET DbRow, del : SUBSET DbRow, upd : SUBSET DbRow, shr : SUBSET DbRow]

\* Every variable has its type; the rows are finitely many, so that a statement's
\* snapshot can be put in a sequence.
TypeOK ==
    /\ db \in SUBSET DbRow /\ IsFiniteSet(db)
    /\ req \in [Txs -> Requests]
    /\ tx \in [Txs -> TxRecord]
    /\ \A t \in Txs : IsFiniteSet(tx[t].ins)
    /\ \A t \in Txs : tx[t].at <= Len(Programs[req[t]]) + 1

Todo(t) == Seqs!ToSet(tx[t].todo)
During(t, kinds) == tx[t].started /\ Current(t).does \in kinds

\* What is left of a statement that has begun: rows or keys it selects, in the order
\* of the tags when it is the one that inserts tags.
TodoOf(t) ==
    /\ ~tx[t].started => tx[t].todo = <<>>
    /\ tx[t].started =>
          /\ tx[t].st = "open" /\ ~AtEnd(t) /\ tx[t].todo # <<>>
          /\ Current(t).does \in Rowwise \cup Keywise
    /\ During(t, Rowwise) =>
          \A x \in Todo(t) : x \in DbRow /\ (x.by \in Txs \ {t} => tx[x.by].st = "committed")
    /\ During(t, {"update", "delete"}) =>
          \A x \in Todo(t) : \E w \in Current(t).on : <<x.key[1], x.key[2]>> = Bound(t, w)
    /\ During(t, {"cascade"}) =>
          \A x \in Todo(t) : x.key[1] \in ChildTables /\ x.key[2] \in tx[t].del
    /\ During(t, {"link"}) =>
          \A k \in Todo(t) : k \in Key /\ \E g \in Current(t).on : k = Bound(t, LinkKey(g))
    /\ During(t, {"ensure"}) =>
          /\ \A k \in Todo(t) : \E i \in DOMAIN Current(t).on : k = Current(t).on[i]
          /\ \A i, j \in DOMAIN tx[t].todo : i < j => tx[t].todo[i][2] < tx[t].todo[j][2]
TodoOK == \A t \in Txs : TodoOf(t)

\* The parts of a key.
LEMMA KeyFacts ==
  ASSUME NEW k \in Key
  PROVE  /\ k = <<k[1], k[2], k[3]>>
         /\ k[1] \in ChildTables => k \in ChildKey /\ k[2] \in Parent
         /\ k[1] \notin ChildTables => k \in ParentKey
         /\ k[1] = "images" => k[2] \in Images /\ k = ImageKey(k[2])
         /\ k[1] = "tags" => k[2] \in Nat /\ k = TagKey(k[2])
         /\ k[1] = "image_references" => k = RefKey(k[2], k[3])
         /\ k[1] = "notes" => k = NoteKey
         /\ k[1] = "collections" => k = CollectionKey
         /\ k[1] = "image_descriptions" => k[3] = None
BY DEF Key, ParentKey, ChildKey, ChildKeyOf, ChildTables, ImageKey, TagKey, RefKey, NoteKey,
       CollectionKey

\* The tables of parents are not tables of children.
LEMMA ParentKeyFacts == \A k \in ParentKey : k[1] \notin ChildTables
BY DEF ParentKey, ChildTables, NoteKey, CollectionKey

\* A row is its key and its writer.
LEMMA RowFacts ==
  /\ \A x \in DbRow : x.key \in Key /\ x.by \in Writer /\ x = Row(x.key, x.by)
  /\ \A k \in Key, t \in Txs : Row(k, t) \in DbRow /\ Row(k, t).key = k /\ Row(k, t).by = t
  /\ \A x \in DbRow : x.key[1] \in {"images", "notes", "collections"} => x \in Parent
  /\ NoRow \in Parent /\ NoRow \notin DbRow
<1>1. \A x \in DbRow : x.key \in Key /\ x.by \in Writer /\ x = Row(x.key, x.by)
  BY DEF DbRow, Row
<1>2. \A k \in Key, t \in Txs : Row(k, t) \in DbRow /\ Row(k, t).key = k /\ Row(k, t).by = t
  BY DEF DbRow, Row, Writer
<1>3. ASSUME NEW x \in DbRow, x.key[1] \in {"images", "notes", "collections"} PROVE x \in Parent
  <2>1. x.key[1] \notin ChildTables
    BY <1>3 DEF ChildTables
  <2>2. x.key \in ParentKey /\ x.by \in Writer /\ x = [key |-> x.key, by |-> x.by]
    BY <1>1, <2>1, KeyFacts DEF Row
  <2>. QED
    BY <2>2 DEF Parent
<1>4. NoRow \in Parent
  BY DEF Parent
<1>5. NoRow \notin DbRow
  <2>1. NoRow.key = <<None, None, None>>
    BY DEF NoRow, Row
  <2>2. <<None, None, None>> \notin Key
    BY DEF Key, ParentKey, ChildKey, ChildKeyOf, None, NoteKey, CollectionKey
  <2>. QED
    BY <1>1, <2>1, <2>2
<1>. QED
  BY <1>1, <1>2, <1>3, <1>4, <1>5

\* Bound puts the selected row where a program says This.
LEMMA BoundFacts ==
  ASSUME TypeOK, NEW t \in Txs
  PROVE  /\ tx[t].row \in Parent
         /\ \A k \in WrittenKey :
               /\ Bound(t, k) \in Key
               /\ k[1] \in ChildTables => Bound(t, k) = <<k[1], tx[t].row, k[3]>>
               /\ k[1] \notin ChildTables => Bound(t, k) = k
         /\ \A w \in Where \cup Rooted :
               /\ w[1] \in ChildTables => Bound(t, w) = <<w[1], tx[t].row>>
               /\ w[1] \notin ChildTables => Bound(t, w) = w
         /\ \A g \in Nat : Bound(t, LinkKey(g)) = <<"image_tags", tx[t].row, g>>
                           /\ Bound(t, LinkKey(g)) \in Key
<1>1. tx[t].row \in Parent
  BY DEF TypeOK, TxRecord
<1>2. ASSUME NEW k \in WrittenKey
      PROVE  /\ Bound(t, k) \in Key
             /\ k[1] \in ChildTables => Bound(t, k) = <<k[1], tx[t].row, k[3]>>
             /\ k[1] \notin ChildTables => Bound(t, k) = k
  <2>1. CASE k \in ParentKey
    <3>1. k[1] \notin ChildTables
      BY <2>1, ParentKeyFacts
    <3>. QED
      BY <2>1, <3>1 DEF Bound, Key
  <2>2. CASE k \in ChildKeyOf({This})
    <3>1. k[1] \in ChildTables
      BY <2>2 DEF ChildKeyOf, ChildTables
    <3>2. [k EXCEPT ![2] = tx[t].row] = <<k[1], tx[t].row, k[3]>>
      BY <2>2 DEF ChildKeyOf
    <3>3. <<k[1], tx[t].row, k[3]>> \in ChildKey
      BY <1>1, <2>2 DEF ChildKeyOf, ChildKey
    <3>. QED
      BY <3>1, <3>2, <3>3 DEF Bound, Key
  <2>. QED
    BY <2>1, <2>2 DEF WrittenKey
<1>3. ASSUME NEW w \in Where \cup Rooted
      PROVE  /\ w[1] \in ChildTables => Bound(t, w) = <<w[1], tx[t].row>>
             /\ w[1] \notin ChildTables => Bound(t, w) = w
  BY DEF Where, Rooted, Bound
<1>4. ASSUME NEW g \in Nat
      PROVE  Bound(t, LinkKey(g)) = <<"image_tags", tx[t].row, g>> /\ Bound(t, LinkKey(g)) \in Key
  <2>1. LinkKey(g) \in WrittenKey /\ LinkKey(g)[1] = "image_tags" /\ LinkKey(g)[3] = g
    BY DEF LinkKey, WrittenKey, ChildKeyOf
  <2>2. "image_tags" \in ChildTables
    BY DEF ChildTables
  <2>. QED
    BY <1>2, <2>1, <2>2
<1>. QED
  BY <1>1, <1>2, <1>3, <1>4

\* The statement a transaction is at.
LEMMA CurrentFacts ==
  ASSUME TypeOK, NEW t \in Txs
  PROVE  /\ Programs[req[t]] \in Seq(StatementSet) /\ Len(Programs[req[t]]) \in Nat \ {0}
         /\ tx[t].at \in Nat \ {0}
         /\ ~AtEnd(t) => /\ tx[t].at \in 1..Len(Programs[req[t]])
                         /\ Current(t) \in StatementSet
                         /\ Current(t).does \in Kinds /\ Current(t).must \in BOOLEAN
                         /\ WellFormed(Current(t))
         /\ AtEnd(t) <=> tx[t].at = Len(Programs[req[t]]) + 1
<1>1. req[t] \in Requests
  BY DEF TypeOK
<1>2. Programs[req[t]] \in Seq(StatementSet) /\ Len(Programs[req[t]]) \in Nat \ {0}
  BY <1>1, ProgramsOK
<1>3. tx[t].at \in Nat \ {0} /\ tx[t].at <= Len(Programs[req[t]]) + 1
  BY DEF TypeOK, TxRecord
<1>4. ASSUME ~AtEnd(t)
      PROVE  tx[t].at \in 1..Len(Programs[req[t]]) /\ Current(t) \in StatementSet
  <2>1. tx[t].at \in 1..Len(Programs[req[t]])
    BY <1>2, <1>3, <1>4 DEF AtEnd
  <2>. QED
    BY <1>2, <2>1, ElementOfSeq DEF Current
<1>5. \A s \in StatementSet : s.does \in Kinds /\ s.must \in BOOLEAN /\ WellFormed(s)
  BY DEF StatementSet
<1>. QED
  BY <1>2, <1>3, <1>4, <1>5 DEF AtEnd

\* What a transaction sees is a finite set of rows.
LEMMA VisibleFacts ==
  ASSUME TypeOK, NEW t \in Txs
  PROVE  Visible(t) \in SUBSET DbRow /\ IsFiniteSet(Visible(t))
<1>1. tx[t].ins \in SUBSET DbRow /\ IsFiniteSet(tx[t].ins) /\ db \in SUBSET DbRow /\ IsFiniteSet(db)
  BY DEF TypeOK, TxRecord
<1>2. IsFiniteSet(db \ tx[t].del)
  BY <1>1, FS_Subset
<1>3. IsFiniteSet((db \ tx[t].del) \cup tx[t].ins)
  BY <1>1, <1>2, FS_Union
<1>. QED
  BY <1>1, <1>3 DEF Visible

\* What a statement's snapshot shows is finitely many rows, or keys of links.
LEMMA MatchesFacts ==
  ASSUME TypeOK, NEW t \in Txs, IsAt(t, Rowwise \cup {"select", "link"})
  PROVE  /\ IsFiniteSet(Matches(t))
         /\ Current(t).does = "link" =>
               /\ Matches(t) \in SUBSET Key
               /\ \A k \in Matches(t) : \E g \in Current(t).on : k = Bound(t, LinkKey(g))
               /\ \A g \in Current(t).on :
                     Named(t, TagKey(g)) # {} => Bound(t, LinkKey(g)) \in Matches(t)
         /\ Current(t).does # "link" => Matches(t) \in SUBSET Visible(t)
         /\ Current(t).does = "cascade" =>
               \A x \in Visible(t) : x \in Matches(t) <=>
                   x.key[1] \in ChildTables /\ x.key[2] \in tx[t].del
         /\ Current(t).does \in {"select", "update", "delete"} =>
               \A x \in Visible(t) : x \in Matches(t) <=>
                   \E w \in Current(t).on : <<x.key[1], x.key[2]>> = Bound(t, w)
         /\ Current(t).does \in {"select", "update"} =>
               \A x \in Matches(t) : x \in Parent /\ \E w \in Current(t).on \cap Rooted :
                   x.key[1] = w[1] /\ x.key[2] = w[2]
<1>1. WellFormed(Current(t))
  BY CurrentFacts DEF IsAt
<1>2. CASE Current(t).does = "link"
  <2>. DEFINE G == {h \in Current(t).on : Named(t, TagKey(h)) # {}}
              f == [g \in G |-> Bound(t, LinkKey(g))]
  <2>1. Matches(t) = {Bound(t, LinkKey(g)) : g \in G}
    BY <1>2 DEF Matches
  <2>2. Current(t).on \in SUBSET Nat /\ IsFiniteSet(Current(t).on)
    BY <1>1, <1>2 DEF WellFormed
  <2>3. IsFiniteSet(G)
    BY <2>2, FS_Subset
  <2>4. f \in Surjection(G, Matches(t))
    BY <2>1 DEF Surjection
  <2>5. IsFiniteSet(Matches(t))
    BY <2>3, <2>4, FS_Surjection
  <2>6. \A k \in Matches(t) : k \in Key /\ \E g \in Current(t).on : k = Bound(t, LinkKey(g))
    BY <2>1, <2>2, BoundFacts
  <2>7. \A g \in Current(t).on : Named(t, TagKey(g)) # {} => Bound(t, LinkKey(g)) \in Matches(t)
    BY <2>1
  <2>. QED
    BY <1>2, <2>5, <2>6, <2>7
<1>3. CASE Current(t).does = "cascade"
  <2>1. Matches(t) = {x \in Visible(t) : x.key[1] \in ChildTables /\ x.key[2] \in tx[t].del}
    BY <1>3 DEF Matches
  <2>2. IsFiniteSet(Matches(t))
    BY <2>1, VisibleFacts, FS_Subset
  <2>. QED
    BY <1>3, <2>1, <2>2
<1>4. CASE Current(t).does \in {"select", "update", "delete"}
  <2>1. Matches(t) = {x \in Visible(t) :
                         \E w \in Current(t).on : <<x.key[1], x.key[2]>> = Bound(t, w)}
    BY <1>4 DEF Matches
  <2>2. IsFiniteSet(Matches(t))
    BY <2>1, VisibleFacts, FS_Subset
  <2>3. ASSUME Current(t).does \in {"select", "update"}, NEW x \in Matches(t)
        PROVE  x \in Parent /\ \E w \in Current(t).on \cap Rooted :
                   x.key[1] = w[1] /\ x.key[2] = w[2]
    <3>1. PICK w \in Current(t).on : <<x.key[1], x.key[2]>> = Bound(t, w)
      BY <2>1
    <3>2. w \in Rooted
      BY <1>1, <2>3 DEF WellFormed
    <3>3. w[1] \in {"images", "notes", "collections"} /\ w[1] \notin ChildTables /\ w = <<w[1], w[2]>>
      BY <3>2 DEF Rooted, ChildTables
    <3>4. <<x.key[1], x.key[2]>> = w
      BY <3>1, <3>2, <3>3, BoundFacts
    <3>5. x.key[1] = w[1] /\ x.key[2] = w[2]
      BY <3>3, <3>4
    <3>6. x \in DbRow
      BY <2>1, VisibleFacts
    <3>. QED
      BY <3>2, <3>3, <3>5, <3>6, RowFacts
  <2>. QED
    BY <1>4, <2>1, <2>2, <2>3
<1>. QED
  BY <1>2, <1>3, <1>4 DEF IsAt, Rowwise

\* What a transaction whose turn it is handles next.
LEMMA PendingFacts ==
  ASSUME TypeOK, TodoOK, NEW t \in Txs, IsAt(t, Kinds), Pending(t) # <<>>
  PROVE  LET h == Head(Pending(t)) IN
         /\ Len(Pending(t)) \in Nat \ {0}
         /\ Current(t).does # "select"
         /\ Current(t).does \in OnceEach =>
               /\ ~tx[t].started /\ Len(Pending(t)) = 1 /\ h \in Key
               /\ \E k \in WrittenKey : Current(t).on = <<k>> /\ h = Bound(t, k)
         /\ Current(t).does = "append" => h = Bound(t, DescriptionKey)
         /\ Current(t).does = "fkey" => ~tx[t].started /\ Len(Pending(t)) = 1 /\ h = tx[t].row
         /\ Current(t).does \in Keywise \cup Rowwise =>
               /\ Pending(t) \in Seq(DbRow \cup Key)
               /\ h \in Seqs!ToSet(Pending(t))
         /\ Current(t).does \in Rowwise \cup {"link"} =>
               tx[t].started /\ Pending(t) = tx[t].todo /\ h \in Todo(t)
         /\ Current(t).does \in Rowwise => h \in DbRow
         /\ Current(t).does = "link" =>
               h \in Key /\ \E g \in Current(t).on : h = Bound(t, LinkKey(g))
         /\ Current(t).does = "ensure" =>
               /\ h[1] = "tags" /\ h \in Key
               /\ Current(t).on \in Seq({"tags"} \X Nat \X {None})
               /\ \A k \in Seqs!ToSet(Pending(t)) : \E i \in DOMAIN Current(t).on : k = Current(t).on[i]
               /\ \A i, j \in DOMAIN Pending(t) : i < j => Pending(t)[i][2] < Pending(t)[j][2]
               /\ ~tx[t].started => Pending(t) = Current(t).on
<1>. DEFINE does == Current(t).does
            on == Current(t).on
            h == Head(Pending(t))
<1>1. does \in Kinds /\ WellFormed(Current(t)) /\ ~AtEnd(t)
  BY CurrentFacts DEF IsAt
<1>2. tx[t].started => tx[t].todo # <<>> /\ does \in Rowwise \cup Keywise /\ Pending(t) = tx[t].todo
  BY DEF TodoOK, TodoOf, Pending
<1>3. does # "select"
  BY <1>2 DEF Pending, Rowwise, Keywise
<1>4. tx[t].todo \in Seq(DbRow \cup Key)
  BY DEF TypeOK, TxRecord
<1>5. ASSUME does \in OnceEach
      PROVE  /\ ~tx[t].started /\ Len(Pending(t)) = 1 /\ h \in Key
             /\ \E k \in WrittenKey : on = <<k>> /\ h = Bound(t, k)
             /\ does = "append" => h = Bound(t, DescriptionKey)
  <2>1. ~tx[t].started
    BY <1>2, <1>5 DEF OnceEach, Rowwise, Keywise
  <2>2. PICK k \in WrittenKey : on = <<k>>
    BY <1>1, <1>5 DEF WellFormed
  <2>3. Pending(t) = [i \in DOMAIN on |-> Bound(t, on[i])]
    BY <1>5, <2>1 DEF Pending, OnceEach
  <2>4. DOMAIN on = {1} /\ on[1] = k
    BY <2>2
  <2>5. PICK b \in Key : b = Bound(t, k)
    BY BoundFacts
  <2>6. Pending(t) = <<b>>
    <3>1. Pending(t) = [i \in {1} |-> b]
      BY <2>3, <2>4, <2>5
    <3>2. <<b>> = [i \in {1} |-> b]
      OBVIOUS
    <3>. QED
      BY <3>1, <3>2
  <2>7. Len(Pending(t)) = 1 /\ h = b
    BY <2>6
  <2>8. does = "append" => k = DescriptionKey
    BY <1>1, <2>2 DEF WellFormed
  <2>. QED
    BY <2>1, <2>2, <2>5, <2>7, <2>8
<1>6. ASSUME does = "fkey" PROVE ~tx[t].started /\ Len(Pending(t)) = 1 /\ h = tx[t].row
  <2>1. ~tx[t].started
    BY <1>2, <1>6 DEF Rowwise, Keywise
  <2>2. Pending(t) = <<tx[t].row>>
    BY <1>6, <2>1 DEF Pending
  <2>. QED
    BY <2>1, <2>2
<1>7. ASSUME does \in Rowwise \cup {"link"}
      PROVE  /\ tx[t].started /\ Pending(t) = tx[t].todo /\ h \in Todo(t)
             /\ Pending(t) \in Seq(DbRow \cup Key) /\ h \in Seqs!ToSet(Pending(t))
             /\ Len(Pending(t)) \in Nat \ {0}
  <2>1. tx[t].started
    BY <1>7 DEF Pending, Rowwise
  <2>2. Pending(t) = tx[t].todo
    BY <2>1 DEF Pending
  <2>. QED
    BY <1>4, <2>1, <2>2, TailFacts DEF Todo
<1>8. does \in Rowwise => h \in DbRow
  <2>1. ASSUME does \in Rowwise PROVE h \in DbRow
    <3>1. tx[t].started /\ h \in Todo(t)
      BY <1>7, <2>1
    <3>. QED
      BY <2>1, <3>1 DEF TodoOK, TodoOf, During
  <2>. QED
    BY <2>1
<1>9. does = "link" => h \in Key /\ \E g \in on : h = Bound(t, LinkKey(g))
  <2>1. ASSUME does = "link" PROVE h \in Key /\ \E g \in on : h = Bound(t, LinkKey(g))
    <3>1. tx[t].started /\ h \in Todo(t)
      BY <1>7, <2>1
    <3>. QED
      BY <2>1, <3>1 DEF TodoOK, TodoOf, During
  <2>. QED
    BY <2>1
<1>10. ASSUME does = "ensure"
       PROVE  /\ h[1] = "tags" /\ h \in Key
              /\ on \in Seq({"tags"} \X Nat \X {None})
              /\ \A k \in Seqs!ToSet(Pending(t)) : \E i \in DOMAIN on : k = on[i]
              /\ \A i, j \in DOMAIN Pending(t) : i < j => Pending(t)[i][2] < Pending(t)[j][2]
              /\ ~tx[t].started => Pending(t) = on
              /\ Pending(t) \in Seq(DbRow \cup Key) /\ h \in Seqs!ToSet(Pending(t))
              /\ Len(Pending(t)) \in Nat \ {0}
  <2>. DEFINE TagKeys == {"tags"} \X Nat \X {None}
  <2>1. /\ on \in Seq(TagKeys) /\ on # <<>>
        /\ \A i, j \in DOMAIN on : i < j => on[i][2] < on[j][2]
    BY <1>1, <1>10 DEF WellFormed
  <2>2. \A k \in TagKeys : k \in WrittenKey /\ k \in Key /\ k[1] = "tags" /\ k[1] \notin ChildTables
    BY DEF WrittenKey, Key, ParentKey, ChildTables
  <2>3. \A k \in TagKeys : Bound(t, k) = k
    BY <2>2, BoundFacts
  <2>4. \A i \in DOMAIN on : on[i] \in TagKeys
    BY <2>1, ElementOfSeq, LenProperties
  <2>5. ASSUME ~tx[t].started PROVE Pending(t) = on
    <3>1. Pending(t) = [i \in DOMAIN on |-> Bound(t, on[i])]
      BY <1>10, <2>5 DEF Pending
    <3>2. on = [i \in DOMAIN on |-> on[i]]
      BY <2>1
    <3>3. \A i \in DOMAIN on : Bound(t, on[i]) = on[i]
      BY <2>3, <2>4
    <3>. HIDE DEF on
    <3>. QED
      BY <3>1, <3>2, <3>3
  <2>6. Pending(t) \in Seq(DbRow \cup Key)
    <3>1. TagKeys \subseteq DbRow \cup Key
      BY <2>2
    <3>2. on \in Seq(DbRow \cup Key)
      BY <2>1, <3>1, SeqMonotonic
    <3>. QED
      BY <1>2, <1>4, <2>5, <3>2
  <2>7. /\ \A k \in Seqs!ToSet(Pending(t)) : \E i \in DOMAIN on : k = on[i]
        /\ \A i, j \in DOMAIN Pending(t) : i < j => Pending(t)[i][2] < Pending(t)[j][2]
    <3>1. CASE tx[t].started
      BY <1>2, <1>10, <3>1 DEF TodoOK, TodoOf, During, Todo
    <3>2. CASE ~tx[t].started
      BY <2>1, <2>5, <3>2 DEF Seqs!ToSet
    <3>. QED
      BY <3>1, <3>2
  <2>8. h \in Seqs!ToSet(Pending(t)) /\ Len(Pending(t)) \in Nat \ {0}
    BY <2>6, TailFacts
  <2>9. h[1] = "tags" /\ h \in Key
    BY <2>2, <2>4, <2>7, <2>8
  <2>. QED
    BY <2>1, <2>5, <2>6, <2>7, <2>8, <2>9
<1>. QED
  BY <1>1, <1>3, <1>5, <1>6, <1>7, <1>8, <1>9, <1>10 DEF Kinds, Keywise, OnceEach, Rowwise

-----------------------------------------------------------------------------
(* The steps, by what they do to the transaction that takes them.  Every   *)
(* action is one of them.                                                  *)

Goes(t) ==
    /\ tx[t].st = "open" /\ tx'[t].st = "open" /\ tx'[t].try = tx[t].try
    /\ db' = db
Data(t, i, d, u, s) == tx'[t].ins = i /\ tx'[t].del = d /\ tx'[t].upd = u /\ tx'[t].shr = s
SameData(t) == Data(t, tx[t].ins, tx[t].del, tx[t].upd, tx[t].shr)
SameRow(t) == tx'[t].row = tx[t].row
MovesTo(t, n) == tx'[t].at = n /\ tx'[t].started = FALSE /\ tx'[t].todo = <<>>
Passes(t) ==
    /\ Pending(t) # <<>>
    /\ \/ Len(Pending(t)) = 1 /\ MovesTo(t, tx[t].at + 1)
       \/ /\ Len(Pending(t)) # 1
          /\ tx'[t].at = tx[t].at /\ tx'[t].started = TRUE /\ tx'[t].todo = Tail(Pending(t))
Next1(t) == Head(Pending(t))    \* the row or the key that is handled

\* No other transaction wrote or locked a row of this key.
Free(t, k) ==
    \A u \in Txs \ {t} : \A x \in tx[u].ins \cup tx[u].del \cup tx[u].upd : x.key # k

MissStep(t) ==
    /\ IsAt(t, Rowwise \cup {"select", "link"}) /\ Goes(t) /\ SameData(t) /\ SameRow(t)
    /\ \/ ~tx[t].started /\ Matches(t) = {}
       \/ tx[t].started /\ Current(t).does = "update" /\ Next1(t) \in Todo(t) \ db
    /\ \/ Current(t).must /\ MovesTo(t, Len(Programs[req[t]]) + 1)
       \/ ~Current(t).must /\ MovesTo(t, tx[t].at + 1)
SelectStep(t) ==
    /\ IsAt(t, {"select"}) /\ Goes(t) /\ SameData(t)
    /\ tx'[t].row \in Matches(t) /\ MovesTo(t, tx[t].at + 1)
ScanStep(t) ==
    /\ IsAt(t, Rowwise \cup {"link"}) /\ ~tx[t].started
    /\ Goes(t) /\ SameData(t) /\ SameRow(t)
    /\ tx'[t].at = tx[t].at /\ tx'[t].started = TRUE /\ tx'[t].todo \in Seq(DbRow \cup Key)
    /\ tx'[t].todo # <<>> /\ Seqs!ToSet(tx'[t].todo) = Matches(t)
InsertStep(t) ==
    /\ IsAt(t, OnceEach \cup Keywise) /\ Goes(t) /\ SameRow(t) /\ Next1(t) \in Key
    /\ \/ Current(t).does = "append"
       \/ Named(t, Next1(t)) = {} /\ Free(t, Next1(t))
    /\ Data(t, tx[t].ins \cup {Row(Next1(t), t)}, tx[t].del, tx[t].upd, tx[t].shr)
    /\ Passes(t)
PresentStep(t) ==
    /\ IsAt(t, Keywise) /\ Goes(t) /\ SameData(t) /\ SameRow(t) /\ Next1(t) \in Key
    /\ Named(t, Next1(t)) # {} /\ Passes(t)
TakeStep(t) ==
    /\ IsAt(t, {"put"}) /\ Goes(t) /\ SameRow(t) /\ Next1(t) \in Key
    /\ Named(t, Next1(t)) # {} /\ Free(t, Next1(t))
    /\ Data(t, tx[t].ins, tx[t].del, tx[t].upd \cup (Named(t, Next1(t)) \cap db), tx[t].shr)
    /\ MovesTo(t, tx[t].at + 1)
UpdateStep(t) ==
    /\ IsAt(t, {"update"}) /\ Goes(t) /\ tx[t].started /\ Next1(t) \in Todo(t) \cap db
    /\ \A u \in Txs \ {t} : Next1(t) \notin tx[u].del \cup tx[u].upd
    /\ Data(t, tx[t].ins, tx[t].del, tx[t].upd \cup {Next1(t)}, tx[t].shr)
    /\ Next1(t) \in Parent /\ tx'[t].row = Next1(t) /\ Passes(t)
DeleteStep(t) ==
    /\ IsAt(t, {"delete", "cascade"}) /\ Goes(t) /\ SameRow(t)
    /\ tx[t].started /\ Next1(t) \in Todo(t)
    /\ \A u \in Txs \ {t} : Next1(t) \notin tx[u].del \cup tx[u].upd \cup tx[u].shr
    /\ Data(t, tx[t].ins \ {Next1(t)}, tx[t].del \cup ({Next1(t)} \cap db), tx[t].upd, tx[t].shr)
    /\ Passes(t)
ParentStep(t) ==
    /\ IsAt(t, {"fkey"}) /\ Goes(t) /\ SameRow(t) /\ MovesTo(t, tx[t].at + 1)
    /\ \/ ~NeedsParent(t) /\ SameData(t)
       \/ /\ NeedsParent(t) /\ tx[t].row \in db
          /\ \A u \in Txs \ {t} : tx[t].row \notin tx[u].del
          /\ Data(t, tx[t].ins, tx[t].del, tx[t].upd, tx[t].shr \cup {tx[t].row})
Clears(t) == Data(t, {}, {}, {}, {}) /\ tx'[t].row = NoRow /\ MovesTo(t, 1)
EndStep(t) ==
    /\ tx[t].st = "open" /\ Clears(t) /\ db' = db
    /\ \/ tx'[t].st = "failed" /\ tx'[t].try = tx[t].try
          /\ \/ IsAt(t, {"insert"})
             \/ IsAt(t, {"fkey"}) /\ NeedsParent(t)
             \/ ~Again(t)
       \/ tx'[t].st = "open" /\ tx'[t].try = tx[t].try + 1 /\ Again(t)
CommitStep(t) ==
    /\ tx[t].st = "open" /\ AtEnd(t) /\ Clears(t)
    /\ tx'[t].st = "committed" /\ tx'[t].try = tx[t].try
    /\ db' = (db \ tx[t].del) \cup tx[t].ins

\* A record has these fields and no other.
IsRecord(y) ==
    y = [st |-> y.st, try |-> y.try, at |-> y.at, started |-> y.started, todo |-> y.todo,
         row |-> y.row, ins |-> y.ins, del |-> y.del, upd |-> y.upd, shr |-> y.shr]

Steps(t) ==
    /\ IsRecord(tx'[t]) /\ req' = req /\ tx' = [v \in Txs |-> tx'[v]] /\ \A u \in Txs \ {t} : tx'[u] = tx[u]
    /\ \/ MissStep(t) \/ SelectStep(t) \/ ScanStep(t) \/ InsertStep(t) \/ PresentStep(t)
       \/ TakeStep(t) \/ UpdateStep(t) \/ DeleteStep(t) \/ ParentStep(t)
       \/ EndStep(t) \/ CommitStep(t)

\* A step of one transaction leaves the others and the calls alone.
LEMMA StepFacts ==
  ASSUME TypeOK, NEW t \in Txs, NEW x, Step(t, x)
  PROVE  tx'[t] = x /\ req' = req /\ tx' = [v \in Txs |-> tx'[v]] /\ \A u \in Txs \ {t} : tx'[u] = tx[u]
BY DEF TypeOK, Step

\* The fields of the records the actions build.
LEMMA MissedFacts ==
  ASSUME TypeOK, NEW t \in Txs
  PROVE  /\ \/ Current(t).must /\ Missed(t).at = Len(Programs[req[t]]) + 1
            \/ ~Current(t).must /\ Missed(t).at = tx[t].at + 1
         /\ Missed(t).started = FALSE /\ Missed(t).todo = <<>>
         /\ Missed(t).st = tx[t].st /\ Missed(t).try = tx[t].try /\ Missed(t).row = tx[t].row
         /\ Missed(t).ins = tx[t].ins /\ Missed(t).del = tx[t].del
         /\ Missed(t).upd = tx[t].upd /\ Missed(t).shr = tx[t].shr
         /\ IsRecord(Missed(t))
BY DEF TypeOK, TxRecord, NextStatement, Missed, IsRecord

\* The record after the first row of a list is handled.
LEMMA PastFacts ==
  ASSUME NEW t \in Txs, NEW z \in TxRecord
  PROVE  LET y == Past(t, z)
         IN  /\ \/ Len(Pending(t)) = 1 /\ y.at = z.at + 1 /\ y.started = FALSE /\ y.todo = <<>>
                \/ Len(Pending(t)) # 1 /\ y.at = z.at /\ y.started = TRUE /\ y.todo = Tail(Pending(t))
             /\ y.st = z.st /\ y.try = z.try /\ y.row = z.row
             /\ y.ins = z.ins /\ y.del = z.del /\ y.upd = z.upd /\ y.shr = z.shr
             /\ IsRecord(y)
<1>1. CASE Len(Pending(t)) = 1
  BY <1>1 DEF Past, NextStatement, TxRecord, IsRecord
<1>2. CASE Len(Pending(t)) # 1
  <2>1. Past(t, z) = [z EXCEPT !.started = TRUE, !.todo = Tail(Pending(t))]
    BY <1>2 DEF Past
  <2>. QED
    BY <1>2, <2>1 DEF TxRecord, IsRecord
<1>. QED
  BY <1>1, <1>2

\* A transaction that waits for nobody may take the key or the row.
LEMMA TurnFacts ==
  ASSUME TypeOK, NEW t \in Txs, NEW kinds, Turn(t, kinds)
  PROVE  /\ IsAt(t, kinds) /\ Pending(t) # <<>>
         /\ Current(t).does \in {"put", "ensure", "insert", "link"} => Free(t, Next1(t))
         /\ Current(t).does \in {"delete", "cascade"} =>
               \A u \in Txs \ {t} : Next1(t) \notin tx[u].del \cup tx[u].upd \cup tx[u].shr
         /\ Current(t).does = "update" =>
               \A u \in Txs \ {t} : Next1(t) \notin tx[u].del \cup tx[u].upd
         /\ Current(t).does = "fkey" /\ NeedsParent(t) =>
               \A u \in Txs \ {t} : Next1(t) \notin tx[u].del
<1>1. IsAt(t, kinds) /\ Pending(t) # <<>> /\ Blockers(t) = {}
  BY DEF Turn
<1>2. tx[t].st = "open" /\ ~AtEnd(t)
  BY <1>1 DEF IsAt
<1>3. \A u \in Txs \ {t} :
         ~ \/ /\ Current(t).does \in {"put", "ensure", "insert", "link"}
              /\ \E x \in tx[u].ins \cup tx[u].del \cup tx[u].upd : x.key = Next1(t)
           \/ /\ Current(t).does \in {"delete", "cascade"}
              /\ Next1(t) \in tx[u].del \cup tx[u].upd \cup tx[u].shr
           \/ Current(t).does = "update" /\ Next1(t) \in tx[u].del \cup tx[u].upd
           \/ Current(t).does = "fkey" /\ NeedsParent(t) /\ Next1(t) \in tx[u].del
  BY <1>1, <1>2 DEF Blockers, Next1
<1>. QED
  BY <1>1, <1>3 DEF Free

\* The actions are such steps.
LEMMA NothingStep ==
  ASSUME TypeOK, NEW t \in Txs, Nothing(t) PROVE Steps(t) /\ MissStep(t)
<1>1. Step(t, Missed(t)) /\ db' = db /\ ~tx[t].started /\ Matches(t) = {}
      /\ IsAt(t, Rowwise \cup {"select", "link"})
  BY DEF Nothing, IsAt, Rowwise
<1>2. PICK y : y = Missed(t)
  OBVIOUS
<1>3. tx'[t] = y /\ req' = req /\ tx' = [v \in Txs |-> tx'[v]] /\ \A u \in Txs \ {t} : tx'[u] = tx[u]
  BY <1>1, <1>2, StepFacts
<1>4. /\ \/ Current(t).must /\ y.at = Len(Programs[req[t]]) + 1
         \/ ~Current(t).must /\ y.at = tx[t].at + 1
      /\ y.started = FALSE /\ y.todo = <<>> /\ y.st = tx[t].st /\ y.try = tx[t].try
      /\ y.row = tx[t].row /\ y.ins = tx[t].ins /\ y.del = tx[t].del
      /\ y.upd = tx[t].upd /\ y.shr = tx[t].shr /\ IsRecord(y)
  BY <1>2, MissedFacts
<1>5. Goes(t)
  BY <1>1, <1>3, <1>4 DEF Goes, IsAt
<1>6. SameData(t) /\ SameRow(t)
  BY <1>1, <1>3, <1>4 DEF SameData, Data, SameRow
<1>7. \/ Current(t).must /\ MovesTo(t, Len(Programs[req[t]]) + 1)
      \/ ~Current(t).must /\ MovesTo(t, tx[t].at + 1)
  BY <1>3, <1>4 DEF MovesTo
<1>8. MissStep(t)
  BY <1>1, <1>5, <1>6, <1>7 DEF MissStep
<1>. QED
  BY <1>3, <1>4, <1>8 DEF Steps

\* SelectRow is such a step.
LEMMA SelectRowStep ==
  ASSUME TypeOK, NEW t \in Txs, SelectRow(t) PROVE Steps(t) /\ SelectStep(t)
<1>1. IsAt(t, {"select"}) /\ db' = db
  BY DEF SelectRow
<1>2. PICK x \in Matches(t) : Step(t, NextStatement([tx[t] EXCEPT !.row = x]))
  BY DEF SelectRow
<1>3. PICK y : y = NextStatement([tx[t] EXCEPT !.row = x])
  OBVIOUS
<1>4. tx'[t] = y /\ req' = req /\ tx' = [v \in Txs |-> tx'[v]] /\ \A u \in Txs \ {t} : tx'[u] = tx[u]
  BY <1>2, <1>3, StepFacts
<1>5. SelectStep(t)
  <2>1. tx[t] \in TxRecord
    BY DEF TypeOK
  <2>2. /\ y.at = tx[t].at + 1 /\ y.started = FALSE /\ y.todo = <<>> /\ y.row = x
        /\ y.st = tx[t].st /\ y.try = tx[t].try
        /\ y.ins = tx[t].ins /\ y.del = tx[t].del /\ y.upd = tx[t].upd /\ y.shr = tx[t].shr
    BY <1>3, <2>1 DEF TxRecord, NextStatement
  <2>. QED
    BY <1>1, <1>2, <1>4, <2>2 DEF SelectStep, Goes, SameData, Data, MovesTo, IsAt
<1>6. IsRecord(y)
  BY <1>3 DEF TypeOK, TxRecord, NextStatement, IsRecord
<1>. QED
  BY <1>4, <1>5, <1>6 DEF Steps

\* Scan is.
LEMMA ScanRowsStep ==
  ASSUME TypeOK, NEW t \in Txs, Scan(t) PROVE Steps(t) /\ ScanStep(t)
<1>1. IsAt(t, Rowwise \cup {"link"}) /\ ~tx[t].started /\ Matches(t) # {} /\ db' = db
  BY DEF Scan, IsAt, Rowwise
<1>2. PICK q \in Seqs!SetToSeqs(Matches(t)) : Step(t, [tx[t] EXCEPT !.started = TRUE, !.todo = q])
  BY DEF Scan
<1>3. IsFiniteSet(Matches(t)) /\ Matches(t) \subseteq DbRow \cup Key
  <2>1. IsAt(t, Rowwise \cup {"select", "link"})
    BY <1>1 DEF IsAt
  <2>. QED
    BY <2>1, MatchesFacts, VisibleFacts
<1>4. q \in Seq(Matches(t)) /\ Seqs!ToSet(q) = Matches(t) /\ q # <<>>
  BY <1>1, <1>3, SetToSeqsFacts
<1>5. q \in Seq(DbRow \cup Key)
  BY <1>3, <1>4, SeqMonotonic
<1>6. PICK y : y = [tx[t] EXCEPT !.started = TRUE, !.todo = q]
  OBVIOUS
<1>7. tx'[t] = y /\ req' = req /\ tx' = [v \in Txs |-> tx'[v]] /\ \A u \in Txs \ {t} : tx'[u] = tx[u]
  BY <1>2, <1>6, StepFacts
<1>8. ScanStep(t)
  <2>1. tx[t] \in TxRecord
    BY DEF TypeOK
  <2>2. /\ y.at = tx[t].at /\ y.started = TRUE /\ y.todo = q /\ y.row = tx[t].row
        /\ y.st = tx[t].st /\ y.try = tx[t].try
        /\ y.ins = tx[t].ins /\ y.del = tx[t].del /\ y.upd = tx[t].upd /\ y.shr = tx[t].shr
    BY <1>6, <2>1 DEF TxRecord
  <2>3. Goes(t) /\ SameData(t) /\ SameRow(t)
    BY <1>1, <1>7, <2>2 DEF Goes, SameData, Data, SameRow, IsAt
  <2>. QED
    BY <1>1, <1>4, <1>5, <1>7, <2>2, <2>3 DEF ScanStep
<1>9. IsRecord(y)
  BY <1>6 DEF TypeOK, TxRecord, IsRecord
<1>. QED
  BY <1>7, <1>8, <1>9 DEF Steps

\* The record after a row was inserted, and the list was passed.
LEMMA InsertedFacts ==
  ASSUME TypeOK, NEW t \in Txs, NEW k \in Key
  PROVE  /\ Inserted(t, k) \in TxRecord
         /\ Inserted(t, k).ins = tx[t].ins \cup {Row(k, t)}
         /\ Inserted(t, k).at = tx[t].at /\ Inserted(t, k).row = tx[t].row
         /\ Inserted(t, k).st = tx[t].st /\ Inserted(t, k).try = tx[t].try
         /\ Inserted(t, k).del = tx[t].del /\ Inserted(t, k).upd = tx[t].upd
         /\ Inserted(t, k).shr = tx[t].shr
<1>1. tx[t] \in TxRecord /\ Row(k, t) \in DbRow
  BY RowFacts DEF TypeOK
<1>. QED
  BY <1>1 DEF TxRecord, Inserted

\* What the actions that insert a row have in common.
LEMMA InsertingStep ==
  ASSUME TypeOK, TodoOK, NEW t \in Txs, IsAt(t, OnceEach \cup Keywise), Next1(t) \in Key,
         Pending(t) # <<>>, Step(t, Past(t, Inserted(t, Next1(t)))), db' = db,
         Current(t).does = "append" \/ (Named(t, Next1(t)) = {} /\ Free(t, Next1(t)))
  PROVE  Steps(t) /\ InsertStep(t)
<1>1. PICK z \in TxRecord : z = Inserted(t, Next1(t))
  BY InsertedFacts
<1>2. PICK y : y = Past(t, z)
  OBVIOUS
<1>3. tx'[t] = y /\ req' = req /\ tx' = [v \in Txs |-> tx'[v]] /\ \A u \in Txs \ {t} : tx'[u] = tx[u]
  BY <1>1, <1>2, StepFacts
<1>4. /\ z.ins = tx[t].ins \cup {Row(Next1(t), t)} /\ z.at = tx[t].at /\ z.row = tx[t].row
      /\ z.st = tx[t].st /\ z.try = tx[t].try /\ z.del = tx[t].del /\ z.upd = tx[t].upd
      /\ z.shr = tx[t].shr
  BY <1>1, InsertedFacts
<1>5. /\ \/ Len(Pending(t)) = 1 /\ y.at = z.at + 1 /\ y.started = FALSE /\ y.todo = <<>>
         \/ Len(Pending(t)) # 1 /\ y.at = z.at /\ y.started = TRUE /\ y.todo = Tail(Pending(t))
      /\ y.st = z.st /\ y.try = z.try /\ y.row = z.row
      /\ y.ins = z.ins /\ y.del = z.del /\ y.upd = z.upd /\ y.shr = z.shr /\ IsRecord(y)
  BY <1>2, PastFacts
<1>6. Goes(t) /\ SameRow(t) /\ Passes(t)
      /\ Data(t, tx[t].ins \cup {Row(Next1(t), t)}, tx[t].del, tx[t].upd, tx[t].shr)
  BY <1>3, <1>4, <1>5 DEF Goes, SameRow, Passes, Data, MovesTo, IsAt
<1>7. InsertStep(t)
  BY <1>6 DEF InsertStep
<1>. QED
  BY <1>3, <1>5, <1>7 DEF Steps

\* PutRow inserts a row, or locks the one that is there.
LEMMA PutRowStep ==
  ASSUME TypeOK, TodoOK, NEW t \in Txs, PutRow(t)
  PROVE  Steps(t) /\ (InsertStep(t) \/ TakeStep(t))
<1>1. Turn(t, {"put"}) /\ IsAt(t, {"put"}) /\ Pending(t) # <<>> /\ db' = db
  BY DEF PutRow, Turn
<1>2. IsAt(t, Kinds) /\ IsAt(t, OnceEach \cup Keywise) /\ Current(t).does = "put"
  BY <1>1 DEF IsAt, Kinds, OnceEach
<1>3. Len(Pending(t)) = 1 /\ Next1(t) \in Key
  BY <1>1, <1>2, PendingFacts DEF Next1, OnceEach
<1>4. Free(t, Next1(t))
  BY <1>1, <1>2, TurnFacts
<1>5. CASE Named(t, Next1(t)) = {}
  <2>1. Step(t, Past(t, Inserted(t, Next1(t))))
    BY <1>5 DEF PutRow, Next1
  <2>. QED
    BY <1>1, <1>2, <1>3, <1>4, <1>5, <2>1, InsertingStep
<1>6. CASE Named(t, Next1(t)) # {}
  <2>1. PICK z : z = [tx[t] EXCEPT !.upd = @ \cup (Named(t, Next1(t)) \cap db)]
    OBVIOUS
  <2>2. Step(t, Past(t, z))
    BY <1>6, <2>1 DEF PutRow, Next1
  <2>3. /\ z \in TxRecord
        /\ z.upd = tx[t].upd \cup (Named(t, Next1(t)) \cap db) /\ z.at = tx[t].at /\ z.row = tx[t].row
        /\ z.st = tx[t].st /\ z.try = tx[t].try /\ z.del = tx[t].del /\ z.ins = tx[t].ins
        /\ z.shr = tx[t].shr
    BY <2>1 DEF TypeOK, TxRecord
  <2>4. PICK y : y = Past(t, z)
    OBVIOUS
  <2>5. tx'[t] = y /\ req' = req /\ tx' = [v \in Txs |-> tx'[v]] /\ \A u \in Txs \ {t} : tx'[u] = tx[u]
    BY <2>2, <2>4, StepFacts
  <2>6. /\ y.at = z.at + 1 /\ y.started = FALSE /\ y.todo = <<>>
        /\ y.st = z.st /\ y.try = z.try /\ y.row = z.row
        /\ y.ins = z.ins /\ y.del = z.del /\ y.upd = z.upd /\ y.shr = z.shr /\ IsRecord(y)
    BY <1>3, <2>3, <2>4, PastFacts
  <2>7. TakeStep(t)
    BY <1>1, <1>3, <1>4, <1>6, <2>3, <2>5, <2>6 DEF TakeStep, Goes, SameRow, Data, MovesTo, IsAt
  <2>. QED
    BY <2>5, <2>6, <2>7 DEF Steps
<1>. QED
  BY <1>5, <1>6

\* EnsureRow inserts a row, or passes over the one that is there.
LEMMA EnsureRowStep ==
  ASSUME TypeOK, TodoOK, NEW t \in Txs, EnsureRow(t)
  PROVE  Steps(t) /\ (InsertStep(t) \/ PresentStep(t))
<1>1. Turn(t, {"ensure", "link"}) /\ IsAt(t, Keywise) /\ Pending(t) # <<>> /\ db' = db
  BY DEF EnsureRow, Turn, Keywise
<1>2. IsAt(t, Kinds) /\ IsAt(t, OnceEach \cup Keywise) /\ Current(t).does \in Keywise
  BY <1>1 DEF IsAt, Kinds
<1>3. Next1(t) \in Key
  BY <1>1, <1>2, PendingFacts DEF Next1, Keywise
<1>4. Free(t, Next1(t))
  BY <1>1, <1>2, TurnFacts DEF Keywise
<1>5. CASE Named(t, Next1(t)) = {}
  <2>1. Step(t, Past(t, Inserted(t, Next1(t))))
    BY <1>5 DEF EnsureRow, Next1
  <2>. QED
    BY <1>1, <1>2, <1>3, <1>4, <1>5, <2>1, InsertingStep
<1>6. CASE Named(t, Next1(t)) # {}
  <2>1. Step(t, Past(t, tx[t]))
    BY <1>6 DEF EnsureRow, Next1
  <2>2. PICK y : y = Past(t, tx[t])
    OBVIOUS
  <2>3. tx'[t] = y /\ req' = req /\ tx' = [v \in Txs |-> tx'[v]] /\ \A u \in Txs \ {t} : tx'[u] = tx[u]
    BY <2>1, <2>2, StepFacts
  <2>4. PICK z \in TxRecord : z = tx[t]
    BY DEF TypeOK
  <2>5. /\ \/ Len(Pending(t)) = 1 /\ y.at = z.at + 1 /\ y.started = FALSE /\ y.todo = <<>>
           \/ Len(Pending(t)) # 1 /\ y.at = z.at /\ y.started = TRUE /\ y.todo = Tail(Pending(t))
        /\ y.st = z.st /\ y.try = z.try /\ y.row = z.row
        /\ y.ins = z.ins /\ y.del = z.del /\ y.upd = z.upd /\ y.shr = z.shr /\ IsRecord(y)
    BY <2>2, <2>4, PastFacts
  <2>6. Goes(t) /\ SameRow(t) /\ Passes(t) /\ SameData(t)
    BY <1>1, <2>3, <2>4, <2>5 DEF Goes, SameRow, Passes, SameData, Data, MovesTo, IsAt
  <2>7. PresentStep(t)
    BY <1>1, <1>3, <1>6, <2>6 DEF PresentStep
  <2>. QED
    BY <2>3, <2>5, <2>7 DEF Steps
<1>. QED
  BY <1>5, <1>6

\* A transaction that fails is over.
LEMMA FailingStep ==
  ASSUME TypeOK, NEW t \in Txs, Step(t, Ended("failed", tx[t].try)), db' = db,
         tx[t].st = "open", IsAt(t, {"insert"}) \/ (IsAt(t, {"fkey"}) /\ NeedsParent(t)) \/ ~Again(t)
  PROVE  Steps(t) /\ EndStep(t)
<1>1. PICK y : y = Ended("failed", tx[t].try)
  OBVIOUS
<1>2. tx'[t] = y /\ req' = req /\ tx' = [v \in Txs |-> tx'[v]] /\ \A u \in Txs \ {t} : tx'[u] = tx[u]
  BY <1>1, StepFacts
<1>3. /\ y.ins = {} /\ y.del = {} /\ y.upd = {} /\ y.shr = {} /\ y.row = NoRow
      /\ y.at = 1 /\ y.started = FALSE /\ y.todo = <<>> /\ y.st = "failed" /\ y.try = tx[t].try
      /\ IsRecord(y)
  BY <1>1 DEF Ended, Begun, IsRecord
<1>4. Clears(t) /\ tx'[t].st = "failed" /\ tx'[t].try = tx[t].try
  BY <1>2, <1>3 DEF Clears, Data, MovesTo
<1>5. EndStep(t)
  BY <1>4 DEF EndStep
<1>. QED
  BY <1>2, <1>3, <1>5 DEF Steps

\* InsertRow inserts a row, or ends the transaction at a duplicate key.
LEMMA InsertRowStep ==
  ASSUME TypeOK, TodoOK, NEW t \in Txs, InsertRow(t)
  PROVE  Steps(t) /\ (InsertStep(t) \/ EndStep(t))
<1>1. Turn(t, {"insert"}) /\ IsAt(t, {"insert"}) /\ Pending(t) # <<>> /\ db' = db
  BY DEF InsertRow, Turn
<1>2. IsAt(t, Kinds) /\ IsAt(t, OnceEach \cup Keywise) /\ Current(t).does = "insert" /\ tx[t].st = "open"
  BY <1>1 DEF IsAt, Kinds, OnceEach
<1>3. Next1(t) \in Key /\ Free(t, Next1(t))
  BY <1>1, <1>2, PendingFacts, TurnFacts DEF Next1, OnceEach
<1>5. CASE Named(t, Next1(t)) = {}
  <2>1. Step(t, Past(t, Inserted(t, Next1(t))))
    BY <1>5 DEF InsertRow, Next1
  <2>. QED
    BY <1>1, <1>2, <1>3, <1>5, <2>1, InsertingStep
<1>6. CASE Named(t, Next1(t)) # {}
  <2>1. Step(t, Ended("failed", tx[t].try))
    BY <1>6 DEF InsertRow, Next1
  <2>. QED
    BY <1>1, <1>2, <2>1, FailingStep
<1>. QED
  BY <1>5, <1>6

\* AppendRow inserts a row.
LEMMA AppendRowStep ==
  ASSUME TypeOK, TodoOK, NEW t \in Txs, AppendRow(t) PROVE Steps(t) /\ InsertStep(t)
<1>1. Turn(t, {"append"}) /\ IsAt(t, {"append"}) /\ Pending(t) # <<>> /\ db' = db
  BY DEF AppendRow, Turn
<1>2. IsAt(t, Kinds) /\ IsAt(t, OnceEach \cup Keywise) /\ Current(t).does = "append"
  BY <1>1 DEF IsAt, Kinds, OnceEach
<1>3. Next1(t) \in Key
  BY <1>1, <1>2, PendingFacts DEF Next1, OnceEach
<1>4. Step(t, Past(t, Inserted(t, Next1(t))))
  BY DEF AppendRow, Next1
<1>5. Current(t).does = "append" \/ (Named(t, Next1(t)) = {} /\ Free(t, Next1(t)))
  BY <1>2
<1>. QED
  BY <1>1, <1>2, <1>3, <1>4, <1>5, InsertingStep

\* DeleteRow is such a step.
LEMMA DeleteRowStep ==
  ASSUME TypeOK, TodoOK, NEW t \in Txs, DeleteRow(t) PROVE Steps(t) /\ DeleteStep(t)
<1>1. Turn(t, {"delete", "cascade"}) /\ IsAt(t, {"delete", "cascade"}) /\ Pending(t) # <<>> /\ db' = db
  BY DEF DeleteRow, Turn
<1>2. IsAt(t, Kinds) /\ Current(t).does \in Rowwise
  BY <1>1 DEF IsAt, Kinds, Rowwise
<1>3. tx[t].started /\ Next1(t) \in Todo(t) /\ Next1(t) \in DbRow
  BY <1>1, <1>2, PendingFacts DEF Next1
<1>4. \A u \in Txs \ {t} : Next1(t) \notin tx[u].del \cup tx[u].upd \cup tx[u].shr
  BY <1>1, TurnFacts DEF IsAt
<1>5. PICK z : z = [tx[t] EXCEPT !.del = @ \cup ({Next1(t)} \cap db), !.ins = @ \ {Next1(t)}]
  OBVIOUS
<1>6. Step(t, Past(t, z))
  BY <1>5 DEF DeleteRow, Next1
<1>7. /\ z \in TxRecord
      /\ z.del = tx[t].del \cup ({Next1(t)} \cap db) /\ z.ins = tx[t].ins \ {Next1(t)}
      /\ z.at = tx[t].at /\ z.row = tx[t].row /\ z.upd = tx[t].upd
      /\ z.st = tx[t].st /\ z.try = tx[t].try /\ z.shr = tx[t].shr
  BY <1>3, <1>5 DEF TypeOK, TxRecord
<1>8. PICK y : y = Past(t, z)
  OBVIOUS
<1>9. tx'[t] = y /\ req' = req /\ tx' = [v \in Txs |-> tx'[v]] /\ \A u \in Txs \ {t} : tx'[u] = tx[u]
  BY <1>6, <1>8, StepFacts
<1>10. /\ \/ Len(Pending(t)) = 1 /\ y.at = z.at + 1 /\ y.started = FALSE /\ y.todo = <<>>
          \/ Len(Pending(t)) # 1 /\ y.at = z.at /\ y.started = TRUE /\ y.todo = Tail(Pending(t))
       /\ y.st = z.st /\ y.try = z.try /\ y.row = z.row
       /\ y.ins = z.ins /\ y.del = z.del /\ y.upd = z.upd /\ y.shr = z.shr /\ IsRecord(y)
  BY <1>7, <1>8, PastFacts
<1>11. Goes(t) /\ SameRow(t) /\ Passes(t)
       /\ Data(t, tx[t].ins \ {Next1(t)}, tx[t].del \cup ({Next1(t)} \cap db), tx[t].upd, tx[t].shr)
  BY <1>1, <1>7, <1>9, <1>10 DEF Goes, SameRow, Passes, Data, MovesTo, IsAt
<1>12. DeleteStep(t)
  BY <1>1, <1>3, <1>4, <1>11 DEF DeleteStep
<1>. QED
  BY <1>9, <1>10, <1>12 DEF Steps

\* UpdateRow locks a row, or misses one that went meanwhile.
LEMMA UpdateRowStep ==
  ASSUME TypeOK, TodoOK, NEW t \in Txs, UpdateRow(t)
  PROVE  Steps(t) /\ (UpdateStep(t) \/ MissStep(t))
<1>1. Turn(t, {"update"}) /\ IsAt(t, {"update"}) /\ Pending(t) # <<>> /\ db' = db
  BY DEF UpdateRow, Turn
<1>2. IsAt(t, Kinds) /\ Current(t).does \in Rowwise /\ Current(t).does = "update"
  BY <1>1 DEF IsAt, Kinds, Rowwise
<1>3. tx[t].started /\ Next1(t) \in Todo(t) /\ Next1(t) \in DbRow
  BY <1>1, <1>2, PendingFacts DEF Next1
<1>4. \A u \in Txs \ {t} : Next1(t) \notin tx[u].del \cup tx[u].upd
  BY <1>1, <1>2, TurnFacts
<1>5. CASE Next1(t) \in db
  <2>1. PICK z : z = [tx[t] EXCEPT !.upd = @ \cup {Next1(t)}, !.row = Next1(t)]
    OBVIOUS
  <2>2. Step(t, Past(t, z))
    BY <1>5, <2>1 DEF UpdateRow, Next1
  <2>3. Next1(t) \in Parent
    <3>1. PICK w \in Current(t).on : <<Next1(t).key[1], Next1(t).key[2]>> = Bound(t, w)
      BY <1>2, <1>3 DEF TodoOK, TodoOf, During
    <3>2. w \in Rooted
      BY <1>2, <1>1, CurrentFacts DEF IsAt, WellFormed
    <3>3. w[1] \in {"images", "notes", "collections"} /\ w[1] \notin ChildTables /\ w = <<w[1], w[2]>>
      BY <3>2 DEF Rooted, ChildTables
    <3>4. <<Next1(t).key[1], Next1(t).key[2]>> = <<w[1], w[2]>>
      BY <3>1, <3>2, <3>3, BoundFacts
    <3>5. Next1(t).key[1] = w[1]
      BY <3>4
    <3>. QED
      BY <1>3, <3>3, <3>5, RowFacts
  <2>4. /\ z \in TxRecord
        /\ z.upd = tx[t].upd \cup {Next1(t)} /\ z.row = Next1(t) /\ z.ins = tx[t].ins
        /\ z.at = tx[t].at /\ z.del = tx[t].del
        /\ z.st = tx[t].st /\ z.try = tx[t].try /\ z.shr = tx[t].shr
    BY <1>3, <2>1, <2>3 DEF TypeOK, TxRecord
  <2>5. PICK y : y = Past(t, z)
    OBVIOUS
  <2>6. tx'[t] = y /\ req' = req /\ tx' = [v \in Txs |-> tx'[v]] /\ \A u \in Txs \ {t} : tx'[u] = tx[u]
    BY <2>2, <2>5, StepFacts
  <2>7. /\ \/ Len(Pending(t)) = 1 /\ y.at = z.at + 1 /\ y.started = FALSE /\ y.todo = <<>>
           \/ Len(Pending(t)) # 1 /\ y.at = z.at /\ y.started = TRUE /\ y.todo = Tail(Pending(t))
        /\ y.st = z.st /\ y.try = z.try /\ y.row = z.row
        /\ y.ins = z.ins /\ y.del = z.del /\ y.upd = z.upd /\ y.shr = z.shr /\ IsRecord(y)
    BY <2>4, <2>5, PastFacts
  <2>8. Goes(t) /\ Passes(t) /\ tx'[t].row = Next1(t)
        /\ Data(t, tx[t].ins, tx[t].del, tx[t].upd \cup {Next1(t)}, tx[t].shr)
    BY <1>1, <2>4, <2>6, <2>7 DEF Goes, Passes, Data, MovesTo, IsAt
  <2>9. UpdateStep(t)
    BY <1>1, <1>3, <1>4, <1>5, <2>3, <2>8 DEF UpdateStep
  <2>. QED
    BY <2>6, <2>7, <2>9 DEF Steps
<1>6. CASE Next1(t) \notin db
  <2>1. Step(t, Missed(t))
    BY <1>6 DEF UpdateRow, Next1
  <2>2. PICK y : y = Missed(t)
    OBVIOUS
  <2>3. tx'[t] = y /\ req' = req /\ tx' = [v \in Txs |-> tx'[v]] /\ \A u \in Txs \ {t} : tx'[u] = tx[u]
    BY <2>1, <2>2, StepFacts
  <2>4. IsAt(t, Rowwise \cup {"select", "link"})
    BY <1>1 DEF IsAt, Rowwise
  <2>5. /\ Goes(t) /\ SameData(t) /\ SameRow(t)
        /\ \/ Current(t).must /\ MovesTo(t, Len(Programs[req[t]]) + 1)
           \/ ~Current(t).must /\ MovesTo(t, tx[t].at + 1)
    BY <1>1, <2>2, <2>3, MissedFacts DEF Goes, SameData, Data, SameRow, MovesTo, IsAt
  <2>6. MissStep(t)
    BY <1>2, <1>3, <1>6, <2>4, <2>5 DEF MissStep
  <2>7. IsRecord(y)
    BY <2>2, MissedFacts
  <2>. QED
    BY <2>3, <2>6, <2>7 DEF Steps
<1>. QED
  BY <1>5, <1>6

\* CheckParent locks the parent, or ends the transaction when it is gone.
LEMMA CheckParentStep ==
  ASSUME TypeOK, TodoOK, NEW t \in Txs, CheckParent(t)
  PROVE  Steps(t) /\ (ParentStep(t) \/ EndStep(t))
<1>1. Turn(t, {"fkey"}) /\ IsAt(t, {"fkey"}) /\ Pending(t) # <<>> /\ db' = db
  BY DEF CheckParent, Turn
<1>2. IsAt(t, Kinds) /\ Current(t).does = "fkey" /\ tx[t].st = "open"
  BY <1>1 DEF IsAt, Kinds
<1>3. Len(Pending(t)) = 1 /\ Next1(t) = tx[t].row
  BY <1>1, <1>2, PendingFacts DEF Next1
<1>4. NeedsParent(t) => \A u \in Txs \ {t} : tx[t].row \notin tx[u].del
  BY <1>1, <1>2, <1>3, TurnFacts
<1>5. CASE ~NeedsParent(t) /\ Step(t, Past(t, tx[t]))
  <2>1. PICK y : y = Past(t, tx[t])
    OBVIOUS
  <2>2. tx'[t] = y /\ req' = req /\ tx' = [v \in Txs |-> tx'[v]] /\ \A u \in Txs \ {t} : tx'[u] = tx[u]
    BY <1>5, <2>1, StepFacts
  <2>3. PICK z \in TxRecord : z = tx[t]
    BY DEF TypeOK
  <2>4. /\ y.at = z.at + 1 /\ y.started = FALSE /\ y.todo = <<>>
        /\ y.st = z.st /\ y.try = z.try /\ y.row = z.row
        /\ y.ins = z.ins /\ y.del = z.del /\ y.upd = z.upd /\ y.shr = z.shr /\ IsRecord(y)
    BY <1>3, <2>1, <2>3, PastFacts
  <2>5. ParentStep(t)
    BY <1>1, <1>2, <1>5, <2>2, <2>3, <2>4 DEF ParentStep, Goes, SameRow, SameData, Data, MovesTo
  <2>. QED
    BY <2>2, <2>4, <2>5 DEF Steps
<1>6. CASE /\ NeedsParent(t) /\ tx[t].row \in db
           /\ Step(t, Past(t, [tx[t] EXCEPT !.shr = @ \cup {tx[t].row}]))
  <2>1. PICK z : z = [tx[t] EXCEPT !.shr = @ \cup {tx[t].row}]
    OBVIOUS
  <2>2. /\ z \in TxRecord
        /\ z.shr = tx[t].shr \cup {tx[t].row} /\ z.ins = tx[t].ins /\ z.upd = tx[t].upd
        /\ z.at = tx[t].at /\ z.del = tx[t].del /\ z.row = tx[t].row
        /\ z.st = tx[t].st /\ z.try = tx[t].try
    BY <1>6, <2>1 DEF TypeOK, TxRecord
  <2>3. PICK y : y = Past(t, z)
    OBVIOUS
  <2>4. tx'[t] = y /\ req' = req /\ tx' = [v \in Txs |-> tx'[v]] /\ \A u \in Txs \ {t} : tx'[u] = tx[u]
    BY <1>6, <2>1, <2>3, StepFacts
  <2>5. /\ y.at = z.at + 1 /\ y.started = FALSE /\ y.todo = <<>>
        /\ y.st = z.st /\ y.try = z.try /\ y.row = z.row
        /\ y.ins = z.ins /\ y.del = z.del /\ y.upd = z.upd /\ y.shr = z.shr /\ IsRecord(y)
    BY <1>3, <2>2, <2>3, PastFacts
  <2>6. ParentStep(t)
    BY <1>1, <1>2, <1>4, <1>6, <2>2, <2>4, <2>5 DEF ParentStep, Goes, SameRow, Data, MovesTo
  <2>. QED
    BY <2>4, <2>5, <2>6 DEF Steps
<1>7. CASE /\ NeedsParent(t) /\ tx[t].row \notin db
           /\ Step(t, Ended("failed", tx[t].try))
  BY <1>1, <1>2, <1>7, FailingStep
<1>. QED
  BY <1>5, <1>6, <1>7 DEF CheckParent

\* Commit is such a step.
LEMMA CommitRowsStep ==
  ASSUME TypeOK, NEW t \in Txs, Commit(t) PROVE Steps(t) /\ CommitStep(t)
<1>1. PICK y : y = Ended("committed", tx[t].try)
  OBVIOUS
<1>2. tx'[t] = y /\ req' = req /\ tx' = [v \in Txs |-> tx'[v]] /\ \A u \in Txs \ {t} : tx'[u] = tx[u]
  BY <1>1, StepFacts DEF Commit
<1>3. /\ y.ins = {} /\ y.del = {} /\ y.upd = {} /\ y.shr = {} /\ y.row = NoRow
      /\ y.at = 1 /\ y.started = FALSE /\ y.todo = <<>> /\ y.st = "committed" /\ y.try = tx[t].try
      /\ IsRecord(y)
  BY <1>1 DEF Ended, Begun, IsRecord
<1>4. CommitStep(t)
  BY <1>2, <1>3 DEF Commit, CommitStep, Clears, Data, MovesTo
<1>. QED
  BY <1>2, <1>3, <1>4 DEF Steps

\* RollBack ends an attempt.
LEMMA RollBackStep ==
  ASSUME TypeOK, NEW t \in Txs, RollBack(t) PROVE Steps(t) /\ EndStep(t)
<1>1. PICK D \in SUBSET Txs : t \in D /\ Deadlocked(D)
  BY DEF RollBack
<1>2. Blockers(t) # {}
  BY <1>1 DEF Deadlocked
<1>3. tx[t].st = "open" /\ db' = db
  BY <1>2 DEF Blockers, RollBack
<1>4. CASE ~Again(t)
  <2>1. Step(t, Ended("failed", tx[t].try))
    BY <1>4 DEF RollBack
  <2>. QED
    BY <1>3, <1>4, <2>1, FailingStep
<1>5. CASE Again(t)
  <2>1. PICK y : y = Begun(tx[t].try + 1)
    OBVIOUS
  <2>2. tx'[t] = y /\ req' = req /\ tx' = [v \in Txs |-> tx'[v]] /\ \A u \in Txs \ {t} : tx'[u] = tx[u]
    BY <1>5, <2>1, StepFacts DEF RollBack
  <2>3. /\ y.ins = {} /\ y.del = {} /\ y.upd = {} /\ y.shr = {} /\ y.row = NoRow
        /\ y.at = 1 /\ y.started = FALSE /\ y.todo = <<>> /\ y.st = "open" /\ y.try = tx[t].try + 1
        /\ IsRecord(y)
    BY <2>1 DEF Begun, IsRecord
  <2>4. EndStep(t)
    BY <1>3, <1>5, <2>2, <2>3 DEF EndStep, Clears, Data, MovesTo
  <2>. QED
    BY <2>2, <2>3, <2>4 DEF Steps
<1>. QED
  BY <1>4, <1>5

\* Every step of the system is a step of one transaction, described so, or leaves the
\* rows alone.
LEMMA NextStep ==
  ASSUME TypeOK, TodoOK, [Next]_vars
  PROVE  UNCHANGED rows \/ \E t \in Txs : Steps(t)
BY NothingStep, SelectRowStep, ScanRowsStep, PutRowStep, EnsureRowStep, InsertRowStep,
   AppendRowStep, DeleteRowStep, UpdateRowStep, CheckParentStep, CommitRowsStep, RollBackStep
DEF Next, ReadBack, vars, rows

-----------------------------------------------------------------------------
(* The types.                                                              *)

\* Where a transaction is after a statement, or after one row of it.
LEMMA PlaceFacts ==
  ASSUME TypeOK, TodoOK, NEW t \in Txs, IsAt(t, Kinds),
         \/ MovesTo(t, tx[t].at + 1)
         \/ MovesTo(t, Len(Programs[req[t]]) + 1)
         \/ Passes(t)
  PROVE  /\ tx'[t].at \in Nat \ {0} /\ tx'[t].at <= Len(Programs[req[t]]) + 1
         /\ tx'[t].started \in BOOLEAN /\ tx'[t].todo \in Seq(DbRow \cup Key)
<1>1. tx[t].at \in 1..Len(Programs[req[t]]) /\ Len(Programs[req[t]]) \in Nat \ {0}
  BY CurrentFacts DEF IsAt
<1>2. <<>> \in Seq(DbRow \cup Key)
  OBVIOUS
<1>3. ASSUME NEW n \in 1..(Len(Programs[req[t]]) + 1), MovesTo(t, n)
      PROVE  /\ tx'[t].at \in Nat \ {0} /\ tx'[t].at <= Len(Programs[req[t]]) + 1
             /\ tx'[t].started \in BOOLEAN /\ tx'[t].todo \in Seq(DbRow \cup Key)
  <2>1. tx'[t].at = n /\ tx'[t].started = FALSE /\ tx'[t].todo = <<>>
    BY <1>3 DEF MovesTo
  <2>2. n \in Nat \ {0} /\ n <= Len(Programs[req[t]]) + 1
    BY <1>1
  <2>3. tx'[t].started \in BOOLEAN
    BY <2>1
  <2>. QED
    BY <1>2, <2>1, <2>2, <2>3
<1>4. CASE MovesTo(t, tx[t].at + 1)
  BY <1>1, <1>3, <1>4
<1>5. CASE MovesTo(t, Len(Programs[req[t]]) + 1)
  BY <1>1, <1>3, <1>5
<1>6. CASE Passes(t) /\ ~MovesTo(t, tx[t].at + 1)
  <2>1. /\ Pending(t) # <<>> /\ Len(Pending(t)) # 1
        /\ tx'[t].at = tx[t].at /\ tx'[t].started = TRUE /\ tx'[t].todo = Tail(Pending(t))
    BY <1>6 DEF Passes
  <2>2. Pending(t) \in Seq(DbRow \cup Key)
    BY <2>1, CurrentFacts, PendingFacts DEF IsAt, Kinds
  <2>3. Tail(Pending(t)) \in Seq(DbRow \cup Key)
    BY <2>1, <2>2, TailFacts
  <2>4. tx'[t].started \in BOOLEAN
    BY <2>1
  <2>5. tx'[t].at \in Nat \ {0} /\ tx'[t].at <= Len(Programs[req[t]]) + 1
    BY <1>1, <2>1
  <2>. QED
    BY <2>1, <2>3, <2>4, <2>5
<1>. QED
  BY <1>4, <1>5, <1>6

\* The types are kept by every step.
LEMMA TypeStep ==
  ASSUME TypeOK, TodoOK, NEW t \in Txs, Steps(t)
  PROVE  TypeOK'
<1>1. /\ tx[t].st \in {"open", "committed", "failed"} /\ tx[t].try \in 1..Attempts
      /\ tx[t].row \in Parent /\ IsFiniteSet(tx[t].ins)
      /\ tx[t].ins \in SUBSET DbRow /\ tx[t].del \in SUBSET DbRow
      /\ tx[t].upd \in SUBSET DbRow /\ tx[t].shr \in SUBSET DbRow
      /\ db \in SUBSET DbRow /\ IsFiniteSet(db)
  BY DEF TypeOK, TxRecord
<1>2. IsRecord(tx'[t]) /\ req' = req /\ tx' = [v \in Txs |-> tx'[v]] /\ \A u \in Txs \ {t} : tx'[u] = tx[u]
  BY DEF Steps
<1>. DEFINE Place == /\ tx'[t].at \in Nat \ {0} /\ tx'[t].at <= Len(Programs[req[t]]) + 1
                     /\ tx'[t].started \in BOOLEAN /\ tx'[t].todo \in Seq(DbRow \cup Key)
            Same == tx'[t].st = "open" /\ tx'[t].try = tx[t].try
            Rest == /\ tx'[t].st \in {"open", "committed", "failed"} /\ tx'[t].try \in 1..Attempts
                    /\ tx'[t].row \in Parent /\ IsFiniteSet(tx'[t].ins)
                    /\ tx'[t].ins \in SUBSET DbRow /\ tx'[t].del \in SUBSET DbRow
                    /\ tx'[t].upd \in SUBSET DbRow /\ tx'[t].shr \in SUBSET DbRow
            Rows == db' \in SUBSET DbRow /\ IsFiniteSet(db')
<1>3. ASSUME Place, Rest, Rows PROVE TypeOK'
  <2>1. tx'[t] \in TxRecord
    BY <1>2, <1>3 DEF TxRecord, IsRecord
  <2>2. \A u \in Txs : tx'[u] \in TxRecord /\ IsFiniteSet(tx'[u].ins)
                       /\ tx'[u].at <= Len(Programs[req[u]]) + 1
    BY <1>2, <1>3, <2>1 DEF TypeOK
  <2>3. tx' \in [Txs -> TxRecord]
    BY <1>2, <2>2
  <2>. HIDE DEF Place, Rest
  <2>. QED
    BY <1>2, <1>3, <2>2, <2>3 DEF TypeOK
<1>4. ASSUME IsAt(t, Kinds),
             MovesTo(t, tx[t].at + 1) \/ MovesTo(t, Len(Programs[req[t]]) + 1) \/ Passes(t)
      PROVE  Place
  BY <1>4, PlaceFacts
<1>5. ASSUME SameData(t), SameRow(t), Goes(t) PROVE Rest /\ Rows
  BY <1>1, <1>5 DEF SameData, Data, SameRow, Goes
<1>. HIDE DEF Place
<1>6. CASE MissStep(t)
  <2>1. IsAt(t, Kinds) /\ (MovesTo(t, tx[t].at + 1) \/ MovesTo(t, Len(Programs[req[t]]) + 1))
    BY <1>6 DEF MissStep, IsAt, Kinds, Keywise
  <2>2. Place
    BY <2>1, <1>4
  <2>. QED
    BY <1>3, <1>5, <1>6, <2>2 DEF MissStep
<1>7. CASE SelectStep(t)
  <2>1. IsAt(t, Kinds) /\ MovesTo(t, tx[t].at + 1) /\ IsAt(t, Rowwise \cup {"select", "link"})
        /\ Current(t).does = "select" /\ tx'[t].row \in Matches(t)
    BY <1>7 DEF SelectStep, IsAt, Kinds
  <2>2. Place
    BY <2>1, <1>4
  <2>3. tx'[t].row \in Parent
    BY <2>1, MatchesFacts
  <2>4. Rest /\ Rows
    BY <1>1, <1>7, <2>3 DEF SelectStep, Goes, SameData, Data
  <2>. QED
    BY <1>3, <2>2, <2>4
<1>8. CASE ScanStep(t)
  <2>1. IsAt(t, Kinds) /\ tx'[t].at = tx[t].at /\ tx'[t].started = TRUE
        /\ tx'[t].todo \in Seq(DbRow \cup Key)
    BY <1>8 DEF ScanStep, IsAt, Kinds, Keywise
  <2>2. Place
    BY <2>1, CurrentFacts DEF Place, TypeOK
  <2>. QED
    BY <1>3, <1>5, <1>8, <2>2 DEF ScanStep
<1>9. CASE InsertStep(t)
  <2>1. IsAt(t, Kinds) /\ Passes(t) /\ Next1(t) \in Key /\ Goes(t) /\ SameRow(t)
        /\ Data(t, tx[t].ins \cup {Row(Next1(t), t)}, tx[t].del, tx[t].upd, tx[t].shr)
    BY <1>9 DEF InsertStep, IsAt, Kinds
  <2>2. Place
    BY <2>1, <1>4
  <2>3. Row(Next1(t), t) \in DbRow /\ IsFiniteSet(tx[t].ins \cup {Row(Next1(t), t)})
    <3>1. PICK x \in DbRow : x = Row(Next1(t), t)
      BY <2>1, RowFacts
    <3>. QED
      BY <1>1, <3>1, FS_AddElement
  <2>4. Rest /\ Rows
    BY <1>1, <2>1, <2>3 DEF Goes, Data, SameRow
  <2>. QED
    BY <1>3, <2>2, <2>4
<1>10. CASE PresentStep(t)
  <2>1. IsAt(t, Kinds) /\ Passes(t)
    BY <1>10 DEF PresentStep, IsAt, Kinds
  <2>2. Place
    BY <2>1, <1>4
  <2>. QED
    BY <1>3, <1>5, <1>10, <2>2 DEF PresentStep
<1>11. CASE TakeStep(t)
  <2>1. IsAt(t, Kinds) /\ MovesTo(t, tx[t].at + 1) /\ Goes(t) /\ SameRow(t)
        /\ Data(t, tx[t].ins, tx[t].del, tx[t].upd \cup (Named(t, Next1(t)) \cap db), tx[t].shr)
    BY <1>11 DEF TakeStep, IsAt, Kinds, OnceEach
  <2>2. Place
    BY <2>1, <1>4
  <2>3. Rest /\ Rows
    BY <1>1, <2>1 DEF Goes, Data, SameRow
  <2>. QED
    BY <1>3, <2>2, <2>3
<1>12. CASE UpdateStep(t)
  <2>1. IsAt(t, Kinds) /\ Passes(t) /\ Goes(t) /\ Next1(t) \in db
        /\ Next1(t) \in Parent /\ tx'[t].row = Next1(t)
        /\ Data(t, tx[t].ins, tx[t].del, tx[t].upd \cup {Next1(t)}, tx[t].shr)
    BY <1>12 DEF UpdateStep, IsAt, Kinds, Rowwise
  <2>2. Place
    BY <2>1, <1>4
  <2>3. Rest /\ Rows
    BY <1>1, <2>1 DEF Goes, Data
  <2>. QED
    BY <1>3, <2>2, <2>3
<1>13. CASE DeleteStep(t)
  <2>1. IsAt(t, Kinds) /\ Passes(t) /\ Goes(t) /\ SameRow(t)
        /\ Data(t, tx[t].ins \ {Next1(t)}, tx[t].del \cup ({Next1(t)} \cap db), tx[t].upd, tx[t].shr)
    BY <1>13 DEF DeleteStep, IsAt, Kinds, Rowwise
  <2>2. Place
    BY <2>1, <1>4
  <2>3. IsFiniteSet(tx[t].ins \ {Next1(t)})
    BY <1>1, FS_Subset
  <2>4. Rest /\ Rows
    BY <1>1, <2>1, <2>3 DEF Goes, Data, SameRow
  <2>. QED
    BY <1>3, <2>2, <2>4
<1>14. CASE ParentStep(t)
  <2>1. IsAt(t, Kinds) /\ MovesTo(t, tx[t].at + 1) /\ Goes(t) /\ SameRow(t)
    BY <1>14 DEF ParentStep, IsAt, Kinds
  <2>2. Place
    BY <2>1, <1>4
  <2>3. \/ SameData(t)
        \/ tx[t].row \in db /\ Data(t, tx[t].ins, tx[t].del, tx[t].upd, tx[t].shr \cup {tx[t].row})
    BY <1>14 DEF ParentStep
  <2>4. Rest /\ Rows
    BY <1>1, <2>1, <2>3 DEF Goes, SameData, Data, SameRow
  <2>. QED
    BY <1>3, <2>2, <2>4
<1>15. ASSUME Clears(t) PROVE Place
  <2>1. tx'[t].at = 1 /\ tx'[t].started = FALSE /\ tx'[t].todo = <<>>
    BY <1>15 DEF Clears, MovesTo
  <2>2. Len(Programs[req[t]]) \in Nat \ {0}
    BY CurrentFacts
  <2>3. tx'[t].at \in Nat \ {0} /\ tx'[t].at <= Len(Programs[req[t]]) + 1
    BY <2>1, <2>2
  <2>4. tx'[t].started \in BOOLEAN
    BY <2>1
  <2>5. tx'[t].todo \in Seq(DbRow \cup Key)
    BY <2>1
  <2>. QED
    BY <2>3, <2>4, <2>5 DEF Place
<1>16. CASE EndStep(t)
  <2>1. tx'[t].st \in {"open", "failed"} /\ tx'[t].try \in 1..Attempts
    BY <1>1, <1>16, AttemptsAssumption DEF EndStep, Again
  <2>2. Rest /\ Rows
    BY <1>1, <1>16, <2>1, RowFacts, FS_EmptySet DEF EndStep, Clears, Data
  <2>. QED
    BY <1>3, <1>15, <1>16, <2>2 DEF EndStep
<1>17. CASE CommitStep(t)
  <2>1. Rest
    BY <1>1, <1>17, RowFacts, FS_EmptySet DEF CommitStep, Clears, Data
  <2>2. Rows
    BY <1>17, VisibleFacts DEF CommitStep, Visible
  <2>. QED
    BY <1>3, <1>15, <1>17, <2>1, <2>2 DEF CommitStep
<1>. QED
  BY <1>6, <1>7, <1>8, <1>9, <1>10, <1>11, <1>12, <1>13, <1>14, <1>16, <1>17 DEF Steps

-----------------------------------------------------------------------------
(* Who wrote the rows, and what a statement has left to handle.            *)

\* The rows a transaction inserted are in the database when it is committed, and a
\* transaction that has ended holds nothing.
WritersOK ==
    /\ \A t \in Txs : \A x \in tx[t].ins : x.by = t
    /\ \A x \in db : x.by \in Txs => tx[x.by].st = "committed"
    /\ \A t \in Txs : tx[t].st # "open" =>
          tx[t].ins = {} /\ tx[t].del = {} /\ tx[t].upd = {} /\ tx[t].shr = {}

\* What a step changes: the rows and locks of the transaction that takes it, which
\* was open, and the database when it commits.
LEMMA OpenStep ==
  ASSUME NEW t \in Txs, Steps(t)
  PROVE  /\ tx[t].st = "open"
         /\ req' = req /\ \A u \in Txs \ {t} : tx'[u] = tx[u]
         /\ \/ tx'[t].st = "open" /\ db' = db
            \/ tx'[t].st \in {"failed", "committed"} /\ Clears(t)
BY DEF Steps, MissStep, SelectStep, ScanStep, InsertStep, PresentStep, TakeStep, UpdateStep,
       DeleteStep, ParentStep, EndStep, CommitStep, Goes

\* Every step keeps the writers of the rows.
LEMMA WritersStep ==
  ASSUME TypeOK, WritersOK, NEW t \in Txs, Steps(t)
  PROVE  WritersOK'
<1>1. tx[t].st = "open" /\ \A u \in Txs \ {t} : tx'[u] = tx[u]
  BY OpenStep
<1>2. \A x \in tx'[t].ins : x.by = t
  <2>1. \/ tx'[t].ins \subseteq tx[t].ins
        \/ InsertStep(t) /\ tx'[t].ins = tx[t].ins \cup {Row(Next1(t), t)}
    BY DEF Steps, MissStep, SelectStep, ScanStep, InsertStep, PresentStep, TakeStep, UpdateStep,
           DeleteStep, ParentStep, EndStep, CommitStep, SameData, Data, Clears
  <2>. QED
    BY <2>1 DEF WritersOK, Row
<1>3. \A u \in Txs : \A x \in tx'[u].ins : x.by = u
  BY <1>1, <1>2 DEF WritersOK
<1>4. \A u \in Txs : tx'[u].st # "open" =>
         tx'[u].ins = {} /\ tx'[u].del = {} /\ tx'[u].upd = {} /\ tx'[u].shr = {}
  BY <1>1, OpenStep DEF WritersOK, Clears, Data
<1>5. \A x \in db' : x.by \in Txs => tx'[x.by].st = "committed"
  <2>1. CASE CommitStep(t)
    <3>1. tx'[t].st = "committed" /\ db' \subseteq db \cup tx[t].ins
      BY <2>1 DEF CommitStep
    <3>. QED
      BY <1>1, <3>1 DEF WritersOK
  <2>2. CASE ~CommitStep(t)
    <3>1. db' = db
      BY <2>2 DEF Steps, MissStep, SelectStep, ScanStep, InsertStep, PresentStep, TakeStep,
                  UpdateStep, DeleteStep, ParentStep, EndStep, Goes
    <3>2. \A x \in db : x.by # t
      BY <1>1 DEF WritersOK
    <3>. QED
      BY <1>1, <3>1, <3>2 DEF WritersOK
  <2>. QED
    BY <2>1, <2>2
<1>. QED
  BY <1>3, <1>4, <1>5 DEF WritersOK

\* A transaction that takes no step is where it was.
LEMMA OthersStay ==
  ASSUME NEW u, tx'[u] = tx[u], req' = req
  PROVE  /\ AtEnd(u)' = AtEnd(u) /\ Current(u)' = Current(u) /\ Todo(u)' = Todo(u)
         /\ Pending(u)' = Pending(u)
         /\ \A K : During(u, K)' = During(u, K)
         /\ \A k : Bound(u, k)' = Bound(u, k)
BY DEF AtEnd, Current, Todo, Pending, During, Bound

\* Within a statement the list of a transaction gets shorter.
LEMMA ListGetsShorter ==
  ASSUME TypeOK, TodoOK, NEW t \in Txs, IsAt(t, Kinds), Passes(t), Len(Pending(t)) # 1
  PROVE  /\ Current(t).does \in Rowwise \cup Keywise
         /\ tx'[t].at = tx[t].at /\ tx'[t].started = TRUE /\ tx'[t].todo # <<>>
         /\ Seqs!ToSet(tx'[t].todo) \subseteq Seqs!ToSet(Pending(t))
         /\ Seqs!ToSet(Pending(t)) = {Next1(t)} \cup Seqs!ToSet(tx'[t].todo)
         /\ Len(Pending(t)) \in Nat /\ DOMAIN Pending(t) = 1..Len(Pending(t))
         /\ Next1(t) = Pending(t)[1]
         /\ DOMAIN tx'[t].todo = 1..(Len(Pending(t)) - 1)
         /\ \A i \in 1..(Len(Pending(t)) - 1) : tx'[t].todo[i] = Pending(t)[i + 1]
<1>1. /\ Pending(t) # <<>>
      /\ tx'[t].at = tx[t].at /\ tx'[t].started = TRUE /\ tx'[t].todo = Tail(Pending(t))
  BY DEF Passes
<1>2. Current(t).does \in Rowwise \cup Keywise /\ Pending(t) \in Seq(DbRow \cup Key)
  BY <1>1, CurrentFacts, PendingFacts DEF IsAt, Kinds
<1>. QED
  BY <1>1, <1>2, TailFacts, LenProperties DEF Next1

\* The rows or keys a statement that has begun still has to handle are selected by it.
LEMMA TodoRest ==
  ASSUME TypeOK, TodoOK, NEW t \in Txs, IsAt(t, Kinds), Passes(t), Goes(t), req' = req,
         tx[t].del \subseteq tx'[t].del, SameRow(t) \/ Current(t).does = "update",
         \A u \in Txs \ {t} : tx'[u] = tx[u]
  PROVE  TodoOf(t)'
<1>1. CASE Len(Pending(t)) = 1
  BY <1>1 DEF Passes, MovesTo, TodoOf, During
<1>2. CASE Len(Pending(t)) # 1
  <2>1. /\ Current(t).does \in Rowwise \cup Keywise
        /\ tx'[t].at = tx[t].at /\ tx'[t].started = TRUE /\ tx'[t].todo # <<>>
        /\ Todo(t)' \subseteq Seqs!ToSet(Pending(t))
    BY <1>2, ListGetsShorter DEF Todo
  <2>2. Current(t)' = Current(t) /\ AtEnd(t)' = AtEnd(t) /\ ~AtEnd(t) /\ Pending(t) # <<>>
    BY <2>1 DEF Current, AtEnd, IsAt, Passes
  <2>3. \A K : During(t, K)' = (Current(t).does \in K)
    BY <2>1, <2>2 DEF During
  <2>4. ASSUME Current(t).does \in Rowwise \cup {"link"}
        PROVE  During(t, {Current(t).does}) /\ Todo(t)' \subseteq Todo(t)
    BY <2>1, <2>2, <2>4, PendingFacts DEF Todo, During
  <2>5. tx'[t].st = "open"
    BY DEF Goes
  <2>6. ASSUME Current(t).does \in Rowwise, NEW x \in Todo(t)'
        PROVE  x \in DbRow /\ (x.by \in Txs \ {t} => tx'[x.by].st = "committed")
    BY <2>4, <2>6 DEF TodoOK, TodoOf, During
  <2>7. ASSUME Current(t).does \in {"update", "delete"}, NEW x \in Todo(t)'
        PROVE  \E w \in Current(t).on : <<x.key[1], x.key[2]>> = Bound(t, w)'
    <3>1. x \in Todo(t) /\ During(t, {"update", "delete"})
      BY <2>4, <2>7 DEF Rowwise, During
    <3>2. PICK w \in Current(t).on : <<x.key[1], x.key[2]>> = Bound(t, w)
      BY <3>1 DEF TodoOK, TodoOf
    <3>3. CASE SameRow(t)
      BY <3>2, <3>3 DEF SameRow, Bound
    <3>4. CASE Current(t).does = "update"
      <4>1. w \in Rooted
        BY <2>2, <3>4, CurrentFacts DEF WellFormed
      <4>2. w[1] \notin ChildTables
        BY <4>1 DEF Rooted, ChildTables
      <4>. QED
        BY <3>2, <4>2 DEF Bound
    <3>. QED
      BY <3>3, <3>4
  <2>8. ASSUME Current(t).does = "cascade", NEW x \in Todo(t)'
        PROVE  x.key[1] \in ChildTables /\ x.key[2] \in tx'[t].del
    <3>1. x \in Todo(t) /\ During(t, {"cascade"})
      BY <2>4, <2>8 DEF Rowwise, During
    <3>. QED
      BY <3>1 DEF TodoOK, TodoOf
  <2>9. ASSUME Current(t).does = "link", NEW k \in Todo(t)'
        PROVE  k \in Key /\ \E g \in Current(t).on : k = Bound(t, LinkKey(g))'
    <3>1. k \in Todo(t) /\ During(t, {"link"})
      BY <2>4, <2>9 DEF Rowwise, During
    <3>2. SameRow(t)
      BY <2>9
    <3>3. \A g : Bound(t, LinkKey(g))' = Bound(t, LinkKey(g))
      BY <3>2 DEF SameRow, Bound
    <3>. QED
      BY <3>1, <3>3 DEF TodoOK, TodoOf
  <2>10. ASSUME Current(t).does = "ensure"
         PROVE  /\ \A k \in Todo(t)' : \E i \in DOMAIN Current(t).on : k = Current(t).on[i]
                /\ \A i, j \in DOMAIN tx'[t].todo :
                      i < j => tx'[t].todo[i][2] < tx'[t].todo[j][2]
    <3>1. /\ \A k \in Seqs!ToSet(Pending(t)) : \E i \in DOMAIN Current(t).on : k = Current(t).on[i]
          /\ \A i, j \in DOMAIN Pending(t) : i < j => Pending(t)[i][2] < Pending(t)[j][2]
      BY <2>2, <2>10, PendingFacts
    <3>2. ASSUME NEW i \in DOMAIN tx'[t].todo, NEW j \in DOMAIN tx'[t].todo, i < j
          PROVE  tx'[t].todo[i][2] < tx'[t].todo[j][2]
      <4>1. /\ Len(Pending(t)) \in Nat /\ DOMAIN Pending(t) = 1..Len(Pending(t))
            /\ DOMAIN tx'[t].todo = 1..(Len(Pending(t)) - 1)
            /\ \A n \in 1..(Len(Pending(t)) - 1) : tx'[t].todo[n] = Pending(t)[n + 1]
        BY <1>2, ListGetsShorter
      <4>2. i + 1 \in DOMAIN Pending(t) /\ j + 1 \in DOMAIN Pending(t) /\ i + 1 < j + 1
        BY <3>2, <4>1
      <4>3. Pending(t)[i + 1][2] < Pending(t)[j + 1][2]
        BY <3>1, <4>2
      <4>. QED
        BY <4>1, <4>3
    <3>. QED
      BY <2>1, <3>1, <3>2
  <2>11. /\ ~tx'[t].started => tx'[t].todo = <<>>
         /\ tx'[t].started =>
               /\ tx'[t].st = "open" /\ ~AtEnd(t)' /\ tx'[t].todo # <<>>
               /\ Current(t)'.does \in Rowwise \cup Keywise
    BY <2>1, <2>2, <2>5
  <2>12. During(t, Rowwise)' =>
           \A x \in Todo(t)' : x \in DbRow /\ (x.by \in Txs \ {t} => tx'[x.by].st = "committed")
    BY <2>3, <2>6
  <2>13. During(t, {"update", "delete"})' =>
           \A x \in Todo(t)' : \E w \in Current(t)'.on : <<x.key[1], x.key[2]>> = Bound(t, w)'
    BY <2>2, <2>3, <2>7
  <2>14. During(t, {"cascade"})' =>
           \A x \in Todo(t)' : x.key[1] \in ChildTables /\ x.key[2] \in tx'[t].del
    BY <2>3, <2>8
  <2>15. During(t, {"link"})' =>
           \A k \in Todo(t)' : k \in Key /\ \E g \in Current(t)'.on : k = Bound(t, LinkKey(g))'
    BY <2>2, <2>3, <2>9
  <2>16. During(t, {"ensure"})' =>
           /\ \A k \in Todo(t)' : \E i \in DOMAIN Current(t)'.on : k = Current(t)'.on[i]
           /\ \A i, j \in DOMAIN tx'[t].todo :
                 i < j => tx'[t].todo[i][2] < tx'[t].todo[j][2]
    BY <2>2, <2>3, <2>10
  <2>. QED
    BY <2>11, <2>12, <2>13, <2>14, <2>15, <2>16 DEF TodoOf
<1>. QED
  BY <1>1, <1>2

\* Every step keeps the lists of rows and keys to handle.
LEMMA TodoStep ==
  ASSUME TypeOK, TodoOK, WritersOK, NEW t \in Txs, Steps(t)
  PROVE  TodoOK'
<1>1. tx[t].st = "open" /\ req' = req /\ \A u \in Txs \ {t} : tx'[u] = tx[u]
  BY OpenStep
<1>2. ASSUME NEW u \in Txs \ {t} PROVE TodoOf(u)'
  <2>1. tx'[u] = tx[u]
    BY <1>1
  <2>2. /\ AtEnd(u)' = AtEnd(u) /\ Current(u)' = Current(u) /\ Todo(u)' = Todo(u)
        /\ \A K : During(u, K)' = During(u, K)
        /\ \A k : Bound(u, k)' = Bound(u, k)
    BY <1>1, <2>1, OthersStay
  <2>3. TodoOf(u)
    BY DEF TodoOK
  <2>4. \A v \in Txs : tx[v].st = "committed" => tx'[v].st = "committed"
    BY <1>1
  <2>. QED
    BY <2>1, <2>2, <2>3, <2>4 DEF TodoOf
<1>3. ASSUME NEW n, MovesTo(t, n) PROVE TodoOf(t)'
  BY <1>3 DEF MovesTo, TodoOf, During
<1>4. ASSUME ScanStep(t) PROVE TodoOf(t)'
  <2>1. /\ IsAt(t, Rowwise \cup {"link"}) /\ tx'[t].at = tx[t].at /\ tx'[t].started = TRUE
        /\ tx'[t].todo # <<>> /\ Todo(t)' = Matches(t) /\ tx'[t].row = tx[t].row
        /\ tx'[t].st = "open" /\ tx'[t].del = tx[t].del
    BY <1>4 DEF ScanStep, Todo, SameRow, SameData, Data, Goes
  <2>2. /\ Current(t)' = Current(t) /\ AtEnd(t)' = AtEnd(t) /\ ~AtEnd(t)
        /\ \A k : Bound(t, k)' = Bound(t, k)
        /\ \A K : During(t, K)' = (Current(t).does \in K)
        /\ IsAt(t, Rowwise \cup {"select", "link"})
    BY <1>1, <2>1 DEF Current, AtEnd, Bound, During, IsAt
  <2>3. Current(t).does \in Rowwise \cup {"link"}
    BY <2>1 DEF IsAt
  <2>4. ASSUME Current(t).does \in Rowwise, NEW x \in Matches(t)
        PROVE  x \in DbRow /\ (x.by \in Txs \ {t} => tx'[x.by].st = "committed")
    <3>1. x \in Visible(t)
      BY <2>2, <2>4, MatchesFacts DEF Rowwise
    <3>2. x \in DbRow /\ x \in db \cup tx[t].ins
      BY <3>1, VisibleFacts DEF Visible
    <3>. QED
      BY <1>1, <3>2 DEF WritersOK
  <2>5. ASSUME Current(t).does \in {"update", "delete"}, NEW x \in Matches(t)
        PROVE  \E w \in Current(t).on : <<x.key[1], x.key[2]>> = Bound(t, w)'
    <3>1. PICK w \in Current(t).on : <<x.key[1], x.key[2]>> = Bound(t, w)
      <4>1. x \in Visible(t)
        BY <2>2, <2>5, MatchesFacts
      <4>. QED
        BY <2>2, <2>5, <4>1, MatchesFacts
    <3>2. Bound(t, w)' = Bound(t, w)
      BY <2>1 DEF Bound
    <3>. QED
      BY <3>1, <3>2
  <2>6. ASSUME Current(t).does = "cascade", NEW x \in Matches(t)
        PROVE  x.key[1] \in ChildTables /\ x.key[2] \in tx[t].del
    BY <2>2, <2>6, MatchesFacts
  <2>7. ASSUME Current(t).does = "link", NEW k \in Matches(t)
        PROVE  k \in Key /\ \E g \in Current(t).on : k = Bound(t, LinkKey(g))'
    <3>1. k \in Key
      BY <2>2, <2>7, MatchesFacts
    <3>2. PICK g \in Current(t).on : k = Bound(t, LinkKey(g))
      BY <2>2, <2>7, MatchesFacts
    <3>3. Bound(t, LinkKey(g))' = Bound(t, LinkKey(g))
      BY <2>1 DEF Bound
    <3>. QED
      BY <3>1, <3>2, <3>3
  <2>8. Current(t).does # "ensure"
    BY <2>3 DEF Rowwise
  <2>9. /\ ~tx'[t].started => tx'[t].todo = <<>>
        /\ tx'[t].started =>
              /\ tx'[t].st = "open" /\ ~AtEnd(t)' /\ tx'[t].todo # <<>>
              /\ Current(t)'.does \in Rowwise \cup Keywise
    BY <2>1, <2>2, <2>3 DEF Keywise
  <2>10. During(t, Rowwise)' =>
           \A x \in Todo(t)' : x \in DbRow /\ (x.by \in Txs \ {t} => tx'[x.by].st = "committed")
    BY <2>1, <2>2, <2>4
  <2>11. During(t, {"update", "delete"})' =>
           \A x \in Todo(t)' : \E w \in Current(t)'.on : <<x.key[1], x.key[2]>> = Bound(t, w)'
    BY <2>1, <2>2, <2>5
  <2>12. During(t, {"cascade"})' =>
           \A x \in Todo(t)' : x.key[1] \in ChildTables /\ x.key[2] \in tx'[t].del
    BY <2>1, <2>2, <2>6
  <2>13. During(t, {"link"})' =>
           \A k \in Todo(t)' : k \in Key /\ \E g \in Current(t)'.on : k = Bound(t, LinkKey(g))'
    BY <2>1, <2>2, <2>7
  <2>14. ~During(t, {"ensure"})'
    BY <2>2, <2>8
  <2>. QED
    BY <2>9, <2>10, <2>11, <2>12, <2>13, <2>14 DEF TodoOf
<1>5. ASSUME IsAt(t, Kinds), Passes(t), Goes(t), tx[t].del \subseteq tx'[t].del,
             SameRow(t) \/ Current(t).does = "update"
      PROVE  TodoOf(t)'
  BY <1>1, <1>5, TodoRest
<1>6. ASSUME InsertStep(t) PROVE TodoOf(t)'
  BY <1>5, <1>6 DEF InsertStep, Data, IsAt, Kinds
<1>7. ASSUME PresentStep(t) PROVE TodoOf(t)'
  BY <1>5, <1>7 DEF PresentStep, SameData, Data, IsAt, Kinds
<1>8. ASSUME UpdateStep(t) PROVE TodoOf(t)'
  BY <1>5, <1>8 DEF UpdateStep, Data, IsAt, Kinds, Rowwise
<1>9. ASSUME DeleteStep(t) PROVE TodoOf(t)'
  BY <1>5, <1>9 DEF DeleteStep, Data, IsAt, Kinds, Rowwise
<1>10. ASSUME \/ MissStep(t) \/ SelectStep(t) \/ TakeStep(t)
              \/ ParentStep(t) \/ EndStep(t) \/ CommitStep(t)
       PROVE  TodoOf(t)'
  BY <1>3, <1>10 DEF MissStep, SelectStep, TakeStep, ParentStep, EndStep, CommitStep, Clears
<1>11. TodoOf(t)'
  BY <1>4, <1>6, <1>7, <1>8, <1>9, <1>10 DEF Steps
<1>. QED
  BY <1>2, <1>11 DEF TodoOK

-----------------------------------------------------------------------------
(* Locks and keys.                                                         *)

Locked(t) == tx[t].del \cup tx[t].upd \cup tx[t].shr

\* What is locked is in the database.  A row that one transaction updates no other
\* one updates, and a row that one deletes no other one updates, deletes or keeps.
LocksExclude ==
    /\ \A t \in Txs : Locked(t) \subseteq db
    /\ \A t, u \in Txs : t # u =>
          tx[t].upd \cap tx[u].upd = {} /\ tx[t].del \cap Locked(u) = {}

\* The tables with a unique key: all but that of the descriptions.
Keyed(x) == x.key[1] # "image_descriptions"

\* No two rows have the same key.  A transaction that inserts a row where one is
\* deletes that one, and no two transactions insert rows of the same key.
KeysUnique ==
    /\ \A x, y \in db : Keyed(x) /\ x.key = y.key => x = y
    /\ \A t \in Txs : \A x \in tx[t].ins, y \in db :
          Keyed(x) /\ x.key = y.key => y \in tx[t].del
    /\ \A t, u \in Txs : t # u =>
          \A x \in tx[t].ins, y \in tx[u].ins : Keyed(x) => x.key # y.key

\* What a step does to the rows that are inserted and to the locks.
LEMMA Changes ==
  ASSUME TypeOK, TodoOK, NEW t \in Txs, Steps(t)
  PROVE  \/ CommitStep(t)
         \/ db' = db /\ (Clears(t) \/ SameData(t))
         \/ InsertStep(t)
         \/ /\ db' = db
            /\ \E R \in SUBSET db :
                  /\ \A x \in R, u \in Txs \ {t} : x \notin tx[u].del \cup tx[u].upd
                  /\ Data(t, tx[t].ins, tx[t].del, tx[t].upd \cup R, tx[t].shr)
         \/ DeleteStep(t)
         \/ /\ db' = db /\ tx[t].row \in db
            /\ \A u \in Txs \ {t} : tx[t].row \notin tx[u].del
            /\ Data(t, tx[t].ins, tx[t].del, tx[t].upd, tx[t].shr \cup {tx[t].row})
<1>1. CASE MissStep(t) \/ SelectStep(t) \/ ScanStep(t) \/ PresentStep(t)
  BY <1>1 DEF MissStep, SelectStep, ScanStep, PresentStep, Goes
<1>2. CASE EndStep(t)
  BY <1>2 DEF EndStep
<1>3. CASE ParentStep(t)
  BY <1>3 DEF ParentStep, Goes
<1>4. CASE TakeStep(t)
  <2>1. PICK R : R = Named(t, Next1(t)) \cap db
    OBVIOUS
  <2>2. \A x \in R, u \in Txs \ {t} : x \notin tx[u].del \cup tx[u].upd
    BY <1>4, <2>1 DEF TakeStep, Free, Named
  <2>3. Data(t, tx[t].ins, tx[t].del, tx[t].upd \cup R, tx[t].shr) /\ db' = db /\ R \in SUBSET db
    BY <1>4, <2>1 DEF TakeStep, Goes
  <2>. QED
    BY <2>2, <2>3
<1>5. CASE UpdateStep(t)
  <2>1. PICK R : R = {Next1(t)}
    OBVIOUS
  <2>2. \A x \in R, u \in Txs \ {t} : x \notin tx[u].del \cup tx[u].upd
    BY <1>5, <2>1 DEF UpdateStep
  <2>3. Data(t, tx[t].ins, tx[t].del, tx[t].upd \cup R, tx[t].shr) /\ db' = db /\ R \in SUBSET db
    BY <1>5, <2>1 DEF UpdateStep, Goes
  <2>. QED
    BY <2>2, <2>3
<1>. QED
  BY <1>1, <1>2, <1>3, <1>4, <1>5 DEF Steps

\* Every step keeps the row locks exclusive.
LEMMA LocksStep ==
  ASSUME TypeOK, TodoOK, LocksExclude, NEW t \in Txs, Steps(t)
  PROVE  LocksExclude'
<1>1. \A u \in Txs \ {t} : tx'[u] = tx[u]
  BY OpenStep
<1>2. \A u \in Txs \ {t} : Locked(u)' = Locked(u)
  BY <1>1 DEF Locked
<1>3. ASSUME \A u \in Txs : Locked(u)' \subseteq db',
             \A u \in Txs \ {t} : /\ tx'[t].upd \cap tx[u].upd = {}
                                  /\ tx'[t].del \cap Locked(u) = {}
                                  /\ tx[u].del \cap Locked(t)' = {}
      PROVE  LocksExclude'
  BY <1>1, <1>2, <1>3 DEF LocksExclude
<1>4. CASE CommitStep(t)
  <2>1. tx'[t].del = {} /\ tx'[t].upd = {} /\ Locked(t)' = {}
    BY <1>4 DEF CommitStep, Clears, Data, Locked
  <2>2. \A u \in Txs \ {t} : Locked(u) \subseteq db'
    BY <1>4 DEF LocksExclude, CommitStep
  <2>. QED
    BY <1>2, <1>3, <2>1, <2>2
<1>5. CASE db' = db /\ Clears(t)
  <2>1. tx'[t].del = {} /\ tx'[t].upd = {} /\ Locked(t)' = {}
    BY <1>5 DEF Clears, Data, Locked
  <2>. QED
    BY <1>2, <1>3, <1>5, <2>1 DEF LocksExclude
<1>6. CASE (db' = db /\ SameData(t)) \/ InsertStep(t)
  <2>1. tx'[t].del = tx[t].del /\ tx'[t].upd = tx[t].upd /\ Locked(t)' = Locked(t) /\ db' = db
    BY <1>6 DEF SameData, Data, Locked, InsertStep, Goes
  <2>. QED
    BY <1>2, <1>3, <2>1 DEF LocksExclude
<1>7. ASSUME db' = db, NEW R \in SUBSET db,
             \A x \in R, u \in Txs \ {t} : x \notin tx[u].del \cup tx[u].upd,
             Data(t, tx[t].ins, tx[t].del, tx[t].upd \cup R, tx[t].shr)
      PROVE  LocksExclude'
  <2>1. /\ tx'[t].del = tx[t].del /\ tx'[t].upd = tx[t].upd \cup R
        /\ Locked(t)' = Locked(t) \cup R
    BY <1>7 DEF Data, Locked
  <2>. QED
    BY <1>2, <1>3, <1>7, <2>1 DEF LocksExclude
<1>8. CASE DeleteStep(t)
  <2>1. PICK R : R = {Next1(t)} \cap db
    OBVIOUS
  <2>2. \A u \in Txs \ {t} : R \cap Locked(u) = {}
    BY <1>8, <2>1 DEF DeleteStep, Locked
  <2>3. /\ tx'[t].del = tx[t].del \cup R /\ tx'[t].upd = tx[t].upd
        /\ Locked(t)' = Locked(t) \cup R /\ db' = db /\ R \subseteq db
    BY <1>8, <2>1 DEF DeleteStep, Data, Locked, Goes
  <2>4. \A u \in Txs \ {t} : tx[u].del \subseteq Locked(u)
    BY DEF Locked
  <2>. QED
    BY <1>2, <1>3, <2>2, <2>3, <2>4 DEF LocksExclude
<1>9. CASE /\ db' = db /\ tx[t].row \in db
           /\ \A u \in Txs \ {t} : tx[t].row \notin tx[u].del
           /\ Data(t, tx[t].ins, tx[t].del, tx[t].upd, tx[t].shr \cup {tx[t].row})
  <2>1. /\ tx'[t].del = tx[t].del /\ tx'[t].upd = tx[t].upd
        /\ Locked(t)' = Locked(t) \cup {tx[t].row}
    BY <1>9 DEF Data, Locked
  <2>. QED
    BY <1>2, <1>3, <1>9, <2>1 DEF LocksExclude
<1>. QED
  BY <1>4, <1>5, <1>6, <1>7, <1>8, <1>9, Changes

\* A row that is inserted with a key that is one row's has no other row beside it.
LEMMA InsertsAreFree ==
  ASSUME TypeOK, TodoOK, NEW t \in Txs, InsertStep(t)
  PROVE  /\ Next1(t) \in Key
         /\ Keyed(Row(Next1(t), t)) => Named(t, Next1(t)) = {} /\ Free(t, Next1(t))
<1>1. CASE Current(t).does = "append"
  <2>1. Next1(t) = Bound(t, DescriptionKey)
    BY <1>1, PendingFacts DEF InsertStep, Passes, IsAt, Kinds, Next1
  <2>2. DescriptionKey \in WrittenKey /\ DescriptionKey[1] = "image_descriptions"
        /\ "image_descriptions" \in ChildTables
    BY DEF DescriptionKey, WrittenKey, ChildKeyOf, ChildTables
  <2>3. Next1(t)[1] = "image_descriptions"
    BY <2>1, <2>2, BoundFacts
  <2>4. ~Keyed(Row(Next1(t), t))
    BY <2>3 DEF Keyed, Row
  <2>. QED
    BY <2>4 DEF InsertStep
<1>2. CASE Current(t).does # "append"
  BY <1>2 DEF InsertStep
<1>. QED
  BY <1>1, <1>2

\* Every step keeps the keys unique: an insert waits for whoever holds the key.
LEMMA KeysStep ==
  ASSUME TypeOK, TodoOK, WritersOK, LocksExclude, KeysUnique, NEW t \in Txs, Steps(t)
  PROVE  KeysUnique'
<1>1. \A u \in Txs \ {t} : tx'[u] = tx[u]
  BY OpenStep
<1>2. ASSUME \A x, y \in db' : Keyed(x) /\ x.key = y.key => x = y,
             \A u \in Txs : \A x \in tx'[u].ins, y \in db' :
                 Keyed(x) /\ x.key = y.key => y \in tx'[u].del,
             \A u \in Txs \ {t} : \A x \in tx'[t].ins, y \in tx[u].ins :
                 Keyed(x) \/ Keyed(y) => x.key # y.key
      PROVE  KeysUnique'
  <2>1. \A v, u \in Txs : v # u =>
           \A x \in tx'[v].ins, y \in tx'[u].ins : Keyed(x) => x.key # y.key
    BY <1>1, <1>2 DEF KeysUnique
  <2>. QED
    BY <1>2, <2>1 DEF KeysUnique, Keyed
<1>3. CASE CommitStep(t)
  <2>1. tx'[t].ins = {} /\ tx'[t].del = {} /\ db' = (db \ tx[t].del) \cup tx[t].ins
    BY <1>3 DEF CommitStep, Clears, Data
  <2>2. \A x, y \in tx[t].ins : x.key = y.key => x = y
    <3>1. \A x \in tx[t].ins : x \in DbRow /\ x.by = t
      BY DEF TypeOK, TxRecord, WritersOK
    <3>2. \A x \in tx[t].ins : x = Row(x.key, t)
      BY <3>1, RowFacts
    <3>. QED
      BY <3>2
  <2>3. \A x, y \in db' : Keyed(x) /\ x.key = y.key => x = y
    BY <2>1, <2>2 DEF KeysUnique, Keyed
  <2>4. ASSUME NEW u \in Txs \ {t}, NEW x \in tx[u].ins, NEW y \in db', Keyed(x), x.key = y.key
        PROVE  y \in tx[u].del
    BY <2>1, <2>4 DEF KeysUnique, Keyed
  <2>. QED
    BY <1>1, <1>2, <2>1, <2>3, <2>4
<1>4. ASSUME db' = db, tx'[t].ins \subseteq tx[t].ins,
             tx[t].del \subseteq tx'[t].del \/ tx'[t].ins = {}
      PROVE  KeysUnique'
  <2>1. \A u \in Txs : \A x \in tx'[u].ins, y \in db' :
            Keyed(x) /\ x.key = y.key => y \in tx'[u].del
    BY <1>1, <1>4 DEF KeysUnique
  <2>2. \A u \in Txs \ {t} : \A x \in tx'[t].ins, y \in tx[u].ins :
            Keyed(x) \/ Keyed(y) => x.key # y.key
    BY <1>4 DEF KeysUnique, Keyed
  <2>. QED
    BY <1>2, <1>4, <2>1, <2>2 DEF KeysUnique
<1>5. CASE InsertStep(t)
  <2>1. /\ tx'[t].ins = tx[t].ins \cup {Row(Next1(t), t)} /\ tx'[t].del = tx[t].del /\ db' = db
    BY <1>5 DEF InsertStep, Data, Goes
  <2>2. Keyed(Row(Next1(t), t)) => Named(t, Next1(t)) = {} /\ Free(t, Next1(t))
    BY <1>5, InsertsAreFree
  <2>3. Row(Next1(t), t).key = Next1(t)
    BY DEF Row
  <2>4. ASSUME NEW y \in db, Keyed(Row(Next1(t), t)), Next1(t) = y.key
        PROVE  y \in tx[t].del
    BY <2>2, <2>4 DEF Named, Visible
  <2>5. ASSUME NEW u \in Txs \ {t}, NEW y \in tx[u].ins,
               Keyed(Row(Next1(t), t)) \/ Keyed(y)
        PROVE  Next1(t) # y.key
    BY <2>2, <2>3, <2>5 DEF Free, Keyed
  <2>6. \A u \in Txs : \A x \in tx'[u].ins, y \in db' :
            Keyed(x) /\ x.key = y.key => y \in tx'[u].del
    BY <1>1, <2>1, <2>3, <2>4 DEF KeysUnique
  <2>7. \A u \in Txs \ {t} : \A x \in tx'[t].ins, y \in tx[u].ins :
            Keyed(x) \/ Keyed(y) => x.key # y.key
    BY <2>1, <2>3, <2>5 DEF KeysUnique, Keyed
  <2>. QED
    BY <1>2, <2>1, <2>6, <2>7 DEF KeysUnique
<1>6. CASE DeleteStep(t)
  BY <1>4, <1>6 DEF DeleteStep, Data, Goes
<1>7. CASE db' = db /\ (Clears(t) \/ SameData(t))
  BY <1>4, <1>7 DEF Clears, SameData, Data
<1>8. ASSUME db' = db, NEW u, NEW s, Data(t, tx[t].ins, tx[t].del, u, s)
      PROVE  KeysUnique'
  BY <1>4, <1>8 DEF Data
<1>. QED
  BY <1>3, <1>5, <1>6, <1>7, <1>8, Changes

\* Two transactions never hold rows of the same key.
LEMMA OneHolder ==
  ASSUME LocksExclude, KeysUnique, NEW t \in Txs, NEW u \in Txs, t # u,
         NEW x \in tx[t].ins \cup tx[t].upd, NEW y \in tx[u].ins \cup tx[u].upd, Keyed(x)
  PROVE  x.key # y.key
<1>1. SUFFICES ASSUME x.key = y.key PROVE FALSE
  OBVIOUS
<1>2. Keyed(y)
  BY <1>1 DEF Keyed
<1>3. tx[t].upd \subseteq db /\ tx[u].upd \subseteq db
      /\ tx[t].upd \cap tx[u].upd = {} /\ tx[t].del \cap tx[u].upd = {}
      /\ tx[u].del \cap tx[t].upd = {}
  BY DEF LocksExclude, Locked
<1>4. CASE x \in tx[t].ins /\ y \in tx[u].ins
  BY <1>1, <1>4 DEF KeysUnique
<1>5. CASE x \in tx[t].ins /\ y \in tx[u].upd
  BY <1>1, <1>3, <1>5 DEF KeysUnique
<1>6. CASE x \in tx[t].upd /\ y \in tx[u].ins
  BY <1>1, <1>2, <1>3, <1>6 DEF KeysUnique
<1>7. CASE x \in tx[t].upd /\ y \in tx[u].upd
  BY <1>1, <1>3, <1>7 DEF KeysUnique
<1>. QED
  BY <1>4, <1>5, <1>6, <1>7

-----------------------------------------------------------------------------
(* A statement that deletes takes all rows of a group.                     *)

\* Two rows of one owner in one table, from one call.
Together(x, y) == x.key[1] = y.key[1] /\ x.key[2] = y.key[2] /\ x.by = y.by
Doomed(t) == tx[t].del \cup (IF During(t, {"delete", "cascade"}) THEN Todo(t) ELSE {})

\* A transaction that deletes one of them deletes the other one too.
DeletesGroups ==
    \A t \in Txs : \A x, y \in db : Together(x, y) /\ x \in Doomed(t) => y \in Doomed(t)

\* How the rows a transaction deletes, or is about to, change in its step.
LEMMA DoomedStep ==
  ASSUME TypeOK, TodoOK, NEW t \in Txs, Steps(t)
  PROVE  \/ Doomed(t)' = {}
         \/ Doomed(t)' = Doomed(t)
         \/ ScanStep(t) /\ Current(t).does \in {"delete", "cascade"}
            /\ Doomed(t) = tx[t].del /\ Doomed(t)' = tx[t].del \cup Matches(t)
         \/ db' = db /\ Doomed(t)' \cap db = Doomed(t) \cap db
<1>1. CASE EndStep(t) \/ CommitStep(t)
  <2>1. tx'[t].del = {} /\ tx'[t].started = FALSE
    BY <1>1 DEF EndStep, CommitStep, Clears, Data, MovesTo
  <2>. QED
    BY <2>1 DEF Doomed, During
<1>2. CASE MissStep(t) \/ SelectStep(t) \/ TakeStep(t) \/ ParentStep(t)
  <2>1. tx'[t].del = tx[t].del /\ tx'[t].started = FALSE
    BY <1>2 DEF MissStep, SelectStep, TakeStep, ParentStep, SameData, Data, MovesTo
  <2>2. ~During(t, {"delete", "cascade"})
    BY <1>2 DEF MissStep, SelectStep, TakeStep, ParentStep, During, IsAt
  <2>3. ~During(t, {"delete", "cascade"})'
    BY <2>1 DEF During
  <2>. QED
    BY <2>1, <2>2, <2>3 DEF Doomed
<1>3. CASE InsertStep(t) \/ PresentStep(t) \/ UpdateStep(t)
  <2>1. tx'[t].del = tx[t].del /\ Passes(t) /\ req' = req /\ Current(t).does \notin {"delete", "cascade"}
    BY <1>3 DEF InsertStep, PresentStep, UpdateStep, SameData, Data, IsAt, OnceEach, Keywise, Steps
  <2>2. tx'[t].started => Current(t)' = Current(t)
    BY <2>1 DEF Passes, MovesTo, Current
  <2>3. ~During(t, {"delete", "cascade"}) /\ ~During(t, {"delete", "cascade"})'
    BY <2>1, <2>2 DEF During
  <2>. QED
    BY <2>1, <2>3 DEF Doomed
<1>4. CASE ScanStep(t)
  <2>1. /\ tx'[t].del = tx[t].del /\ tx'[t].at = tx[t].at /\ tx'[t].started = TRUE
        /\ Todo(t)' = Matches(t) /\ ~tx[t].started /\ req' = req
    BY <1>4 DEF ScanStep, SameData, Data, Todo, Steps
  <2>2. Current(t)' = Current(t)
    BY <2>1 DEF Current
  <2>3. Doomed(t) = tx[t].del
    BY <2>1 DEF Doomed, During
  <2>4. CASE Current(t).does \in {"delete", "cascade"}
    <3>1. Doomed(t)' = tx[t].del \cup Matches(t)
      BY <2>1, <2>2, <2>4 DEF Doomed, During
    <3>. QED
      BY <1>4, <2>3, <2>4, <3>1
  <2>5. CASE Current(t).does \notin {"delete", "cascade"}
    <3>1. Doomed(t)' = tx[t].del
      BY <2>1, <2>2, <2>5 DEF Doomed, During
    <3>. QED
      BY <2>3, <3>1
  <2>. QED
    BY <2>4, <2>5
<1>5. CASE DeleteStep(t)
  <2>1. /\ IsAt(t, Kinds) /\ Passes(t) /\ tx[t].started /\ db' = db /\ req' = req
        /\ Current(t).does \in {"delete", "cascade"}
        /\ tx'[t].del = tx[t].del \cup ({Next1(t)} \cap db)
    BY <1>5 DEF DeleteStep, IsAt, Data, Goes, Kinds, Rowwise, Steps
  <2>2. Doomed(t) = tx[t].del \cup Todo(t)
    BY <2>1 DEF Doomed, During
  <2>3. Pending(t) = tx[t].todo /\ tx[t].todo \in Seq(DbRow \cup Key) /\ tx[t].todo # <<>>
    BY <2>1 DEF Pending, TypeOK, TxRecord, Passes
  <2>4. CASE Len(Pending(t)) = 1
    <3>1. Todo(t) = {Next1(t)}
      BY <2>3, <2>4, TailFacts DEF Todo, Next1
    <3>2. tx'[t].started = FALSE
      BY <2>1, <2>4 DEF Passes, MovesTo
    <3>3. Doomed(t)' = tx'[t].del
      BY <3>2 DEF Doomed, During
    <3>. QED
      BY <2>1, <2>2, <3>1, <3>3
  <2>5. CASE Len(Pending(t)) # 1
    <3>1. tx'[t].at = tx[t].at /\ tx'[t].started = TRUE /\ Todo(t) = {Next1(t)} \cup Todo(t)'
      BY <2>1, <2>3, <2>5, ListGetsShorter DEF Todo
    <3>2. Doomed(t)' = tx'[t].del \cup Todo(t)'
      BY <2>1, <3>1 DEF Doomed, During, Current
    <3>. QED
      BY <2>1, <2>2, <3>1, <3>2
  <2>. QED
    BY <2>4, <2>5
<1>. QED
  BY <1>1, <1>2, <1>3, <1>4, <1>5 DEF Steps

\* The rows a transaction deletes are not those of one that is open.
LEMMA DoomedIsCommitted ==
  ASSUME TodoOK, WritersOK, LocksExclude, NEW t \in Txs, NEW x \in Doomed(t), NEW u \in Txs \ {t},
         tx[u].st = "open"
  PROVE  x.by # u
<1>1. CASE x \in tx[t].del
  BY <1>1 DEF LocksExclude, Locked, WritersOK
<1>2. CASE During(t, {"delete", "cascade"}) /\ x \in Todo(t)
  <2>1. During(t, Rowwise)
    BY <1>2 DEF During, Rowwise
  <2>. QED
    BY <1>2, <2>1 DEF TodoOK, TodoOf
<1>. QED
  BY <1>1, <1>2 DEF Doomed

\* Every step keeps whole what a delete takes together.
LEMMA GroupsStep ==
  ASSUME TypeOK, TodoOK, WritersOK, LocksExclude, DeletesGroups, NEW t \in Txs, Steps(t)
  PROVE  DeletesGroups'
<1>1. tx[t].st = "open" /\ req' = req /\ \A u \in Txs \ {t} : tx'[u] = tx[u]
  BY OpenStep
<1>2. \A u \in Txs \ {t} : Doomed(u)' = Doomed(u)
  <2>1. SUFFICES ASSUME NEW u \in Txs \ {t} PROVE Doomed(u)' = Doomed(u)
    OBVIOUS
  <2>2. tx'[u] = tx[u]
    BY <1>1
  <2>3. Todo(u)' = Todo(u) /\ During(u, {"delete", "cascade"})' = During(u, {"delete", "cascade"})
    BY <1>1, <2>2, OthersStay
  <2>. QED
    BY <2>2, <2>3 DEF Doomed
<1>3. ASSUME NEW u \in Txs, NEW x \in db', NEW y \in db', Together(x, y), x \in Doomed(u)'
      PROVE  y \in Doomed(u)'
  <2>1. CASE u # t
    <3>1. x \in Doomed(u)
      BY <1>2, <1>3, <2>1
    <3>2. x.by # t /\ y.by # t
      BY <1>1, <1>3, <2>1, <3>1, DoomedIsCommitted DEF Together
    <3>3. db' = db \/ db' = (db \ tx[t].del) \cup tx[t].ins
      BY OpenStep DEF Steps, MissStep, SelectStep, ScanStep, InsertStep, PresentStep, TakeStep,
                      UpdateStep, DeleteStep, ParentStep, EndStep, CommitStep, Goes
    <3>4. x \in db /\ y \in db
      BY <1>3, <3>2, <3>3 DEF WritersOK
    <3>. QED
      BY <1>2, <1>3, <2>1, <3>1, <3>4 DEF DeletesGroups
  <2>2. CASE u = t
    <3>1. Doomed(t)' # {} => db' = db
      BY OpenStep DEF Clears, Data, MovesTo, Doomed, During
    <3>2. db' = db
      BY <1>3, <2>2, <3>1
    <3>3. CASE Doomed(t)' = Doomed(t) \/ (Doomed(t)' \cap db = Doomed(t) \cap db)
      BY <1>3, <2>2, <3>2, <3>3 DEF DeletesGroups
    <3>4. CASE /\ ScanStep(t) /\ Current(t).does \in {"delete", "cascade"}
               /\ Doomed(t) = tx[t].del /\ Doomed(t)' = tx[t].del \cup Matches(t)
      <4>1. CASE x \in tx[t].del
        BY <1>3, <2>2, <3>2, <3>4, <4>1 DEF DeletesGroups
      <4>2. CASE x \in Matches(t)
        <5>1. IsAt(t, Rowwise \cup {"select", "link"})
          BY <3>4 DEF ScanStep, IsAt
        <5>2. CASE y \in tx[t].del
          BY <2>2, <3>4, <5>2
        <5>3. CASE y \notin tx[t].del
          <6>1. y \in Visible(t) /\ x \in Visible(t)
            BY <1>3, <3>2, <3>4, <4>2, <5>1, <5>3, MatchesFacts DEF Visible
          <6>2. CASE Current(t).does = "delete"
            <7>1. PICK w \in Current(t).on : <<x.key[1], x.key[2]>> = Bound(t, w)
              BY <4>2, <5>1, <6>1, <6>2, MatchesFacts
            <7>2. <<y.key[1], y.key[2]>> = Bound(t, w)
              BY <1>3, <7>1 DEF Together
            <7>3. y \in Matches(t)
              BY <5>1, <6>1, <6>2, <7>2, MatchesFacts
            <7>. QED
              BY <2>2, <3>4, <7>3
          <6>3. CASE Current(t).does = "cascade"
            <7>1. x.key[1] \in ChildTables /\ x.key[2] \in tx[t].del
              BY <4>2, <5>1, <6>1, <6>3, MatchesFacts
            <7>2. y \in Matches(t)
              BY <1>3, <5>1, <6>1, <6>3, <7>1, MatchesFacts DEF Together
            <7>. QED
              BY <2>2, <3>4, <7>2
          <6>. QED
            BY <3>4, <6>2, <6>3
        <5>. QED
          BY <5>2, <5>3
      <4>. QED
        BY <1>3, <2>2, <3>4, <4>1, <4>2
    <3>. QED
      BY <1>3, <2>2, <3>3, <3>4, DoomedStep
  <2>. QED
    BY <2>1, <2>2
<1>. QED
  BY <1>3 DEF DeletesGroups

-----------------------------------------------------------------------------
(* The initial states, and the invariants of the engine.                   *)

\* The image of a finite set is finite.
LEMMA FiniteImage ==
  ASSUME NEW S, IsFiniteSet(S), NEW f, DOMAIN f = S
  PROVE  IsFiniteSet({f[x] : x \in S})
<1>1. [x \in S |-> f[x]] \in Surjection(S, {f[x] : x \in S})
  BY DEF Surjection
<1>. QED
  BY <1>1, FS_Surjection

\* The rows that an upsert leaves when it runs alone.
StoredRow(r, x) ==
    \/ x = Row(ImageKey(r.image), Seed)
    \/ \E g \in Seqs!ToSet(r.tags) :
          \/ x = Row(TagKey(g), Seed)
          \/ x = Row(<<"image_tags", Row(ImageKey(r.image), Seed), g>>, Seed)
    \/ \E n \in Seqs!ToSet(r.refs) : x = Row(RefKey(r.image, n), Seed)
    \/ x = Row(<<"generation_params", Row(ImageKey(r.image), Seed), None>>, Seed)
    \/ x = Row(<<"image_descriptions", Row(ImageKey(r.image), Seed), None>>, Seed)

\* The fields of an upsert whose rows may be there at the start.
LEMMA SeedsFacts ==
  ASSUME NEW r \in Seeds
  PROVE  r.image \in Images /\ r.tags \in Seq(Nat) /\ r.refs \in Seq(References)
<1>1. r \in Request /\ r.call = "upsert_image"
  BY RequestsAssumption
<1>. QED
  BY <1>1 DEF Request

\* The rows it left.
LEMMA StoredFacts ==
  ASSUME NEW r \in Seeds
  PROVE  /\ IsFiniteSet(StoredBy(r))
         /\ \A x \in StoredBy(r) : StoredRow(r, x)
<1>. DEFINE image == Row(ImageKey(r.image), Seed)
            G == Seqs!ToSet(r.tags)
            N == Seqs!ToSet(r.refs)
            a == {Row(TagKey(g), Seed) : g \in G}
            b == {Row(<<"image_tags", image, g>>, Seed) : g \in G}
            c == {Row(RefKey(r.image, n), Seed) : n \in N}
            d == IF r.params THEN {Row(<<"generation_params", image, None>>, Seed)} ELSE {}
            e == IF r.description THEN {Row(<<"image_descriptions", image, None>>, Seed)} ELSE {}
<1>1. StoredBy(r) = {image} \cup a \cup b \cup c \cup d \cup e
  BY DEF StoredBy, LinkKey, ParamsKey, DescriptionKey
<1>2. IsFiniteSet(G) /\ IsFiniteSet(N)
  BY SeedsFacts, FiniteToSet
<1>3. IsFiniteSet(a)
  <2>1. a = {[h \in G |-> Row(TagKey(h), Seed)][g] : g \in G}
    OBVIOUS
  <2>2. IsFiniteSet({[h \in G |-> Row(TagKey(h), Seed)][g] : g \in G})
    BY <1>2, FiniteImage
  <2>. QED
    BY <2>1, <2>2
<1>4. IsFiniteSet(b)
  <2>1. b = {[h \in G |-> Row(<<"image_tags", image, h>>, Seed)][g] : g \in G}
    OBVIOUS
  <2>2. IsFiniteSet({[h \in G |-> Row(<<"image_tags", image, h>>, Seed)][g] : g \in G})
    BY <1>2, FiniteImage
  <2>. QED
    BY <2>1, <2>2
<1>5. IsFiniteSet(c)
  <2>1. c = {[h \in N |-> Row(RefKey(r.image, h), Seed)][n] : n \in N}
    OBVIOUS
  <2>2. IsFiniteSet({[h \in N |-> Row(RefKey(r.image, h), Seed)][n] : n \in N})
    BY <1>2, FiniteImage
  <2>. QED
    BY <2>1, <2>2
<1>6. IsFiniteSet({image}) /\ IsFiniteSet(d) /\ IsFiniteSet(e)
  BY FS_Singleton, FS_EmptySet
<1>7. \A x \in StoredBy(r) : StoredRow(r, x)
  BY <1>1 DEF StoredRow
<1>. HIDE DEF a, b, c, d, e
<1>8. IsFiniteSet(StoredBy(r))
  <2>1. IsFiniteSet({image} \cup a)
    BY <1>3, <1>6, FS_Union
  <2>2. IsFiniteSet({image} \cup a \cup b)
    BY <1>4, <2>1, FS_Union
  <2>3. IsFiniteSet({image} \cup a \cup b \cup c)
    BY <1>5, <2>2, FS_Union
  <2>4. IsFiniteSet({image} \cup a \cup b \cup c \cup d)
    BY <1>6, <2>3, FS_Union
  <2>. QED
    BY <1>1, <1>6, <2>4, FS_Union
<1>. QED
  BY <1>7, <1>8

\* A row of an initial state.
InitialRow(x) ==
    x = Row(NoteKey, Seed) \/ x = Row(CollectionKey, Seed) \/ \E r \in Seeds : StoredRow(r, x)

\* What is there at the start.
LEMMA InitFacts ==
  ASSUME Init
  PROVE  /\ IsFiniteSet(db) /\ \A x \in db : InitialRow(x)
         /\ Row(NoteKey, Seed) \in db
         /\ \A x \in db : x \in DbRow /\ x.by = Seed
         /\ \A t \in Txs : /\ tx[t].st = "open" /\ tx[t].try = 1 /\ tx[t].at = 1
                           /\ tx[t].started = FALSE /\ tx[t].todo = <<>> /\ tx[t].row = NoRow
                           /\ tx[t].ins = {} /\ tx[t].del = {} /\ tx[t].upd = {} /\ tx[t].shr = {}
<1>1. PICK S \in SUBSET Seeds :
        db = {Row(NoteKey, Seed), Row(CollectionKey, Seed)} \cup UNION {StoredBy(r) : r \in S}
  BY DEF Init
<1>2. IsFiniteSet(db)
  <2>. DEFINE U == {[q \in S |-> StoredBy(q)][r] : r \in S}
  <2>1. IsFiniteSet(S)
    BY SeedsAssumption, FS_Subset
  <2>2. IsFiniteSet(U)
    BY <2>1, FiniteImage
  <2>3. U = {StoredBy(r) : r \in S}
    OBVIOUS
  <2>4. \A T \in U : IsFiniteSet(T)
    BY StoredFacts
  <2>. HIDE DEF U
  <2>5. IsFiniteSet(UNION U)
    BY <2>2, <2>4, FS_UNION
  <2>6. IsFiniteSet({Row(NoteKey, Seed), Row(CollectionKey, Seed)})
    <3>1. IsFiniteSet({Row(NoteKey, Seed)} \cup {Row(CollectionKey, Seed)})
      BY FS_Singleton, FS_Union
    <3>2. {Row(NoteKey, Seed), Row(CollectionKey, Seed)}
             = {Row(NoteKey, Seed)} \cup {Row(CollectionKey, Seed)}
      OBVIOUS
    <3>. QED
      BY <3>1, <3>2
  <2>. QED
    BY <1>1, <2>3, <2>5, <2>6, FS_Union
<1>3. \A x \in db : InitialRow(x)
  BY <1>1, StoredFacts DEF InitialRow
<1>4. ASSUME NEW r \in Seeds, NEW x, StoredRow(r, x) PROVE x \in DbRow /\ x.by = Seed
  <2>1. r.image \in Images /\ r.tags \in Seq(Nat) /\ r.refs \in Seq(References)
    BY SeedsFacts
  <2>2. Seqs!ToSet(r.tags) \subseteq Nat /\ Seqs!ToSet(r.refs) \subseteq References
    BY <2>1, FiniteToSet
  <2>3. ASSUME NEW k \in Key PROVE Row(k, Seed) \in DbRow /\ Row(k, Seed).by = Seed
    BY DEF Row, DbRow, Writer
  <2>4. PICK p \in Parent : p = Row(ImageKey(r.image), Seed)
    BY <2>1 DEF Row, Parent, ParentKey, ImageKey, Writer
  <2>5. /\ ImageKey(r.image) \in Key
        /\ \A g \in Nat : TagKey(g) \in Key /\ <<"image_tags", p, g>> \in Key
        /\ \A n \in References : RefKey(r.image, n) \in Key
        /\ <<"generation_params", p, None>> \in Key
        /\ <<"image_descriptions", p, None>> \in Key
    BY <2>1 DEF Key, ParentKey, ChildKey, ChildKeyOf, ImageKey, TagKey, RefKey
  <2>. QED
    BY <1>4, <2>2, <2>3, <2>4, <2>5 DEF StoredRow
<1>5. \A x \in db : x \in DbRow /\ x.by = Seed
  <2>1. Row(NoteKey, Seed) \in DbRow /\ Row(CollectionKey, Seed) \in DbRow
        /\ Row(NoteKey, Seed).by = Seed /\ Row(CollectionKey, Seed).by = Seed
    BY DEF Row, DbRow, Key, ParentKey, Writer
  <2>. QED
    BY <1>3, <1>4, <2>1 DEF InitialRow
<1>6. \A t \in Txs : tx[t] = Begun(1)
  BY DEF Init
<1>7. Row(NoteKey, Seed) \in db
  BY <1>1
<1>. QED
  BY <1>2, <1>3, <1>5, <1>6, <1>7 DEF Begun

Engine == TypeOK /\ TodoOK /\ WritersOK /\ LocksExclude /\ KeysUnique

\* The engine's invariants hold at the start,
LEMMA EngineInit == Init => Engine /\ DeletesGroups
<1>. SUFFICES ASSUME Init PROVE Engine /\ DeletesGroups
  OBVIOUS
<1>1. /\ IsFiniteSet(db) /\ \A x \in db : x \in DbRow /\ x.by = Seed
      /\ \A t \in Txs : /\ tx[t].st = "open" /\ tx[t].try = 1 /\ tx[t].at = 1
                        /\ tx[t].started = FALSE /\ tx[t].todo = <<>> /\ tx[t].row = NoRow
                        /\ tx[t].ins = {} /\ tx[t].del = {} /\ tx[t].upd = {} /\ tx[t].shr = {}
  BY InitFacts
<1>2. req \in [Txs -> Requests]
  BY DEF Init
<1>3. Begun(1) \in TxRecord
  <2>1. <<>> \in Seq(DbRow \cup Key) /\ NoRow \in Parent /\ 1 \in 1..Attempts
    BY RowFacts, AttemptsAssumption
  <2>. QED
    BY <2>1 DEF Begun, TxRecord
<1>4. \A t \in Txs : Len(Programs[req[t]]) \in Nat \ {0}
  BY <1>2, ProgramsOK
<1>5. TypeOK
  <2>1. tx \in [Txs -> TxRecord]
    BY <1>3 DEF Init
  <2>2. \A t \in Txs : tx[t].at <= Len(Programs[req[t]]) + 1
    BY <1>1, <1>4
  <2>3. \A t \in Txs : IsFiniteSet(tx[t].ins)
    BY <1>1, FS_EmptySet
  <2>. QED
    BY <1>1, <1>2, <2>1, <2>2, <2>3 DEF TypeOK
<1>6. TodoOK
  BY <1>1 DEF TodoOK, TodoOf, During
<1>7. WritersOK
  BY <1>1, SeedAssumption DEF WritersOK
<1>8. LocksExclude
  BY <1>1 DEF LocksExclude, Locked
<1>9. KeysUnique
  <2>1. \A x \in db : x = Row(x.key, Seed)
    BY <1>1, RowFacts
  <2>2. \A x, y \in db : x.key = y.key => x = y
    BY <2>1
  <2>. QED
    BY <1>1, <2>2 DEF KeysUnique
<1>10. DeletesGroups
  BY <1>1 DEF DeletesGroups, Doomed, During
<1>. QED
  BY <1>5, <1>6, <1>7, <1>8, <1>9, <1>10 DEF Engine

\* are kept by every step,
LEMMA EngineStep ==
  ASSUME Engine, NEW t \in Txs, Steps(t)
  PROVE  Engine'
BY TypeStep, TodoStep, WritersStep, LocksStep, KeysStep DEF Engine

\* and by a step that changes nothing.
LEMMA EngineStutter ==
  ASSUME Engine, DeletesGroups, UNCHANGED rows
  PROVE  Engine' /\ DeletesGroups'
<1>1. db' = db /\ req' = req /\ tx' = tx
  BY DEF rows
<1>2. TypeOK' /\ WritersOK' /\ LocksExclude' /\ KeysUnique'
  BY <1>1 DEF Engine, TypeOK, WritersOK, LocksExclude, Locked, KeysUnique
<1>3. ASSUME NEW t \in Txs PROVE TodoOf(t)' /\ Doomed(t)' = Doomed(t)
  <2>1. tx'[t] = tx[t]
    BY <1>1
  <2>2. /\ AtEnd(t)' = AtEnd(t) /\ Current(t)' = Current(t) /\ Todo(t)' = Todo(t)
        /\ \A K : During(t, K)' = During(t, K)
        /\ \A k : Bound(t, k)' = Bound(t, k)
    BY <1>1, <2>1, OthersStay
  <2>3. TodoOf(t)
    BY DEF Engine, TodoOK
  <2>4. TodoOf(t)'
    BY <1>1, <2>1, <2>2, <2>3 DEF TodoOf
  <2>. QED
    BY <2>1, <2>2, <2>4 DEF Doomed
<1>4. TodoOK' /\ DeletesGroups'
  BY <1>1, <1>3 DEF TodoOK, DeletesGroups
<1>. QED
  BY <1>2, <1>4 DEF Engine

-----------------------------------------------------------------------------
(* Upserts: what they hold.                                                *)

Runs(t, c) == req[t].call = c /\ tx[t].st = "open"
Upserting(t) == Runs(t, "upsert_image")
Selected(t) == \E q \in 1..(tx[t].at - 1) : Programs[req[t]][q].does = "select"

\* An upsert holds the row of its image from its first statement on; everything else
\* it holds are tags it inserted and rows of that image.
UpsertOf(t) ==
    /\ tx[t].at = 1 => tx[t].ins = {} /\ tx[t].del = {} /\ tx[t].upd = {}
    /\ tx[t].at > 1 => \E x \in tx[t].ins \cup tx[t].upd : x.key = ImageKey(req[t].image)
    /\ Selected(t) => tx[t].row # NoRow
    /\ tx[t].row # NoRow =>
          /\ tx[t].row.key = ImageKey(req[t].image)
          /\ tx[t].row \in tx[t].ins \cup tx[t].upd
    /\ tx[t].shr = {}
    /\ \A x \in tx[t].ins \cup tx[t].upd \cup tx[t].del :
          \/ x.key = ImageKey(req[t].image) /\ x \notin tx[t].del
          \/ x.key[1] = "tags" /\ x \in tx[t].ins
          \/ x.key[1] = "image_references" /\ x.key[2] = req[t].image
          \/ x.key[1] \in ChildTables /\ x.key[2] = tx[t].row /\ tx[t].row # NoRow
UpsertHolds == \A t \in Txs : Upserting(t) => UpsertOf(t)

\* The statement an upsert is at.
LEMMA UpsertNow ==
  ASSUME TypeOK, NEW t \in Txs, Upserting(t), IsAt(t, Kinds)
  PROVE  /\ Current(t).does \in {"put", "select", "ensure", "delete", "link", "fkey", "append"}
         /\ Current(t).must => Current(t).does = "select"
         /\ tx[t].at = 1 => Current(t) = Putting(ImageKey(req[t].image))
         /\ Current(t).does = "select" =>
               tx[t].at > 1 /\ Current(t).on = {<<"images", req[t].image>>}
         /\ Current(t).does = "ensure" <=> tx[t].at = 3 /\ req[t].tags # <<>>
         /\ Current(t).does = "put" =>
               \/ tx[t].at = 1 /\ Current(t).on = <<ImageKey(req[t].image)>>
               \/ \E n \in References : Current(t).on = <<RefKey(req[t].image, n)>>
               \/ Current(t).on = <<ParamsKey>> /\ Selected(t)
         /\ Current(t).does \in {"link", "append", "fkey"} => Selected(t)
         /\ Current(t).does = "delete" =>
               \/ Current(t).on = {<<"image_references", req[t].image>>}
               \/ Current(t).on = {<<"image_descriptions", This>>} /\ Selected(t)
<1>1. req[t] \in Requests /\ req[t].call = "upsert_image"
  BY DEF TypeOK, Upserting, Runs
<1>2. tx[t].at \in 1..Len(Programs[req[t]])
  BY CurrentFacts DEF IsAt
<1>3. PICK r \in Requests : r = req[t]
  BY <1>1
<1>4. PICK p \in 1..Len(Programs[r]) : p = tx[t].at
  BY <1>2, <1>3
<1>5. UpsertAt(r, p)
  BY <1>1, <1>3, UpsertStatement
<1>6. PICK s : s = Programs[r][p]
  OBVIOUS
<1>7. Current(t) = s /\ (Selected(t) <=> \E q \in 1..(p - 1) : Programs[r][q].does = "select")
  BY <1>3, <1>4, <1>6 DEF Current, Selected
<1>8. /\ r.image \in Images /\ r.refs \in Seq(References) /\ Len(Programs[r]) \in Nat
      /\ r.tags # <<>> => Programs[r][3] = Ensuring(r.tags)
      /\ Programs[r][1] = Putting(ImageKey(r.image))
  BY <1>1, <1>3, RequestFacts, UpsertProgram, ProgramsOK DEF TagsPart
<1>9. \A j \in 1..Len(r.refs) : r.refs[j] \in References
  BY <1>8
<1>10. \/ p = 1 /\ s = Putting(ImageKey(r.image))
       \/ p > 1 /\ s = Selecting(ImageKey(r.image))
       \/ p = 3 /\ r.tags # <<>> /\ s = Ensuring(r.tags)
       \/ s = Deleting(RefKey(r.image, None))
       \/ \E n \in References : s = Putting(RefKey(r.image, n))
       \/ /\ Selected(t)
          /\ \/ s = Linking(r.tags) \/ s = CheckingParent \/ s = Putting(ParamsKey)
             \/ s = Deleting(DescriptionKey) \/ s = Doing("append", <<DescriptionKey>>, FALSE)
  BY <1>5, <1>6, <1>7, <1>9 DEF UpsertAt
<1>11. p = 3 /\ r.tags # <<>> => s.does = "ensure"
  BY <1>6, <1>8 DEF Ensuring, Doing
<1>12. p = 1 => s = Putting(ImageKey(r.image))
  BY <1>6, <1>8
<1>13. /\ Deleting(RefKey(r.image, None)) = Doing("delete", {<<"image_references", r.image>>}, FALSE)
       /\ Deleting(DescriptionKey) = Doing("delete", {<<"image_descriptions", This>>}, FALSE)
       /\ Selecting(ImageKey(r.image)) = Doing("select", {<<"images", r.image>>}, TRUE)
  BY DEF Deleting, Selecting, RefKey, DescriptionKey, ImageKey
<1>. QED
  BY <1>3, <1>4, <1>7, <1>10, <1>11, <1>12, <1>13
     DEF Ensuring, Linking, CheckingParent, Putting, Doing

\* What an upsert whose turn it is handles next.
LEMMA UpsertNext ==
  ASSUME TypeOK, TodoOK, NEW t \in Txs, Upserting(t), IsAt(t, Kinds), Pending(t) # <<>>
  PROVE  /\ Current(t).does \in {"put", "append", "ensure", "link"} =>
               \/ Next1(t) = ImageKey(req[t].image) /\ tx[t].at = 1 /\ Current(t).does = "put"
               \/ Next1(t)[1] = "tags" /\ Current(t).does = "ensure"
               \/ Next1(t)[1] = "image_references" /\ Next1(t)[2] = req[t].image
               \/ Next1(t)[1] \in ChildTables /\ Next1(t)[2] = tx[t].row /\ Selected(t)
         /\ Current(t).does = "delete" =>
               \/ Next1(t).key[1] = "image_references" /\ Next1(t).key[2] = req[t].image
               \/ Next1(t).key[1] \in ChildTables /\ Next1(t).key[2] = tx[t].row /\ Selected(t)
<1>. DEFINE h == Next1(t)
<1>1. /\ "image_tags" \in ChildTables /\ "generation_params" \in ChildTables
      /\ "image_descriptions" \in ChildTables /\ "image_references" \notin ChildTables
      /\ "images" \notin ChildTables
  BY DEF ChildTables
<1>2. \A k \in WrittenKey : /\ k[1] \in ChildTables => Bound(t, k) = <<k[1], tx[t].row, k[3]>>
                            /\ k[1] \notin ChildTables => Bound(t, k) = k
  BY BoundFacts
<1>3. req[t].image \in Images /\ req[t].tags \in Seq(Nat)
  BY RequestFacts DEF TypeOK, Upserting, Runs
<1>4. CASE Current(t).does = "put"
  <2>1. PICK k \in WrittenKey : Current(t).on = <<k>> /\ h = Bound(t, k)
    BY <1>4, PendingFacts DEF OnceEach, Next1
  <2>2. \/ tx[t].at = 1 /\ k = ImageKey(req[t].image)
        \/ \E n \in References : k = RefKey(req[t].image, n)
        \/ k = ParamsKey /\ Selected(t)
    BY <1>4, <2>1, UpsertNow
  <2>. QED
    BY <1>1, <1>2, <1>4, <2>1, <2>2 DEF ImageKey, RefKey, ParamsKey
<1>5. CASE Current(t).does = "append"
  <2>1. h = Bound(t, DescriptionKey) /\ Selected(t)
    BY <1>5, PendingFacts, UpsertNow DEF Next1
  <2>2. DescriptionKey \in WrittenKey /\ DescriptionKey[1] = "image_descriptions"
    BY DEF DescriptionKey, WrittenKey, ChildKeyOf
  <2>. QED
    BY <1>1, <1>2, <1>5, <2>1, <2>2
<1>6. CASE Current(t).does = "ensure"
  BY <1>6, PendingFacts DEF Next1
<1>7. CASE Current(t).does = "link"
  <2>1. Selected(t) /\ Current(t) \in StatementSet /\ WellFormed(Current(t))
    BY <1>7, UpsertNow, CurrentFacts DEF IsAt
  <2>2. Current(t).on \in SUBSET Nat
    BY <1>7, <2>1 DEF WellFormed
  <2>3. \E g \in Nat : h = Bound(t, LinkKey(g))
    BY <1>7, <2>2, PendingFacts DEF Next1
  <2>. QED
    BY <1>1, <1>7, <2>1, <2>3, BoundFacts
<1>8. CASE Current(t).does = "delete"
  <2>1. tx[t].started /\ h \in Todo(t)
    BY <1>8, PendingFacts DEF Next1, Rowwise
  <2>2. PICK w \in Current(t).on : <<h.key[1], h.key[2]>> = Bound(t, w)
    BY <1>8, <2>1 DEF TodoOK, TodoOf, During
  <2>3. \/ w = <<"image_references", req[t].image>>
        \/ w = <<"image_descriptions", This>> /\ Selected(t)
    BY <1>8, <2>2, UpsertNow
  <2>4. w \in Where
    BY <1>3, <2>3 DEF Where, Tables, ChildTables
  <2>5. /\ w[1] \in ChildTables => Bound(t, w) = <<w[1], tx[t].row>>
        /\ w[1] \notin ChildTables => Bound(t, w) = w
    BY <2>4, BoundFacts
  <2>. QED
    BY <1>1, <1>8, <2>2, <2>3, <2>5
<1>. QED
  BY <1>4, <1>5, <1>6, <1>7, <1>8

\* A transaction sees one row of a key.
LEMMA SeesOne ==
  ASSUME TypeOK, WritersOK, KeysUnique, NEW t \in Txs, NEW x \in Visible(t), NEW y \in Visible(t),
         Keyed(x), x.key = y.key
  PROVE  x = y
<1>1. Keyed(y)
  BY DEF Keyed
<1>2. CASE x \in db \ tx[t].del /\ y \in db \ tx[t].del
  BY <1>2 DEF KeysUnique
<1>3. CASE x \in tx[t].ins /\ y \in db \ tx[t].del
  BY <1>3 DEF KeysUnique
<1>4. CASE x \in db \ tx[t].del /\ y \in tx[t].ins
  BY <1>1, <1>4 DEF KeysUnique
<1>5. CASE x \in tx[t].ins /\ y \in tx[t].ins
  <2>1. x.by = t /\ y.by = t
    BY <1>5 DEF WritersOK
  <2>2. x \in DbRow /\ y \in DbRow
    BY <1>5 DEF TypeOK, TxRecord
  <2>. QED
    BY <2>1, <2>2, RowFacts
<1>. QED
  BY <1>2, <1>3, <1>4, <1>5 DEF Visible

\* After its first statement an upsert sees the row of its image, and holds it.
LEMMA SeesImage ==
  ASSUME TypeOK, WritersOK, LocksExclude, KeysUnique, NEW t \in Txs, UpsertOf(t), tx[t].at > 1
  PROVE  \E x \in Visible(t) :
            /\ x \in tx[t].ins \cup tx[t].upd /\ x.key = ImageKey(req[t].image)
            /\ \A y \in Visible(t) : y.key = ImageKey(req[t].image) => y = x
<1>1. PICK x \in tx[t].ins \cup tx[t].upd : x.key = ImageKey(req[t].image)
  BY DEF UpsertOf
<1>2. x \notin tx[t].del
  BY <1>1 DEF UpsertOf, ImageKey, ChildTables
<1>3. x \in Visible(t)
  BY <1>1, <1>2 DEF Visible, LocksExclude, Locked
<1>4. Keyed(x)
  BY <1>1 DEF Keyed, ImageKey
<1>. QED
  BY <1>1, <1>3, <1>4, SeesOne

\* An upsert has no parent to check: it inserted or locked the row itself.
LEMMA NoParentNeeded ==
  ASSUME NEW t \in Txs, UpsertOf(t)
  PROVE  ~NeedsParent(t)
<1>1. SUFFICES ASSUME NeedsParent(t) PROVE FALSE
  OBVIOUS
<1>2. PICK x \in tx[t].ins : x.key[1] \in ChildTables /\ x.key[2] = tx[t].row
  BY <1>1 DEF NeedsParent
<1>3. tx[t].row # NoRow
  BY <1>2 DEF UpsertOf, ImageKey, ChildTables
<1>. QED
  BY <1>1, <1>3 DEF UpsertOf, NeedsParent

\* The next state of an upsert that is not repeated: it goes on, its first statement
\* in one step, and selects the row of its image, always the same one.
LEMMA UpsertMoves ==
  ASSUME TypeOK, TodoOK, WritersOK, LocksExclude, KeysUnique, NEW t \in Txs, Steps(t),
         Upserting(t), UpsertOf(t), tx'[t].st = "open", ~EndStep(t)
  PROVE  /\ IsAt(t, Kinds) /\ Goes(t)
         /\ \/ tx'[t].at = tx[t].at + 1
            \/ tx[t].at > 1 /\ tx'[t].at = tx[t].at /\ tx'[t].started = TRUE
         /\ \/ SameData(t) /\ SameRow(t) /\ Current(t).does # "select"
            \/ SelectStep(t)
            \/ InsertStep(t)
            \/ TakeStep(t)
            \/ DeleteStep(t) /\ Current(t).does = "delete"
         /\ tx[t].at = 1 => InsertStep(t) \/ TakeStep(t)
<1>0. tx[t].at \in Nat \ {0} /\ ~CommitStep(t)
  BY CurrentFacts DEF CommitStep
<1>1. \/ MissStep(t) \/ SelectStep(t) \/ ScanStep(t) \/ InsertStep(t) \/ PresentStep(t)
      \/ TakeStep(t) \/ UpdateStep(t) \/ DeleteStep(t) \/ ParentStep(t)
  BY <1>0 DEF Steps
<1>2. IsAt(t, Kinds) /\ Goes(t)
  BY <1>1 DEF MissStep, SelectStep, ScanStep, InsertStep, PresentStep, TakeStep, UpdateStep,
              DeleteStep, ParentStep, IsAt, Kinds, OnceEach, Rowwise, Keywise
<1>3. /\ Current(t).does \in {"put", "select", "ensure", "delete", "link", "fkey", "append"}
      /\ Current(t).must => Current(t).does = "select"
      /\ tx[t].at = 1 => Current(t).does = "put"
      /\ Current(t).does = "select" => tx[t].at > 1 /\ Current(t).on = {<<"images", req[t].image>>}
  BY <1>2, UpsertNow DEF Putting, Doing
<1>11. tx[t].at = 1 => InsertStep(t) \/ TakeStep(t)
  BY <1>1, <1>3 DEF MissStep, SelectStep, ScanStep, PresentStep, UpdateStep, DeleteStep,
                    ParentStep, IsAt, Rowwise, Keywise
<1>4. CASE MissStep(t)
  <2>1. Current(t).does # "select"
    <3>1. SUFFICES ASSUME Current(t).does = "select" PROVE FALSE
      OBVIOUS
    <3>2. PICK x \in Visible(t) : x.key = ImageKey(req[t].image)
      BY <1>3, <3>1, SeesImage
    <3>3. IsAt(t, Rowwise \cup {"select", "link"})
      BY <1>4 DEF MissStep
    <3>4. <<"images", req[t].image>> = Bound(t, <<"images", req[t].image>>)
      BY DEF Bound, ChildTables
    <3>5. <<x.key[1], x.key[2]>> = <<"images", req[t].image>>
      BY <3>2 DEF ImageKey
    <3>6. \E w \in Current(t).on : <<x.key[1], x.key[2]>> = Bound(t, w)
      BY <1>3, <3>1, <3>4, <3>5
    <3>7. \A y \in Visible(t) : y \in Matches(t) <=>
             \E w \in Current(t).on : <<y.key[1], y.key[2]>> = Bound(t, w)
      BY <3>1, <3>3, MatchesFacts
    <3>8. x \in Matches(t)
      BY <3>2, <3>6, <3>7
    <3>. QED
      BY <1>4, <3>1, <3>8 DEF MissStep
  <2>2. MovesTo(t, tx[t].at + 1) /\ SameData(t) /\ SameRow(t)
    BY <1>3, <1>4, <2>1 DEF MissStep
  <2>. QED
    BY <1>11, <1>2, <2>1, <2>2 DEF MovesTo
<1>5. CASE SelectStep(t)
  BY <1>11, <1>2, <1>5 DEF SelectStep, MovesTo
<1>6. CASE ScanStep(t)
  <2>1. tx[t].at > 1 /\ Current(t).does # "select"
    BY <1>0, <1>3, <1>6 DEF ScanStep, IsAt, Rowwise
  <2>. QED
    BY <1>11, <1>2, <1>6, <2>1 DEF ScanStep
<1>7. CASE InsertStep(t) \/ PresentStep(t) \/ DeleteStep(t)
  <2>1. Current(t).does # "select" /\ Pending(t) # <<>> /\ Passes(t)
    BY <1>7 DEF InsertStep, PresentStep, DeleteStep, IsAt, OnceEach, Keywise, Passes
  <2>2. Current(t).does = "put" => Len(Pending(t)) = 1
    BY <1>2, <2>1, PendingFacts DEF OnceEach
  <2>3. \/ tx'[t].at = tx[t].at + 1
        \/ tx[t].at > 1 /\ tx'[t].at = tx[t].at /\ tx'[t].started = TRUE
    BY <1>0, <1>3, <2>1, <2>2 DEF Passes, MovesTo
  <2>4. DeleteStep(t) => Current(t).does = "delete"
    BY <1>3 DEF DeleteStep, IsAt
  <2>. QED
    BY <1>11, <1>2, <1>7, <2>1, <2>3, <2>4 DEF PresentStep
<1>8. CASE TakeStep(t)
  BY <1>11, <1>2, <1>8 DEF TakeStep, MovesTo, IsAt
<1>9. CASE UpdateStep(t)
  BY <1>3, <1>9, <1>11 DEF UpdateStep, IsAt
<1>10. CASE ParentStep(t)
  <2>1. Current(t).does # "select" /\ SameData(t) /\ SameRow(t) /\ MovesTo(t, tx[t].at + 1)
    BY <1>10, NoParentNeeded DEF ParentStep, IsAt
  <2>. QED
    BY <1>2, <1>11, <2>1 DEF MovesTo
<1>. QED
  BY <1>1, <1>4, <1>5, <1>6, <1>7, <1>8, <1>9, <1>10

\* What an upsert holds is what it has held, and what its statement adds.
LEMMA UpsertHoldsStep ==
  ASSUME TypeOK, TodoOK, WritersOK, LocksExclude, KeysUnique, UpsertHolds,
         NEW t \in Txs, Steps(t)
  PROVE  UpsertHolds'
<1>1. req' = req /\ tx[t].st = "open" /\ \A u \in Txs \ {t} : tx'[u] = tx[u]
  BY OpenStep
<1>2. ASSUME NEW u \in Txs \ {t}, Upserting(u)' PROVE UpsertOf(u)'
  <2>1. tx'[u] = tx[u] /\ UpsertOf(u)
    BY <1>1, <1>2 DEF UpsertHolds, Upserting, Runs
  <2>. QED
    BY <1>1, <2>1 DEF UpsertOf, Selected
<1>3. ASSUME Upserting(t)', EndStep(t) PROVE UpsertOf(t)'
  <2>1. /\ tx'[t].at = 1 /\ tx'[t].ins = {} /\ tx'[t].del = {} /\ tx'[t].upd = {}
        /\ tx'[t].shr = {} /\ tx'[t].row = NoRow
    BY <1>3 DEF EndStep, Clears, Data, MovesTo
  <2>2. ~Selected(t)'
    BY <2>1 DEF Selected
  <2>. QED
    BY <2>1, <2>2 DEF UpsertOf
<1>4. ASSUME Upserting(t)', ~EndStep(t) PROVE UpsertOf(t)'
  <2>1. Upserting(t) /\ UpsertOf(t) /\ tx'[t].st = "open"
    BY <1>1, <1>4 DEF UpsertHolds, Upserting, Runs
  <2>2. /\ IsAt(t, Kinds) /\ Goes(t)
        /\ \/ tx'[t].at = tx[t].at + 1
           \/ tx[t].at > 1 /\ tx'[t].at = tx[t].at
        /\ \/ SameData(t) /\ SameRow(t) /\ Current(t).does # "select"
           \/ SelectStep(t)
           \/ InsertStep(t)
           \/ TakeStep(t)
           \/ DeleteStep(t) /\ Current(t).does = "delete"
        /\ tx[t].at = 1 => InsertStep(t) \/ TakeStep(t)
    BY <1>4, <2>1, UpsertMoves
  <2>3. tx[t].at \in Nat \ {0} /\ tx'[t].at \in Nat /\ tx'[t].at > 1
    <3>1. tx[t].at \in Nat \ {0}
      BY CurrentFacts
    <3>. QED
      BY <2>2, <3>1
  <2>4. PICK s : s = req[t].image
    OBVIOUS
  <2>5. Selected(t)' => Selected(t) \/ Current(t).does = "select"
    <3>1. SUFFICES ASSUME NEW q \in 1..(tx'[t].at - 1), Programs[req[t]][q].does = "select"
                   PROVE  Selected(t) \/ Current(t).does = "select"
      BY <1>1 DEF Selected
    <3>2. q \in 1..(tx[t].at - 1) \/ q = tx[t].at
      BY <2>2, <2>3
    <3>. QED
      BY <3>1, <3>2 DEF Selected, Current
  <2>6. /\ tx[t].at = 1 => tx[t].ins = {} /\ tx[t].del = {} /\ tx[t].upd = {}
        /\ tx[t].at > 1 => \E x \in tx[t].ins \cup tx[t].upd : x.key = ImageKey(s)
        /\ Selected(t) => tx[t].row # NoRow
        /\ tx[t].row # NoRow =>
              tx[t].row.key = ImageKey(s) /\ tx[t].row \in tx[t].ins \cup tx[t].upd
        /\ tx[t].shr = {}
        /\ \A x \in tx[t].ins \cup tx[t].upd \cup tx[t].del :
              \/ x.key = ImageKey(s) /\ x \notin tx[t].del
              \/ x.key[1] = "tags" /\ x \in tx[t].ins
              \/ x.key[1] = "image_references" /\ x.key[2] = s
              \/ x.key[1] \in ChildTables /\ x.key[2] = tx[t].row /\ tx[t].row # NoRow
    BY <2>1, <2>4 DEF UpsertOf
  <2>. SUFFICES
         /\ \E x \in tx'[t].ins \cup tx'[t].upd : x.key = ImageKey(s)
         /\ Selected(t)' => tx'[t].row # NoRow
         /\ tx'[t].row # NoRow =>
               tx'[t].row.key = ImageKey(s) /\ tx'[t].row \in tx'[t].ins \cup tx'[t].upd
         /\ tx'[t].shr = {}
         /\ \A x \in tx'[t].ins \cup tx'[t].upd \cup tx'[t].del :
               \/ x.key = ImageKey(s) /\ x \notin tx'[t].del
               \/ x.key[1] = "tags" /\ x \in tx'[t].ins
               \/ x.key[1] = "image_references" /\ x.key[2] = s
               \/ x.key[1] \in ChildTables /\ x.key[2] = tx'[t].row /\ tx'[t].row # NoRow
    BY <1>1, <2>3, <2>4 DEF UpsertOf
  <2>7. CASE tx[t].at > 1 /\ SameData(t) /\ SameRow(t) /\ Current(t).does # "select"
    BY <2>5, <2>6, <2>7 DEF SameData, Data, SameRow
  <2>8. CASE SelectStep(t)
    <3>1. tx[t].at > 1 /\ Current(t).does = "select"
          /\ Current(t).on = {<<"images", req[t].image>>}
      BY <2>1, <2>2, <2>8, UpsertNow DEF SelectStep, IsAt
    <3>2. PICK y \in Matches(t) : tx'[t].row = y
      BY <2>8 DEF SelectStep
    <3>3. y \in Visible(t) /\ y.key = ImageKey(s)
      <4>1. IsAt(t, Rowwise \cup {"select", "link"})
        BY <2>8 DEF SelectStep, IsAt
      <4>2. Matches(t) \in SUBSET Visible(t) /\ Visible(t) \in SUBSET DbRow
        BY <3>1, <4>1, MatchesFacts, VisibleFacts
      <4>3. \E w \in Current(t).on \cap Rooted : y.key[1] = w[1] /\ y.key[2] = w[2]
        BY <3>1, <4>1, MatchesFacts
      <4>4. y.key[1] = "images" /\ y.key[2] = s
        BY <2>4, <3>1, <4>3
      <4>. QED
        BY <4>2, <4>4, RowFacts, KeyFacts
    <3>4. PICK x \in Visible(t) :
             /\ x \in tx[t].ins \cup tx[t].upd /\ x.key = ImageKey(s)
             /\ \A z \in Visible(t) : z.key = ImageKey(s) => z = x
      BY <2>1, <2>4, <3>1, SeesImage
    <3>5. y = x
      BY <3>3, <3>4
    <3>6. x # NoRow
      BY <3>4, VisibleFacts, RowFacts
    <3>7. tx[t].row # NoRow => tx[t].row = x
      <4>1. SUFFICES ASSUME tx[t].row # NoRow PROVE tx[t].row = x
        OBVIOUS
      <4>2. tx[t].row.key = ImageKey(s) /\ tx[t].row \in tx[t].ins \cup tx[t].upd
        BY <2>6, <4>1
      <4>3. tx[t].row \notin tx[t].del
        BY <2>6, <4>2 DEF ImageKey, ChildTables
      <4>4. tx[t].row \in Visible(t)
        BY <4>2, <4>3 DEF Visible, LocksExclude, Locked
      <4>. QED
        BY <3>4, <4>2, <4>4
    <3>. QED
      BY <2>6, <2>8, <3>2, <3>4, <3>5, <3>6, <3>7 DEF SelectStep, SameData, Data
  <2>9. ASSUME Pending(t) # <<>>, Current(t).does \in {"put", "append", "ensure", "link"},
               NEW y, y.key = Next1(t)
        PROVE  /\ \/ y.key = ImageKey(s) /\ tx[t].at = 1
                  \/ y.key[1] = "tags" /\ Current(t).does = "ensure"
                  \/ y.key[1] = "image_references" /\ y.key[2] = s
                  \/ y.key[1] \in ChildTables /\ y.key[2] = tx[t].row /\ tx[t].row # NoRow
               /\ tx[t].at = 1 => y.key = ImageKey(s) /\ tx[t].row = NoRow
    <3>1. \/ y.key = ImageKey(s) /\ tx[t].at = 1
          \/ y.key[1] = "tags" /\ Current(t).does = "ensure"
          \/ y.key[1] = "image_references" /\ y.key[2] = s
          \/ y.key[1] \in ChildTables /\ y.key[2] = tx[t].row /\ tx[t].row # NoRow
      BY <2>1, <2>2, <2>4, <2>6, <2>9, UpsertNext
    <3>2. tx[t].at = 1 => y.key = ImageKey(s)
      <4>1. SUFFICES ASSUME tx[t].at = 1 PROVE y.key = ImageKey(s)
        OBVIOUS
      <4>2. Current(t) = Putting(ImageKey(s))
        BY <2>1, <2>2, <2>4, <4>1, UpsertNow
      <4>3. ImageKey(s)[1] \notin ChildTables
        BY DEF ImageKey, ChildTables
      <4>4. PICK k \in WrittenKey : Current(t).on = <<k>> /\ Next1(t) = Bound(t, k)
        BY <2>2, <2>9, <4>2, PendingFacts DEF Putting, Doing, OnceEach, Next1
      <4>. QED
        BY <2>9, <4>2, <4>3, <4>4 DEF Bound, Putting, Doing
    <3>3. tx[t].at = 1 => tx[t].row = NoRow
      BY <2>6
    <3>. QED
      BY <3>1, <3>2, <3>3
  <2>10. CASE InsertStep(t)
    <3>1. PICK y : y = Row(Next1(t), t)
      OBVIOUS
    <3>2. /\ tx'[t].ins = tx[t].ins \cup {y} /\ tx'[t].del = tx[t].del /\ tx'[t].upd = tx[t].upd
          /\ tx'[t].shr = tx[t].shr /\ tx'[t].row = tx[t].row /\ Pending(t) # <<>>
          /\ Current(t).does \in {"put", "insert", "append", "ensure", "link"}
      BY <2>10, <3>1 DEF InsertStep, Data, SameRow, IsAt, Passes, OnceEach, Keywise
    <3>3. Current(t).does \in {"put", "append", "ensure", "link"} /\ y.key = Next1(t)
      BY <2>1, <2>2, <3>1, <3>2, UpsertNow DEF Row
    <3>4. /\ \/ y.key = ImageKey(s) /\ tx[t].at = 1
             \/ y.key[1] = "tags" /\ Current(t).does = "ensure"
             \/ y.key[1] = "image_references" /\ y.key[2] = s
             \/ y.key[1] \in ChildTables /\ y.key[2] = tx[t].row /\ tx[t].row # NoRow
          /\ tx[t].at = 1 => y.key = ImageKey(s) /\ tx[t].row = NoRow
      BY <2>9, <3>2, <3>3
    <3>5. tx[t].at = 1 => y \notin tx'[t].del
      BY <2>6, <3>2
    <3>6. Selected(t)' => tx[t].row # NoRow
      BY <2>5, <2>6, <3>3
    <3>7. tx[t].at > 1 \/ tx[t].at = 1
      BY <2>3
    <3>. QED
      BY <2>6, <3>2, <3>4, <3>5, <3>6, <3>7
  <2>11. CASE TakeStep(t)
    <3>1. PICK R : R = Named(t, Next1(t)) \cap db
      OBVIOUS
    <3>2. /\ tx'[t].ins = tx[t].ins /\ tx'[t].del = tx[t].del /\ tx'[t].upd = tx[t].upd \cup R
          /\ tx'[t].shr = tx[t].shr /\ tx'[t].row = tx[t].row /\ Current(t).does = "put"
          /\ Named(t, Next1(t)) # {} /\ tx'[t].at = tx[t].at + 1
      BY <2>11, <3>1 DEF TakeStep, Data, SameRow, IsAt, MovesTo
    <3>3. Pending(t) # <<>>
      <4>1. WellFormed(Current(t)) /\ ~tx[t].started
        <5>1. tx[t].started => Current(t).does \in Rowwise \cup Keywise
          BY DEF TodoOK, TodoOf
        <5>. QED
          BY <2>2, <3>2, <5>1, CurrentFacts DEF IsAt, Rowwise, Keywise
      <4>2. \E k \in WrittenKey : Current(t).on = <<k>>
        BY <3>2, <4>1 DEF WellFormed, OnceEach
      <4>. QED
        BY <3>2, <4>1, <4>2 DEF Pending
    <3>4. ASSUME NEW y \in R
          PROVE  \/ y.key = ImageKey(s) /\ tx[t].at = 1
                 \/ y.key[1] = "image_references" /\ y.key[2] = s
                 \/ y.key[1] \in ChildTables /\ y.key[2] = tx[t].row /\ tx[t].row # NoRow
      <4>1. y.key = Next1(t)
        BY <3>1 DEF Named
      <4>. QED
        BY <2>9, <3>2, <3>3, <4>1
    <3>5. \A y \in R : y \notin tx[t].del
      <4>1. \A y \in tx[t].ins : y \notin db
        BY <2>1 DEF WritersOK, Upserting, Runs
      <4>. QED
        BY <3>1, <4>1 DEF Named, Visible
    <3>6. tx[t].at = 1 => /\ \E y \in R : y.key = ImageKey(s)
                          /\ tx[t].row = NoRow
      <4>1. SUFFICES ASSUME tx[t].at = 1
                     PROVE  (\E y \in R : y.key = ImageKey(s)) /\ tx[t].row = NoRow
        OBVIOUS
      <4>2. PICK y \in Named(t, Next1(t)) : TRUE
        BY <3>2
      <4>3. y.key = Next1(t) /\ y \in db
        BY <2>6, <4>1, <4>2 DEF Named, Visible
      <4>. QED
        BY <2>9, <3>1, <3>2, <3>3, <4>1, <4>2, <4>3
    <3>7. Selected(t)' => tx[t].row # NoRow
      BY <2>5, <2>6, <3>2
    <3>8. tx[t].at > 1 \/ tx[t].at = 1
      BY <2>3
    <3>. QED
      BY <2>6, <3>2, <3>4, <3>5, <3>6, <3>7, <3>8
  <2>12. CASE tx[t].at > 1 /\ DeleteStep(t) /\ Current(t).does = "delete"
    <3>1. PICK y : y = Next1(t)
      OBVIOUS
    <3>2. /\ tx'[t].ins = tx[t].ins \ {y} /\ tx'[t].del = tx[t].del \cup ({y} \cap db)
          /\ tx'[t].upd = tx[t].upd /\ tx'[t].shr = tx[t].shr /\ tx'[t].row = tx[t].row
          /\ Pending(t) # <<>>
      BY <2>12, <3>1 DEF DeleteStep, Data, SameRow, Passes
    <3>3. \/ y.key[1] = "image_references" /\ y.key[2] = s
          \/ y.key[1] \in ChildTables /\ y.key[2] = tx[t].row /\ tx[t].row # NoRow
      BY <2>1, <2>2, <2>4, <2>6, <2>12, <3>1, <3>2, UpsertNext
    <3>4. y.key # ImageKey(s) /\ y.key[1] # "tags"
      BY <3>3 DEF ImageKey, ChildTables
    <3>5. Selected(t)' => tx[t].row # NoRow
      BY <2>5, <2>6, <2>12
    <3>6. tx[t].at # 1
      BY <2>3, <2>12
    <3>. QED
      BY <2>6, <2>12, <3>2, <3>3, <3>4, <3>5, <3>6
  <2>. QED
    BY <2>2, <2>3, <2>7, <2>8, <2>10, <2>11, <2>12
<1>. QED
  BY <1>1, <1>2, <1>3, <1>4 DEF UpsertHolds

\* The tags an upsert has inserted come before those it has yet to insert.
TagsOf(t) ==
    \A x \in tx[t].ins : x.key[1] = "tags" =>
        /\ req[t].tags # <<>> /\ tx[t].at >= 3
        /\ tx[t].at = 3 => tx[t].started /\ \A k \in Todo(t) : x.key[2] < k[2]
UpsertTags == \A t \in Txs : Upserting(t) => TagsOf(t)

\* Every step keeps the tags an upsert has resolved.
LEMMA UpsertTagsStep ==
  ASSUME TypeOK, TodoOK, WritersOK, LocksExclude, KeysUnique, UpsertHolds, UpsertTags,
         NEW t \in Txs, Steps(t)
  PROVE  UpsertTags'
<1>1. req' = req /\ tx[t].st = "open" /\ \A u \in Txs \ {t} : tx'[u] = tx[u]
  BY OpenStep
<1>2. ASSUME NEW u \in Txs \ {t}, Upserting(u)' PROVE TagsOf(u)'
  <2>1. tx'[u] = tx[u] /\ TagsOf(u) /\ Todo(u)' = Todo(u)
    BY <1>1, <1>2, OthersStay DEF UpsertTags, Upserting, Runs
  <2>. QED
    BY <1>1, <2>1 DEF TagsOf
<1>3. ASSUME Upserting(t)', EndStep(t) PROVE TagsOf(t)'
  BY <1>3 DEF EndStep, Clears, Data, TagsOf
<1>4. ASSUME Upserting(t)', ~EndStep(t) PROVE TagsOf(t)'
  <2>1. Upserting(t) /\ UpsertOf(t) /\ TagsOf(t) /\ tx'[t].st = "open"
    BY <1>1, <1>4 DEF UpsertHolds, UpsertTags, Upserting, Runs
  <2>2. /\ IsAt(t, Kinds) /\ Goes(t)
        /\ \/ tx'[t].at = tx[t].at + 1
           \/ tx[t].at > 1 /\ tx'[t].at = tx[t].at /\ tx'[t].started = TRUE
        /\ \/ SameData(t)
           \/ SelectStep(t)
           \/ InsertStep(t)
           \/ TakeStep(t)
           \/ DeleteStep(t) /\ Current(t).does = "delete"
    BY <1>4, <2>1, UpsertMoves
  <2>3. tx[t].at \in Nat \ {0}
    BY CurrentFacts
  <2>4. Current(t).does = "ensure" <=> tx[t].at = 3 /\ req[t].tags # <<>>
    BY <2>1, <2>2, UpsertNow
  <2>5. CASE Current(t).does # "ensure"
    <3>1. ASSUME NEW x \in tx'[t].ins, x.key[1] = "tags" PROVE x \in tx[t].ins
      <4>1. CASE InsertStep(t)
        <5>1. tx'[t].ins = tx[t].ins \cup {Row(Next1(t), t)} /\ Pending(t) # <<>>
              /\ Current(t).does \in {"put", "insert", "append", "ensure", "link"}
          BY <4>1 DEF InsertStep, Data, Passes, IsAt, OnceEach, Keywise
        <5>2. Current(t).does \in {"put", "append", "ensure", "link"}
          BY <2>1, <2>2, <5>1, UpsertNow
        <5>3. Next1(t)[1] # "tags"
          BY <2>1, <2>2, <2>5, <5>1, <5>2, UpsertNext DEF ImageKey, ChildTables
        <5>. QED
          BY <3>1, <5>1, <5>3 DEF Row
      <4>2. CASE ~InsertStep(t)
        BY <2>2, <3>1, <4>2 DEF SameData, SelectStep, TakeStep, DeleteStep, Data
      <4>. QED
        BY <4>1, <4>2
    <3>2. ASSUME NEW x \in tx'[t].ins, x.key[1] = "tags"
          PROVE  req[t].tags # <<>> /\ tx'[t].at > 3
      <4>1. req[t].tags # <<>> /\ tx[t].at >= 3
        BY <2>1, <3>1, <3>2 DEF TagsOf
      <4>. QED
        BY <2>2, <2>3, <2>4, <2>5, <4>1
    <3>3. tx'[t].at \in Nat
      BY <2>2, <2>3
    <3>. QED
      BY <1>1, <3>2, <3>3 DEF TagsOf
  <2>6. CASE Current(t).does = "ensure"
    <3>1. InsertStep(t) \/ PresentStep(t)
      BY <1>4, <2>1, <2>6 DEF Steps, MissStep, SelectStep, ScanStep, TakeStep, UpdateStep, DeleteStep,
         ParentStep, CommitStep, IsAt, Rowwise
    <3>2. Passes(t) /\ Pending(t) # <<>>
          /\ tx'[t].ins \subseteq tx[t].ins \cup {Row(Next1(t), t)}
      BY <3>1 DEF InsertStep, PresentStep, Passes, SameData, Data
    <3>3. CASE Len(Pending(t)) = 1
      <4>1. req[t].tags # <<>> /\ tx'[t].at = 4
        BY <2>4, <2>6, <3>2, <3>3 DEF Passes, MovesTo
      <4>. QED
        BY <1>1, <4>1 DEF TagsOf
    <3>4. CASE Len(Pending(t)) # 1
      <4>1. /\ tx'[t].started = TRUE /\ tx'[t].at = 3 /\ req[t].tags # <<>>
            /\ Seqs!ToSet(tx'[t].todo) \subseteq Seqs!ToSet(Pending(t))
            /\ Next1(t) = Pending(t)[1]
            /\ Len(Pending(t)) \in Nat /\ DOMAIN Pending(t) = 1..Len(Pending(t))
            /\ DOMAIN tx'[t].todo = 1..(Len(Pending(t)) - 1)
            /\ \A i \in 1..(Len(Pending(t)) - 1) : tx'[t].todo[i] = Pending(t)[i + 1]
        BY <2>2, <2>4, <2>6, <3>2, <3>4, ListGetsShorter
      <4>2. ASSUME NEW x \in tx[t].ins, x.key[1] = "tags", NEW k \in Todo(t)'
            PROVE  x.key[2] < k[2]
        <5>1. tx[t].started /\ \A l \in Todo(t) : x.key[2] < l[2]
          BY <2>1, <2>4, <2>6, <4>2 DEF TagsOf
        <5>2. Pending(t) = tx[t].todo
          BY <5>1 DEF Pending
        <5>. QED
          BY <4>1, <4>2, <5>1, <5>2 DEF Todo
      <4>3. ASSUME NEW k \in Todo(t)' PROVE Next1(t)[2] < k[2]
        <5>1. PICK i \in 1..(Len(Pending(t)) - 1) : k = Pending(t)[i + 1]
          BY <4>1, <4>3 DEF Todo, Seqs!ToSet
        <5>2. \A j, l \in DOMAIN Pending(t) : j < l => Pending(t)[j][2] < Pending(t)[l][2]
          BY <2>2, <2>6, <3>2, PendingFacts
        <5>3. 1 \in DOMAIN Pending(t) /\ i + 1 \in DOMAIN Pending(t) /\ 1 < i + 1
          BY <4>1, <5>1
        <5>. QED
          BY <4>1, <5>1, <5>2, <5>3
      <4>4. \A x \in tx'[t].ins : x.key[1] = "tags" => \A k \in Todo(t)' : x.key[2] < k[2]
        BY <3>2, <4>2, <4>3 DEF Row
      <4>. QED
        BY <1>1, <4>1, <4>4 DEF TagsOf
    <3>. QED
      BY <3>3, <3>4
  <2>. QED
    BY <2>5, <2>6
<1>. QED
  BY <1>1, <1>2, <1>3, <1>4 DEF UpsertTags

\* An upsert that failed has used up its attempts.
UpsertsFail ==
    \A t \in Txs : req[t].call = "upsert_image" /\ tx[t].st = "failed" => tx[t].try = Attempts

\* A step that refuses an upsert is the end of its last attempt.
LEMMA UpsertsFailStep ==
  ASSUME TypeOK, UpsertHolds, UpsertsFail, NEW t \in Txs, Steps(t)
  PROVE  UpsertsFail'
<1>1. req' = req /\ tx[t].st = "open" /\ \A u \in Txs \ {t} : tx'[u] = tx[u]
  BY OpenStep
<1>2. ASSUME req[t].call = "upsert_image", tx'[t].st = "failed" PROVE tx'[t].try = Attempts
  <2>1. EndStep(t) /\ tx'[t].try = tx[t].try
    BY <1>2 DEF Steps, MissStep, SelectStep, ScanStep, InsertStep, PresentStep, TakeStep, UpdateStep,
                DeleteStep, ParentStep, EndStep, CommitStep, Goes
  <2>2. Upserting(t) /\ UpsertOf(t)
    BY <1>1, <1>2 DEF Upserting, Runs, UpsertHolds
  <2>3. ~IsAt(t, {"insert"})
    <3>1. SUFFICES ASSUME IsAt(t, {"insert"}) PROVE FALSE
      OBVIOUS
    <3>2. IsAt(t, Kinds) /\ Current(t).does = "insert"
      BY <3>1 DEF IsAt, Kinds, OnceEach
    <3>. QED
      BY <2>2, <3>2, UpsertNow
  <2>4. ~Again(t)
    BY <1>2, <2>1, <2>2, <2>3, NoParentNeeded DEF EndStep
  <2>5. tx[t].try \in 1..Attempts
    BY DEF TypeOK, TxRecord
  <2>. QED
    BY <1>2, <2>1, <2>4, <2>5, AttemptsAssumption DEF Again, Retried
<1>. QED
  BY <1>1, <1>2 DEF UpsertsFail

-----------------------------------------------------------------------------
(* Upserts alone do not wait for each other in a circle.                   *)

\* An upsert that waits for another one is at its first statement, or inserting tags.
LEMMA UpsertWaits ==
  ASSUME TypeOK, TodoOK, LocksExclude, KeysUnique, UpsertHolds, UpsertTags,
         NEW t \in Txs, NEW u \in Blockers(t),
         req[t].call = "upsert_image", req[u].call = "upsert_image", Blockers(u) # {}
  PROVE  /\ u \in Txs \ {t} /\ tx[u].at # 1
         /\ tx[t].at = 1 \/ (IsAt(t, {"ensure"}) /\ IsAt(u, {"ensure"}) => Next1(t)[2] < Next1(u)[2])
         /\ tx[t].at = 1 \/ IsAt(t, {"ensure"})
<1>1. /\ tx[t].st = "open" /\ ~AtEnd(t) /\ Pending(t) # <<>> /\ u \in Txs \ {t}
      /\ \/ /\ Current(t).does \in {"put", "ensure", "insert", "link"}
            /\ \E x \in tx[u].ins \cup tx[u].del \cup tx[u].upd : x.key = Next1(t)
         \/ /\ Current(t).does \in {"delete", "cascade"}
            /\ Next1(t) \in tx[u].del \cup tx[u].upd \cup tx[u].shr
         \/ Current(t).does = "update" /\ Next1(t) \in tx[u].del \cup tx[u].upd
         \/ Current(t).does = "fkey" /\ NeedsParent(t) /\ Next1(t) \in tx[u].del
  BY DEF Blockers, Next1
<1>2. tx[u].st = "open" /\ ~AtEnd(u) /\ Pending(u) # <<>>
  BY DEF Blockers
<1>3. Upserting(t) /\ UpsertOf(t) /\ Upserting(u) /\ UpsertOf(u) /\ TagsOf(u)
  BY <1>1, <1>2 DEF Upserting, Runs, UpsertHolds, UpsertTags
<1>4. IsAt(t, Kinds) /\ IsAt(u, Kinds)
  BY <1>1, <1>2, CurrentFacts DEF IsAt
<1>5. ~NeedsParent(t) /\ tx[u].shr = {}
  BY <1>3, NoParentNeeded DEF UpsertOf
<1>6. Current(t).does \in {"put", "select", "ensure", "delete", "link", "fkey", "append"}
  BY <1>3, <1>4, UpsertNow
<1>7. PICK x \in tx[u].ins \cup tx[u].upd \cup tx[u].del :
         \/ Current(t).does \in {"put", "ensure", "link"} /\ x.key = Next1(t)
         \/ Current(t).does = "delete" /\ x = Next1(t)
  BY <1>1, <1>5, <1>6
<1>8. tx[u].at # 1
  BY <1>3 DEF UpsertOf
<1>9. \/ x.key = ImageKey(req[u].image)
      \/ x.key[1] = "tags" /\ x \in tx[u].ins
      \/ x.key[1] = "image_references" /\ x.key[2] = req[u].image
      \/ x.key[1] \in ChildTables /\ x.key[2] = tx[u].row /\ tx[u].row # NoRow
  BY <1>3 DEF UpsertOf
<1>10. \/ x.key = ImageKey(req[t].image) /\ tx[t].at = 1
       \/ x.key[1] = "tags" /\ Current(t).does = "ensure"
       \/ x.key[1] = "image_references" /\ x.key[2] = req[t].image
       \/ x.key[1] \in ChildTables /\ x.key[2] = tx[t].row /\ Selected(t)
  BY <1>1, <1>3, <1>4, <1>7, UpsertNext
<1>11. \A k : k = ImageKey(req[u].image) => k[1] = "images" /\ k[2] = req[u].image
  BY DEF ImageKey
<1>12. tx[t].at \in Nat \ {0} /\ tx[u].at \in Nat \ {0}
  BY <1>1, CurrentFacts
<1>13. CASE tx[t].at = 1
  BY <1>1, <1>8, <1>13
<1>14. CASE tx[t].at # 1
  <2>1. PICK y \in tx[t].ins \cup tx[t].upd : y.key = ImageKey(req[t].image)
    BY <1>3, <1>12, <1>14 DEF UpsertOf
  <2>2. PICK z \in tx[u].ins \cup tx[u].upd : z.key = ImageKey(req[u].image)
    BY <1>3, <1>8, <1>12 DEF UpsertOf
  <2>3. y.key # z.key
    <3>1. Keyed(y)
      BY <2>1 DEF Keyed, ImageKey
    <3>. QED
      BY <1>1, <3>1, OneHolder
  <2>4. req[t].image # req[u].image
    BY <2>1, <2>2, <2>3
  <2>5. tx[t].row # NoRow /\ tx[u].row # NoRow => tx[t].row # tx[u].row
    <3>1. tx[t].row # NoRow => tx[t].row.key = ImageKey(req[t].image)
      BY <1>3 DEF UpsertOf
    <3>2. tx[u].row # NoRow => tx[u].row.key = ImageKey(req[u].image)
      BY <1>3 DEF UpsertOf
    <3>. QED
      BY <2>4, <3>1, <3>2 DEF ImageKey
  <2>6. Selected(t) => tx[t].row # NoRow
    BY <1>3 DEF UpsertOf
  <2>7. x.key[1] = "tags" /\ x \in tx[u].ins /\ Current(t).does = "ensure"
    BY <1>9, <1>10, <1>11, <1>14, <2>4, <2>5, <2>6 DEF ChildTables
  <2>8. x.key = Next1(t)
    BY <1>7, <2>7
  <2>9. ASSUME IsAt(u, {"ensure"}) PROVE Next1(t)[2] < Next1(u)[2]
    <3>1. Current(u).does = "ensure" /\ tx[u].at = 3
      BY <1>1, <1>3, <1>4, <2>9, UpsertNow DEF IsAt
    <3>2. tx[u].started /\ \A k \in Todo(u) : x.key[2] < k[2]
      BY <1>3, <2>7, <3>1 DEF TagsOf
    <3>3. Pending(u) = tx[u].todo
      BY <3>2 DEF Pending
    <3>4. Next1(u) \in Seqs!ToSet(Pending(u))
      BY <1>1, <1>2, <1>4, <3>1, PendingFacts DEF Next1, Keywise
    <3>. QED
      BY <2>8, <3>2, <3>3, <3>4 DEF Todo
  <2>10. IsAt(t, {"ensure"})
    BY <1>1, <2>7 DEF IsAt
  <2>. QED
    BY <1>1, <1>8, <2>9, <2>10
<1>. QED
  BY <1>13, <1>14

\* The least of the tags that upserts wait to insert: its holder waits in no circle.
LEMMA NoCircleOfUpserts ==
  ASSUME TypeOK, TodoOK, LocksExclude, KeysUnique, UpsertHolds, UpsertTags
  PROVE  UpsertsNeverDeadlock
<1>1. SUFFICES ASSUME NEW D \in SUBSET Txs, Deadlocked(D), \A t \in D : req[t].call = "upsert_image"
               PROVE  FALSE
  BY DEF UpsertsNeverDeadlock
<1>2. /\ D # {}
      /\ \A t \in D : \E u \in D : u \in Blockers(t)
      /\ \A C \in SUBSET D : C # {} /\ C # D => \E t \in C : Blockers(t) \cap C = {}
  BY <1>1 DEF Deadlocked
<1>3. ASSUME NEW t \in D, NEW u \in D, u \in Blockers(t)
      PROVE  /\ tx[u].at # 1
             /\ tx[t].at = 1 \/ IsAt(t, {"ensure"})
             /\ tx[t].at # 1 /\ IsAt(u, {"ensure"}) => Next1(t)[2] < Next1(u)[2]
  <2>1. Blockers(u) # {}
    BY <1>2
  <2>. QED
    BY <1>1, <1>3, <2>1, UpsertWaits
<1>. DEFINE E == {t \in D : tx[t].at # 1}
<1>4. E # {} /\ \A t \in E : IsAt(t, {"ensure"})
  <2>1. PICK t \in D : TRUE
    BY <1>2
  <2>2. PICK u \in D : u \in Blockers(t)
    BY <1>2
  <2>3. u \in E
    BY <1>3, <2>2
  <2>4. ASSUME NEW e \in E PROVE IsAt(e, {"ensure"})
    <3>1. PICK v \in D : v \in Blockers(e)
      BY <1>2
    <3>. QED
      BY <1>3, <3>1
  <2>. QED
    BY <2>3, <2>4
<1>5. \A t \in E : Next1(t)[2] \in Nat
  <2>1. SUFFICES ASSUME NEW t \in E PROVE Next1(t)[2] \in Nat
    OBVIOUS
  <2>2. IsAt(t, Kinds) /\ Current(t).does = "ensure" /\ Pending(t) # <<>>
    BY <1>2, <1>4 DEF IsAt, Kinds, Keywise, Blockers
  <2>3. Next1(t)[1] = "tags" /\ Next1(t) \in Key
    BY <2>2, PendingFacts DEF Next1
  <2>. QED
    BY <2>3, KeyFacts
<1>6. PICK e \in E : \A t \in E : Next1(e)[2] <= Next1(t)[2]
  <2>. DEFINE T == {Next1(t)[2] : t \in E}
  <2>1. T \subseteq Nat /\ T # {}
    BY <1>4, <1>5
  <2>2. PICK x \in T : \A y \in T : x <= y
    BY <2>1, NatMin
  <2>. QED
    BY <2>2
<1>. DEFINE C == {t \in E : Next1(e)[2] < Next1(t)[2]}
<1>7. \A t \in E : \E u \in C : u \in Blockers(t)
  <2>1. SUFFICES ASSUME NEW t \in E PROVE \E u \in C : u \in Blockers(t)
    OBVIOUS
  <2>2. PICK u \in D : u \in Blockers(t)
    BY <1>2
  <2>3. u \in E
    BY <1>3, <2>2
  <2>4. Next1(t)[2] < Next1(u)[2]
    BY <1>3, <1>4, <2>2, <2>3
  <2>5. Next1(e)[2] < Next1(u)[2]
    BY <1>5, <1>6, <2>3, <2>4
  <2>. QED
    BY <2>2, <2>3, <2>5
<1>8. C # {} /\ C \in SUBSET D /\ e \notin C /\ e \in D
  BY <1>5, <1>7
<1>9. PICK t \in C : Blockers(t) \cap C = {}
  BY <1>2, <1>8
<1>. QED
  BY <1>7, <1>9

-----------------------------------------------------------------------------
(* What the statements of each call insert and delete.                     *)

ItemTable(r) == IF r.call = "update_note" THEN "note_image_refs" ELSE "collection_images"

InsertedKey(t, k) ==
    \/ k[1] \in {"images", "tags", "image_tags", "generation_params"}
    \/ /\ req[t].call = "upsert_image" /\ Current(t).does = "put"
       /\ \E j \in 1..Len(req[t].refs) :
             tx[t].at = RefsAt(req[t]) + 1 + j /\ k = RefKey(req[t].image, req[t].refs[j])
    \/ /\ req[t].call = "upsert_image" /\ req[t].description /\ Current(t).does = "append"
       /\ tx[t].at = DescAt(req[t]) + 3 /\ k = <<"image_descriptions", tx[t].row, None>>
    \/ /\ req[t].call \in {"update_note", "set_collection_images"} /\ Current(t).does = "insert"
       /\ \E j \in 1..Len(req[t].images) :
             tx[t].at = 2 * j + 1 /\ k = <<ItemTable(req[t]), tx[t].row, req[t].images[j]>>

\* What the statements a program is made of do.
LEMMA Shapes ==
  /\ \A k : Putting(k).does = "put" /\ Putting(k).on = <<k>>
  /\ \A k : Inserting(k).does = "insert" /\ Inserting(k).on = <<k>>
  /\ \A k : Selecting(k).does = "select" /\ Deleting(k).does = "delete"
  /\ \A tags : Ensuring(tags).does = "ensure" /\ Linking(tags).does = "link"
  /\ CheckingParent.does = "fkey"
  /\ Doing("append", <<DescriptionKey>>, FALSE).does = "append"
  /\ Doing("append", <<DescriptionKey>>, FALSE).on = <<DescriptionKey>>
  /\ \A r : FirstOf(r).does \in {"update", "select"}
BY DEF Putting, Inserting, Selecting, Deleting, Ensuring, Linking, CheckingParent, FirstOf, Doing

\* The statement of a call that is no upsert and stores no list.
LEMMA OtherNow ==
  ASSUME TypeOK, NEW t \in Txs, IsAt(t, Kinds),
         req[t].call \notin {"upsert_image", "update_note", "set_collection_images"}
  PROVE  \/ req[t].call = "patch_image" /\ Current(t) \in PatchStatements(req[t])
         \/ req[t].call = "delete_images" /\ Current(t) \in DeleteStatements(req[t])
         \/ req[t].call = "delete_collection" /\ Current(t) \in CollectionStatements
<1>1. req[t] \in Requests
  BY DEF TypeOK
<1>2. tx[t].at \in 1..Len(Programs[req[t]])
  BY CurrentFacts DEF IsAt
<1>3. PICK P : P = Programs[req[t]]
  OBVIOUS
<1>4. PICK p \in 1..Len(P) : p = tx[t].at /\ Current(t) = P[p]
  BY <1>2, <1>3 DEF Current
<1>5. req[t].call \in {"patch_image", "delete_images", "delete_collection"}
  BY <1>1, RequestFacts
<1>6. CASE req[t].call = "patch_image"
  <2>1. P \in Seq(PatchStatements(req[t]))
    BY <1>1, <1>3, <1>6, OtherPrograms
  <2>. QED
    BY <1>4, <1>6, <2>1, ElementOfSeq
<1>7. CASE req[t].call = "delete_images"
  <2>1. P \in Seq(DeleteStatements(req[t]))
    BY <1>1, <1>3, <1>7, OtherPrograms
  <2>. QED
    BY <1>4, <1>7, <2>1, ElementOfSeq
<1>8. CASE req[t].call = "delete_collection"
  <2>1. P \in Seq(CollectionStatements)
    BY <1>1, <1>3, <1>8, OtherPrograms
  <2>. QED
    BY <1>4, <1>8, <2>1, ElementOfSeq
<1>. QED
  BY <1>5, <1>6, <1>7, <1>8

\* The statement of a call that stores a list.
LEMMA ListNow ==
  ASSUME TypeOK, NEW t \in Txs, IsAt(t, Kinds),
         req[t].call \in {"update_note", "set_collection_images"}
  PROVE  /\ Len(req[t].images) \in Nat /\ DOMAIN req[t].images = 1..Len(req[t].images)
         /\ req[t].images \in Seq(Images)
         /\ Len(Programs[req[t]]) = 2 + 2 * Len(req[t].images)
         /\ tx[t].at \in 1..(2 + 2 * Len(req[t].images))
         /\ tx[t].at = 1 => Current(t) = FirstOf(req[t])
         /\ tx[t].at = 2 => Current(t) = Doing("delete", {<<ItemTable(req[t]), This>>}, FALSE)
         /\ \A j \in 1..Len(req[t].images) :
               /\ tx[t].at = 2 * j + 1 => Current(t) = Inserting(ItemKey(req[t], req[t].images[j]))
               /\ tx[t].at = 2 * j + 2 => Current(t) = CheckingParent
<1>1. PICK r \in Requests : r = req[t]
  BY DEF TypeOK
<1>2. PICK P : P = Programs[r]
  OBVIOUS
<1>3. PICK l : l = Len(r.images)
  OBVIOUS
<1>4. /\ l \in Nat /\ DOMAIN r.images = 1..l /\ Len(P) = 2 + 2 * l /\ r.images \in Seq(Images)
      /\ P[1] = FirstOf(r) /\ P[2] = Deleting(ItemKey(r, None))
      /\ \A j \in 1..l : /\ P[2 * j + 1] = Inserting(ItemKey(r, r.images[j]))
                         /\ P[2 * j + 2] = CheckingParent
  <2>1. r.call \in {"update_note", "set_collection_images"}
    BY <1>1
  <2>2. ListIs(r, P, l)
    BY <1>1, <1>2, <1>3, <2>1, ListProgram
  <2>. QED
    BY <2>2 DEF ListIs
<1>5. tx[t].at \in 1..Len(P) /\ Current(t) = P[tx[t].at]
  BY <1>1, <1>2, CurrentFacts DEF IsAt, Current
<1>6. Deleting(ItemKey(r, None)) = Doing("delete", {<<ItemTable(r), This>>}, FALSE)
  BY DEF Deleting, ItemKey, ItemTable, NoteRefKey, MemberKey
<1>. QED
  BY <1>1, <1>2, <1>3, <1>4, <1>5, <1>6

\* What each call inserts, at which of its statements.
LEMMA Inserts ==
  ASSUME TypeOK, TodoOK, NEW t \in Txs, IsAt(t, OnceEach \cup Keywise), Pending(t) # <<>>
  PROVE  InsertedKey(t, Next1(t))
<1>1. IsAt(t, Kinds) /\ req[t] \in Requests
  BY DEF TypeOK, IsAt, Kinds
<1>2. /\ Current(t).does = "ensure" => Next1(t)[1] = "tags"
      /\ Current(t).does \in OnceEach =>
            \E k \in WrittenKey : Current(t).on = <<k>> /\ Next1(t) = Bound(t, k)
      /\ Current(t).does = "link" => \E g \in Current(t).on : Next1(t) = Bound(t, LinkKey(g))
  BY <1>1, PendingFacts DEF Next1
<1>3. Current(t).does = "link" => Next1(t)[1] = "image_tags"
  <2>1. SUFFICES ASSUME Current(t).does = "link" PROVE Next1(t)[1] = "image_tags"
    OBVIOUS
  <2>2. Current(t) \in StatementSet
    BY <1>1, CurrentFacts DEF IsAt
  <2>3. Current(t).on \in SUBSET Nat
    BY <2>1, <2>2 DEF StatementSet, WellFormed
  <2>4. PICK g \in Nat : Next1(t) = Bound(t, LinkKey(g))
    BY <1>2, <2>1, <2>3
  <2>. QED
    BY <2>4, BoundFacts
<1>4. SUFFICES ASSUME Current(t).does \in OnceEach, NEW k \in WrittenKey,
                      Current(t).on = <<k>>, Next1(t) = Bound(t, k)
               PROVE  InsertedKey(t, Next1(t))
  <2>1. Current(t).does \in OnceEach \cup Keywise
    BY DEF IsAt
  <2>. QED
    BY <1>2, <1>3, <1>4, <2>1 DEF Keywise, InsertedKey
<1>5. /\ k[1] \in ChildTables => Next1(t) = <<k[1], tx[t].row, k[3]>>
      /\ k[1] \notin ChildTables => Next1(t) = k
  BY <1>4, BoundFacts
<1>6. CASE req[t].call = "upsert_image"
  <2>1. PICK r \in Requests : r = req[t]
    BY <1>1
  <2>2. PICK p \in 1..Len(Programs[r]) : p = tx[t].at
    BY <1>1, <2>1, CurrentFacts DEF IsAt
  <2>3. UpsertAt(r, p) /\ Current(t) = Programs[r][p]
    BY <1>6, <2>1, <2>2, UpsertStatement DEF Current
  <2>4. \/ k = ImageKey(r.image)
        \/ /\ Current(t).does = "put"
           /\ \E j \in 1..Len(r.refs) : p = RefsAt(r) + 1 + j /\ k = RefKey(r.image, r.refs[j])
        \/ k = ParamsKey
        \/ /\ r.description /\ p = DescAt(r) + 3 /\ Current(t).does = "append" /\ k = DescriptionKey
    <3>1. PICK s : s = Current(t)
      OBVIOUS
    <3>2. s.on = <<k>> /\ s.does \in {"put", "insert", "append"}
      BY <1>4, <3>1 DEF OnceEach
    <3>3. \/ s = Putting(ImageKey(r.image))
          \/ \E j \in 1..Len(r.refs) : p = RefsAt(r) + 1 + j /\ s = Putting(RefKey(r.image, r.refs[j]))
          \/ s = Putting(ParamsKey)
          \/ r.description /\ p = DescAt(r) + 3 /\ s = Doing("append", <<DescriptionKey>>, FALSE)
      BY <2>3, <3>1, <3>2, Shapes DEF UpsertAt
    <3>4. \A q : s.on = <<q>> => q = k
      BY <3>2
    <3>5. CASE \E j \in 1..Len(r.refs) : p = RefsAt(r) + 1 + j /\ s = Putting(RefKey(r.image, r.refs[j]))
      <4>1. PICK j \in 1..Len(r.refs) : p = RefsAt(r) + 1 + j /\ s = Putting(RefKey(r.image, r.refs[j]))
        BY <3>5
      <4>2. s.does = "put" /\ k = RefKey(r.image, r.refs[j])
        BY <3>4, <4>1, Shapes
      <4>. QED
        BY <3>1, <4>1, <4>2
    <3>6. CASE r.description /\ p = DescAt(r) + 3 /\ s = Doing("append", <<DescriptionKey>>, FALSE)
      BY <3>1, <3>4, <3>6, Shapes
    <3>7. s = Putting(ImageKey(r.image)) => k = ImageKey(r.image)
      BY <3>4, Shapes
    <3>8. s = Putting(ParamsKey) => k = ParamsKey
      BY <3>4, Shapes
    <3>. QED
      BY <3>3, <3>5, <3>6, <3>7, <3>8
  <2>5. /\ ImageKey(r.image)[1] = "images" /\ "images" \notin ChildTables
        /\ \A j : RefKey(r.image, r.refs[j])[1] = "image_references"
        /\ "image_references" \notin ChildTables
        /\ ParamsKey[1] = "generation_params" /\ "generation_params" \in ChildTables
        /\ DescriptionKey[1] = "image_descriptions" /\ DescriptionKey[3] = None
        /\ "image_descriptions" \in ChildTables
    BY DEF ImageKey, RefKey, ParamsKey, DescriptionKey, ChildTables
  <2>. QED
    BY <1>5, <1>6, <2>1, <2>2, <2>4, <2>5 DEF InsertedKey
<1>7. CASE req[t].call \in {"update_note", "set_collection_images"}
  <2>1. PICK l \in Nat : l = Len(req[t].images)
    BY <1>1, <1>7, ListNow
  <2>2. /\ tx[t].at \in 1..(2 + 2 * l)
        /\ tx[t].at = 1 => Current(t) = FirstOf(req[t])
        /\ tx[t].at = 2 => Current(t) = Doing("delete", {<<ItemTable(req[t]), This>>}, FALSE)
        /\ \A j \in 1..l :
               /\ tx[t].at = 2 * j + 1 => Current(t) = Inserting(ItemKey(req[t], req[t].images[j]))
               /\ tx[t].at = 2 * j + 2 => Current(t) = CheckingParent
    BY <1>1, <1>7, <2>1, ListNow
  <2>3. tx[t].at # 1 /\ tx[t].at # 2
    BY <1>4, <2>2 DEF FirstOf, Selecting, Doing, OnceEach
  <2>4. PICK j \in 1..l : tx[t].at = 2 * j + 1 \/ tx[t].at = 2 * j + 2
    <3>1. PICK q \in 1..(2 + 2 * l) : q = tx[t].at
      BY <2>2
    <3>2. q > 2
      BY <2>3, <3>1
    <3>3. \E j \in 1..l : q = 2 * j + 1 \/ q = 2 * j + 2
      BY <3>2, ListPositions
    <3>. QED
      BY <3>1, <3>3
  <2>5. tx[t].at = 2 * j + 1 /\ Current(t) = Inserting(ItemKey(req[t], req[t].images[j]))
    BY <1>4, <2>2, <2>4 DEF CheckingParent, Doing, OnceEach
  <2>6. Current(t).does = "insert" /\ k = ItemKey(req[t], req[t].images[j])
    BY <1>4, <2>5 DEF Inserting, Doing
  <2>7. k[1] = ItemTable(req[t]) /\ k[3] = req[t].images[j] /\ k[1] \in ChildTables
    BY <2>6 DEF ItemKey, ItemTable, NoteRefKey, MemberKey, ChildTables
  <2>. QED
    BY <1>5, <1>7, <2>1, <2>5, <2>6, <2>7 DEF InsertedKey
<1>8. CASE req[t].call \notin {"upsert_image", "update_note", "set_collection_images"}
  <2>1. Current(t).does \notin OnceEach
    BY <1>1, <1>8, OtherNow DEF PatchStatements, DeleteStatements, CollectionStatements, OnceEach,
       Selecting, Deleting, CheckingParent, Ensuring, Linking, Doing
  <2>. QED
    BY <1>4, <2>1
<1>. QED
  BY <1>6, <1>7, <1>8

DeletedRow(t, x) ==
    \/ /\ req[t].call = "upsert_image"
       /\ \/ /\ x.key[1] = "image_references" /\ x.key[2] = req[t].image
             /\ req[t].refs # <<>> /\ tx[t].at = RefsAt(req[t]) + 1
          \/ /\ x.key[1] = "image_descriptions" /\ x.key[2] = tx[t].row
             /\ req[t].description /\ tx[t].at = DescAt(req[t]) + 2
    \/ req[t].call = "patch_image" /\ x.key[1] = "image_tags"
    \/ req[t].call = "delete_images" /\ x.key[1] \in {"images", "image_references"} \cup ChildTables
    \/ /\ req[t].call \in {"update_note", "set_collection_images"}
       /\ tx[t].at = 2 /\ x.key[1] = ItemTable(req[t])
    \/ /\ req[t].call = "delete_collection"
       /\ \/ x.key[1] = "collections"
          \/ x.key[1] \in ChildTables /\ x.key[2] \in tx[t].del

\* What each call deletes.
LEMMA Deletes ==
  ASSUME TypeOK, TodoOK, NEW t \in Txs, During(t, {"delete", "cascade"}), tx[t].st = "open",
         ~AtEnd(t), NEW x \in Todo(t)
  PROVE  DeletedRow(t, x)
<1>1. IsAt(t, Kinds) /\ req[t] \in Requests
  BY DEF TypeOK, During, IsAt, Kinds, Rowwise
<1>2. /\ Current(t).does = "cascade" => x.key[1] \in ChildTables /\ x.key[2] \in tx[t].del
      /\ Current(t).does # "cascade" => Current(t).does = "delete"
      /\ Current(t).does = "delete" => \E w \in Current(t).on : <<x.key[1], x.key[2]>> = Bound(t, w)
  BY DEF During, TodoOK, TodoOf
<1>3. \A w : /\ w[1] \notin ChildTables => Bound(t, w) = w
             /\ w = <<"image_descriptions", This>> => Bound(t, w) = <<"image_descriptions", tx[t].row>>
             /\ w = <<"image_tags", This>> => Bound(t, w) = <<"image_tags", tx[t].row>>
             /\ w = <<ItemTable(req[t]), This>> => Bound(t, w) = <<ItemTable(req[t]), tx[t].row>>
  BY DEF Bound, ItemTable, ChildTables
<1>4. CASE req[t].call = "upsert_image"
  <2>1. PICK r \in Requests : r = req[t]
    BY <1>1
  <2>2. PICK p \in 1..Len(Programs[r]) : p = tx[t].at
    BY <1>1, <2>1, CurrentFacts DEF IsAt
  <2>3. UpsertAt(r, p) /\ Current(t) = Programs[r][p]
    BY <1>4, <2>1, <2>2, UpsertStatement DEF Current
  <2>4. \/ /\ r.refs # <<>> /\ p = RefsAt(r) + 1
           /\ Current(t) = Deleting(RefKey(r.image, None))
        \/ /\ r.description /\ p = DescAt(r) + 2 /\ Current(t) = Deleting(DescriptionKey)
    <3>1. PICK s : s = Current(t)
      OBVIOUS
    <3>2. s.does = "delete" \/ s.does = "cascade"
      BY <3>1 DEF During
    <3>. QED
      BY <2>3, <3>1, <3>2, Shapes DEF UpsertAt
  <2>5. /\ Deleting(RefKey(r.image, None)) = Doing("delete", {<<"image_references", r.image>>}, FALSE)
        /\ Deleting(DescriptionKey) = Doing("delete", {<<"image_descriptions", This>>}, FALSE)
        /\ "image_references" \notin ChildTables
    BY DEF Deleting, RefKey, DescriptionKey, ChildTables
  <2>. QED
    BY <1>2, <1>3, <1>4, <2>1, <2>2, <2>4, <2>5 DEF DeletedRow, Doing
<1>5. CASE req[t].call \in {"update_note", "set_collection_images"}
  <2>1. PICK l \in Nat : l = Len(req[t].images)
    BY <1>1, <1>5, ListNow
  <2>2. /\ tx[t].at \in 1..(2 + 2 * l)
        /\ tx[t].at = 1 => Current(t) = FirstOf(req[t])
        /\ tx[t].at = 2 => Current(t) = Doing("delete", {<<ItemTable(req[t]), This>>}, FALSE)
        /\ \A j \in 1..l :
               /\ tx[t].at = 2 * j + 1 => Current(t) = Inserting(ItemKey(req[t], req[t].images[j]))
               /\ tx[t].at = 2 * j + 2 => Current(t) = CheckingParent
    BY <1>1, <1>5, <2>1, ListNow
  <2>3. tx[t].at = 2
    <3>1. tx[t].at # 1
      BY <2>2 DEF FirstOf, Selecting, Doing, During
    <3>2. ASSUME NEW j \in 1..l PROVE tx[t].at # 2 * j + 1 /\ tx[t].at # 2 * j + 2
      <4>1. PICK s : s = Current(t) /\ (s.does = "delete" \/ s.does = "cascade")
        BY DEF During
      <4>2. s # Inserting(ItemKey(req[t], req[t].images[j])) /\ s # CheckingParent
        BY <4>1, Shapes
      <4>. QED
        BY <2>2, <4>1, <4>2
    <3>3. tx[t].at = 2
      <4>1. PICK q \in 1..(2 + 2 * l) : q = tx[t].at
        BY <2>2
      <4>2. q > 2 => \E j \in 1..l : q = 2 * j + 1 \/ q = 2 * j + 2
        BY ListPositions
      <4>. QED
        BY <3>1, <3>2, <4>1, <4>2
    <3>. QED
      BY <3>3
  <2>. QED
    BY <1>2, <1>3, <1>5, <2>2, <2>3 DEF DeletedRow, Doing
<1>6. CASE req[t].call \notin {"upsert_image", "update_note", "set_collection_images"}
  <2>1. \/ req[t].call = "patch_image" /\ Current(t) \in PatchStatements(req[t])
        \/ req[t].call = "delete_images" /\ Current(t) \in DeleteStatements(req[t])
        \/ req[t].call = "delete_collection" /\ Current(t) \in CollectionStatements
    BY <1>1, <1>6, OtherNow
  <2>2. CASE req[t].call = "patch_image"
    <3>1. Current(t) = Deleting(LinkKey(None))
      BY <2>1, <2>2 DEF PatchStatements, Selecting, CheckingParent, Ensuring, Linking, Doing, During
    <3>2. Deleting(LinkKey(None)) = Doing("delete", {<<"image_tags", This>>}, FALSE)
      BY DEF Deleting, LinkKey
    <3>. QED
      BY <1>2, <1>3, <2>2, <3>1, <3>2 DEF DeletedRow, Doing
  <2>3. CASE req[t].call = "delete_images"
    <3>1. \/ Current(t) = Doing("delete", {<<"image_references", s>> : s \in req[t].images}, FALSE)
          \/ Current(t) = Doing("delete", {<<"images", s>> : s \in req[t].images}, FALSE)
          \/ Current(t).does = "cascade"
      BY <2>1, <2>3 DEF DeleteStatements, Doing
    <3>2. \A w : w[1] = "image_references" \/ w[1] = "images" => Bound(t, w) = w
      BY DEF Bound, ChildTables
    <3>. QED
      BY <1>2, <2>3, <3>1, <3>2 DEF DeletedRow, Doing
  <2>4. CASE req[t].call = "delete_collection"
    <3>1. \/ Current(t) = Doing("delete", {<<"collections", Collection>>}, FALSE)
          \/ Current(t).does = "cascade"
      BY <2>1, <2>4 DEF CollectionStatements, Deleting, CollectionKey, Doing
    <3>2. Bound(t, <<"collections", Collection>>) = <<"collections", Collection>>
      BY DEF Bound, ChildTables
    <3>. QED
      BY <1>2, <2>4, <3>1, <3>2 DEF DeletedRow, Doing
  <2>. QED
    BY <2>1, <2>2, <2>3, <2>4
<1>. QED
  BY <1>4, <1>5, <1>6

\* A transaction that goes on stays at its statement, or leaves it behind.
LEMMA Moving ==
  ASSUME TypeOK, TodoOK, NEW t \in Txs, Steps(t), tx'[t].st = "open", ~EndStep(t)
  PROVE  /\ IsAt(t, Kinds) /\ Goes(t)
         /\ \/ MovesTo(t, tx[t].at + 1)
            \/ tx'[t].at = tx[t].at /\ tx'[t].started = TRUE
            \/ MissStep(t) /\ Current(t).must /\ MovesTo(t, Len(Programs[req[t]]) + 1)
         /\ SameRow(t) \/ SelectStep(t) \/ UpdateStep(t)
<1>1. ~CommitStep(t)
  BY DEF CommitStep
<1>2. IsAt(t, Kinds) /\ Goes(t) /\ (SameRow(t) \/ SelectStep(t) \/ UpdateStep(t))
  BY <1>1 DEF Steps, MissStep, SelectStep, ScanStep, InsertStep, PresentStep, TakeStep, UpdateStep,
              DeleteStep, ParentStep, IsAt, Kinds, OnceEach, Rowwise, Keywise
<1>3. CASE MissStep(t)
  BY <1>2, <1>3 DEF MissStep
<1>4. CASE SelectStep(t) \/ TakeStep(t) \/ ParentStep(t)
  BY <1>2, <1>4 DEF SelectStep, TakeStep, ParentStep
<1>5. CASE ScanStep(t)
  BY <1>2, <1>5 DEF ScanStep
<1>6. CASE InsertStep(t) \/ PresentStep(t) \/ UpdateStep(t) \/ DeleteStep(t)
  <2>1. Passes(t)
    BY <1>6 DEF InsertStep, PresentStep, UpdateStep, DeleteStep
  <2>. QED
    BY <1>2, <2>1 DEF Passes
<1>. QED
  BY <1>1, <1>3, <1>4, <1>5, <1>6 DEF Steps

\* What a step adds to the rows that are inserted and to those that are deleted.
LEMMA Effects ==
  ASSUME TypeOK, TodoOK, NEW t \in Txs, Steps(t)
  PROVE  \/ CommitStep(t)
         \/ /\ EndStep(t) /\ db' = db /\ tx'[t].ins = {} /\ tx'[t].del = {}
            /\ tx'[t].at = 1 /\ tx'[t].started = FALSE
         \/ /\ db' = db /\ Goes(t) /\ ~EndStep(t) /\ ~InsertStep(t) /\ ~DeleteStep(t)
            /\ tx'[t].ins = tx[t].ins /\ tx'[t].del = tx[t].del
         \/ /\ db' = db /\ Goes(t) /\ ~EndStep(t) /\ InsertStep(t) /\ InsertedKey(t, Next1(t))
            /\ tx'[t].ins = tx[t].ins \cup {Row(Next1(t), t)} /\ tx'[t].del = tx[t].del
         \/ /\ db' = db /\ Goes(t) /\ ~EndStep(t) /\ DeleteStep(t) /\ DeletedRow(t, Next1(t))
            /\ tx'[t].ins = tx[t].ins \ {Next1(t)}
            /\ tx'[t].del = tx[t].del \cup ({Next1(t)} \cap db)
<1>1. CASE EndStep(t)
  BY <1>1 DEF EndStep, Clears, Data, MovesTo
<1>2. CASE ~EndStep(t) /\ InsertStep(t)
  <2>1. InsertedKey(t, Next1(t))
    BY <1>2, Inserts DEF InsertStep, Passes
  <2>. QED
    BY <1>2, <2>1 DEF InsertStep, Goes, Data
<1>3. CASE ~EndStep(t) /\ DeleteStep(t)
  <2>1. /\ During(t, {"delete", "cascade"}) /\ tx[t].st = "open" /\ ~AtEnd(t)
        /\ Next1(t) \in Todo(t)
    BY <1>3 DEF DeleteStep, IsAt, During
  <2>2. DeletedRow(t, Next1(t))
    BY <2>1, Deletes
  <2>. QED
    BY <1>3, <2>2 DEF DeleteStep, Goes, Data
<1>4. CASE ~EndStep(t) /\ ~InsertStep(t) /\ ~DeleteStep(t) /\ ~CommitStep(t)
  BY <1>4 DEF Steps, MissStep, SelectStep, ScanStep, PresentStep, TakeStep, UpdateStep,
              ParentStep, Goes, SameData, Data
<1>. QED
  BY <1>1, <1>2, <1>3, <1>4

\* A delete leaves no row behind of those it selects.
LEMMA Clearing ==
  ASSUME TypeOK, TodoOK, NEW t \in Txs, Steps(t), tx'[t].st = "open", ~EndStep(t),
         IsAt(t, {"delete"}), NEW w, Current(t) = Doing("delete", {w}, FALSE),
         NEW G, G \subseteq db, \A x \in G : <<x.key[1], x.key[2]>> = Bound(t, w),
         tx[t].started => G \subseteq Doomed(t)
  PROVE  /\ db' = db /\ SameRow(t)
         /\ \/ tx'[t].at = tx[t].at /\ tx'[t].started = TRUE /\ G \subseteq Doomed(t)'
            \/ MovesTo(t, tx[t].at + 1) /\ G \subseteq tx'[t].del
<1>1. MissStep(t) \/ ScanStep(t) \/ DeleteStep(t)
  BY DEF Steps, SelectStep, InsertStep, PresentStep, TakeStep, UpdateStep, ParentStep, CommitStep,
         IsAt, OnceEach, Keywise
<1>2. Current(t).does = "delete" /\ Current(t).on = {w} /\ ~Current(t).must
  BY DEF Doing
<1>3. IsAt(t, Kinds) /\ IsAt(t, Rowwise \cup {"select", "link"}) /\ req' = req
  BY OpenStep DEF IsAt, Kinds, Rowwise
<1>4. \A x \in Visible(t) : x \in Matches(t) <=> \E v \in Current(t).on : <<x.key[1], x.key[2]>> = Bound(t, v)
  BY <1>2, <1>3, MatchesFacts
<1>5. G \subseteq tx[t].del \cup Matches(t)
  BY <1>2, <1>4 DEF Visible
<1>6. CASE MissStep(t)
  <2>1. ~tx[t].started /\ Matches(t) = {}
    BY <1>2, <1>6 DEF MissStep
  <2>. QED
    BY <1>2, <1>5, <1>6, <2>1 DEF MissStep, Goes, SameData, Data
<1>7. CASE ScanStep(t)
  <2>1. /\ db' = db /\ SameRow(t) /\ tx'[t].at = tx[t].at /\ tx'[t].started = TRUE
        /\ tx'[t].del = tx[t].del /\ Seqs!ToSet(tx'[t].todo) = Matches(t)
    BY <1>7 DEF ScanStep, Goes, SameData, Data
  <2>2. Current(t)' = Current(t)
    BY <1>3, <2>1 DEF Current
  <2>3. Doomed(t)' = tx[t].del \cup Matches(t)
    BY <1>2, <2>1, <2>2 DEF Doomed, During, Todo
  <2>. QED
    BY <1>5, <2>1, <2>3
<1>8. CASE DeleteStep(t)
  <2>1. /\ db' = db /\ SameRow(t) /\ tx[t].started /\ Next1(t) \in Todo(t) /\ Passes(t) /\ Goes(t)
        /\ tx'[t].del = tx[t].del \cup ({Next1(t)} \cap db)
    BY <1>8 DEF DeleteStep, Goes, Data
  <2>2. Doomed(t) = tx[t].del \cup Todo(t) /\ Pending(t) = tx[t].todo
    BY <1>2, <2>1 DEF Doomed, During, Pending
  <2>3. CASE Len(Pending(t)) = 1
    <3>1. Pending(t) \in Seq(DbRow \cup Key) /\ Pending(t) # <<>>
      BY <1>2, <1>3, <2>1, PendingFacts DEF Rowwise, Passes
    <3>2. Todo(t) = {Next1(t)}
      BY <2>2, <2>3, <3>1, TailFacts DEF Todo, Next1
    <3>. QED
      BY <2>1, <2>2, <2>3, <3>2 DEF Passes
  <2>4. CASE Len(Pending(t)) # 1
    <3>1. /\ tx'[t].at = tx[t].at /\ tx'[t].started = TRUE
          /\ Seqs!ToSet(Pending(t)) = {Next1(t)} \cup Seqs!ToSet(tx'[t].todo)
      BY <1>3, <2>1, <2>4, ListGetsShorter
    <3>2. Current(t)' = Current(t)
      BY <1>3, <3>1 DEF Current
    <3>3. Doomed(t)' = tx'[t].del \cup Seqs!ToSet(tx'[t].todo)
      BY <1>2, <3>1, <3>2 DEF Doomed, During, Todo
    <3>. QED
      BY <2>1, <2>2, <3>1, <3>3 DEF Todo
  <2>. QED
    BY <2>3, <2>4
<1>. QED
  BY <1>1, <1>6, <1>7, <1>8

-----------------------------------------------------------------------------
(* The references of an image.                                             *)

RefsOf(s) == {x \in db : x.key[1] = "image_references" /\ x.key[2] = s}
ReferenceRow(t, j) == Row(RefKey(req[t].image, req[t].refs[j]), t)

\* An upsert with references deletes all there are of its image and then inserts its
\* own, one after the other.
RefsOwn(t) ==
    /\ \A x \in tx[t].ins : x.key[1] = "image_references" =>
          /\ Upserting(t) /\ req[t].refs # <<>> /\ tx[t].at > RefsAt(req[t]) + 1
          /\ \E j \in 1..Len(req[t].refs) : x = ReferenceRow(t, j)
    /\ Upserting(t) /\ req[t].refs # <<>> =>
          /\ tx[t].at = RefsAt(req[t]) + 1 /\ tx[t].started => RefsOf(req[t].image) \subseteq Doomed(t)
          /\ tx[t].at > RefsAt(req[t]) + 1 => RefsOf(req[t].image) \subseteq tx[t].del
          /\ \A j \in 1..Len(req[t].refs) :
                tx[t].at > RefsAt(req[t]) + 1 + j => ReferenceRow(t, j) \in tx[t].ins

\* The references of an image that are stored have one writer, an upsert of the image,
\* and are all those of its request.
RefsStored ==
    /\ \A x, y \in db :
          x.key[1] = "image_references" /\ y.key[1] = "image_references" /\ x.key[2] = y.key[2]
              => x.by = y.by
    /\ \A x \in db : x.key[1] = "image_references" /\ x.by # Seed =>
          /\ req[x.by].call = "upsert_image" /\ x.key[2] = req[x.by].image
          /\ \E j \in 1..Len(req[x.by].refs) : x.key[3] = req[x.by].refs[j]
          /\ \A j \in 1..Len(req[x.by].refs) : ReferenceRow(x.by, j) \in db
RefsInv == (\A t \in Txs : RefsOwn(t)) /\ RefsStored

\* The statements of an upsert that replace the references.
LEMMA RefsNow ==
  ASSUME TypeOK, NEW t \in Txs, req[t].call = "upsert_image", req[t].refs # <<>>
  PROVE  /\ RefsAt(req[t]) \in Nat \ {0} /\ Len(req[t].refs) \in Nat
         /\ tx[t].at = RefsAt(req[t]) + 1 /\ ~AtEnd(t) =>
               Current(t) = Doing("delete", {<<"image_references", req[t].image>>}, FALSE)
         /\ \A j \in 1..Len(req[t].refs) : tx[t].at = RefsAt(req[t]) + 1 + j /\ ~AtEnd(t) =>
               Current(t) = Putting(RefKey(req[t].image, req[t].refs[j]))
         /\ AtEnd(t) => /\ tx[t].at > RefsAt(req[t]) + 1
                        /\ \A j \in 1..Len(req[t].refs) : tx[t].at > RefsAt(req[t]) + 1 + j
<1>1. PICK r \in Requests : r = req[t]
  BY DEF TypeOK
<1>2. PICK P : P = Programs[r]
  OBVIOUS
<1>3. Len(P) = UpsertLen(r) /\ RefsPart(r, P, RefsAt(r))
  BY <1>1, <1>2, UpsertProgram
<1>4. /\ Len(r.refs) \in Nat /\ RefsAt(r) \in Nat /\ RefsAt(r) >= ParamsAt(r) /\ ParamsAt(r) \in {1, 5}
      /\ DescAt(r) = RefsAt(r) + 1 + Len(r.refs)
      /\ UpsertLen(r) = DescAt(r) + 4 \/ UpsertLen(r) = DescAt(r)
  BY <1>1, UpsertAts
<1>5. Deleting(RefKey(r.image, None)) = Doing("delete", {<<"image_references", r.image>>}, FALSE)
  BY DEF Deleting, RefKey
<1>6. AtEnd(t) => tx[t].at > Len(P) /\ tx[t].at \in Nat
  BY <1>1, <1>2, CurrentFacts DEF AtEnd
<1>7. RefsAt(r) \in Nat \ {0}
  BY <1>4
<1>8. AtEnd(t) => tx[t].at > RefsAt(r) + 1 /\ \A j \in 1..Len(r.refs) : tx[t].at > RefsAt(r) + 1 + j
  <2>1. SUFFICES ASSUME AtEnd(t)
                 PROVE  tx[t].at > RefsAt(r) + 1 /\ \A j \in 1..Len(r.refs) : tx[t].at > RefsAt(r) + 1 + j
    OBVIOUS
  <2>2. tx[t].at > DescAt(r)
    BY <1>3, <1>4, <1>6, <2>1
  <2>. QED
    BY <1>4, <1>6, <2>1, <2>2
<1>. QED
  BY <1>1, <1>2, <1>3, <1>4, <1>5, <1>7, <1>8 DEF RefsPart, Current

\* An upsert's own steps keep what is known of the references it replaces.
LEMMA RefsOwnStep ==
  ASSUME TypeOK, TodoOK, WritersOK, LocksExclude, KeysUnique, UpsertHolds,
         NEW t \in Txs, RefsOwn(t), Steps(t)
  PROVE  RefsOwn(t)'
<1>1. req' = req /\ tx[t].st = "open" /\ tx[t].at \in Nat \ {0}
  BY OpenStep, CurrentFacts
<1>2. CASE tx'[t].ins = {} /\ tx'[t].at = 1 /\ tx'[t].started = FALSE
  <2>1. Upserting(t)' /\ req[t].refs # <<>> => RefsAt(req[t]) \in Nat \ {0} /\ Len(req[t].refs) \in Nat
    BY <1>1, RefsNow DEF Upserting, Runs
  <2>. QED
    BY <1>1, <1>2, <2>1 DEF RefsOwn, Upserting, Runs
<1>3. CASE db' = db /\ Goes(t) /\ ~EndStep(t) /\ tx'[t].st = "open"
  <2>0. /\ Upserting(t) => /\ IsAt(t, Kinds)
                           /\ tx'[t].at = tx[t].at + 1 \/ tx'[t].at = tx[t].at
                           /\ MovesTo(t, tx[t].at + 1) \/ (tx'[t].at = tx[t].at /\ tx'[t].started = TRUE)
    <3>1. SUFFICES ASSUME Upserting(t)
                   PROVE  /\ IsAt(t, Kinds)
                          /\ tx'[t].at = tx[t].at + 1 \/ tx'[t].at = tx[t].at
                          /\ MovesTo(t, tx[t].at + 1) \/ (tx'[t].at = tx[t].at /\ tx'[t].started = TRUE)
      OBVIOUS
    <3>2. UpsertOf(t)
      BY <3>1 DEF UpsertHolds
    <3>3. IsAt(t, Kinds) /\ (tx'[t].at = tx[t].at + 1 \/ tx'[t].at = tx[t].at)
      BY <1>3, <3>1, <3>2, UpsertMoves
    <3>4. Current(t).must => Current(t).does = "select"
      BY <3>1, <3>3, UpsertNow
    <3>5. \/ MovesTo(t, tx[t].at + 1)
          \/ tx'[t].at = tx[t].at /\ tx'[t].started = TRUE
          \/ MissStep(t) /\ Current(t).must
      BY <1>3, Moving
    <3>6. MissStep(t) => SameData(t) /\ SameRow(t)
      BY DEF MissStep
    <3>7. MissStep(t) /\ Current(t).does = "select" => FALSE
      BY <1>3, <3>1, <3>2, UpsertMoves DEF MissStep, SelectStep, InsertStep, TakeStep, DeleteStep, IsAt,
         OnceEach, Keywise
    <3>. QED
      BY <3>3, <3>4, <3>5, <3>7
  <2>1. ASSUME NEW x \in tx'[t].ins, x.key[1] = "image_references"
        PROVE  /\ Upserting(t) /\ req[t].refs # <<>> /\ tx'[t].at > RefsAt(req[t]) + 1
               /\ \E j \in 1..Len(req[t].refs) : x = ReferenceRow(t, j)
    <3>1. CASE x \in tx[t].ins
      <4>1. /\ Upserting(t) /\ req[t].refs # <<>> /\ tx[t].at > RefsAt(req[t]) + 1
            /\ \E j \in 1..Len(req[t].refs) : x = ReferenceRow(t, j)
        BY <2>1, <3>1 DEF RefsOwn
      <4>2. RefsAt(req[t]) \in Nat
        BY <4>1, RefsNow DEF Upserting, Runs
      <4>. QED
        BY <1>1, <2>0, <4>1, <4>2
    <3>2. CASE x \notin tx[t].ins
      <4>1. InsertedKey(t, Next1(t)) /\ x = Row(Next1(t), t)
        BY <1>3, <2>1, <3>2, Effects DEF CommitStep, Goes
      <4>2. x.key = Next1(t)
        BY <4>1 DEF Row
      <4>3. /\ req[t].call = "upsert_image"
            /\ \E j \in 1..Len(req[t].refs) :
                  tx[t].at = RefsAt(req[t]) + 1 + j /\ Next1(t) = RefKey(req[t].image, req[t].refs[j])
        BY <2>1, <4>1, <4>2 DEF InsertedKey, ItemTable
      <4>4. PICK j \in 1..Len(req[t].refs) :
               tx[t].at = RefsAt(req[t]) + 1 + j /\ Next1(t) = RefKey(req[t].image, req[t].refs[j])
        BY <4>3
      <4>5. Upserting(t) /\ req[t].refs # <<>>
        BY <1>1, <4>3, <4>4 DEF Upserting, Runs
      <4>6. RefsAt(req[t]) \in Nat /\ Len(req[t].refs) \in Nat
        BY <4>3, <4>5, RefsNow
      <4>7. tx'[t].at > RefsAt(req[t]) + 1
        BY <2>0, <4>4, <4>5, <4>6
      <4>. QED
        BY <4>1, <4>4, <4>5, <4>7 DEF ReferenceRow
    <3>. QED
      BY <3>1, <3>2
  <2>2. ASSUME Upserting(t), req[t].refs # <<>>
        PROVE  /\ tx'[t].at = RefsAt(req[t]) + 1 /\ tx'[t].started => RefsOf(req[t].image) \subseteq Doomed(t)'
               /\ tx'[t].at > RefsAt(req[t]) + 1 => RefsOf(req[t].image) \subseteq tx'[t].del
               /\ \A j \in 1..Len(req[t].refs) :
                     tx'[t].at > RefsAt(req[t]) + 1 + j => ReferenceRow(t, j) \in tx'[t].ins
    <3>1. PICK d : d = RefsAt(req[t]) + 1
      OBVIOUS
    <3>2. PICK G : G = RefsOf(req[t].image)
      OBVIOUS
    <3>3. /\ d \in Nat /\ d > 1 /\ Len(req[t].refs) \in Nat
          /\ tx[t].at = d => Current(t) = Doing("delete", {<<"image_references", req[t].image>>}, FALSE)
          /\ \A j \in 1..Len(req[t].refs) : tx[t].at = d + j =>
                Current(t) = Putting(RefKey(req[t].image, req[t].refs[j]))
      <4>1. ~AtEnd(t)
        BY <2>0, <2>2 DEF IsAt
      <4>2. PICK n : n = RefsAt(req[t])
        OBVIOUS
      <4>3. /\ n \in Nat \ {0} /\ Len(req[t].refs) \in Nat
            /\ tx[t].at = n + 1 => Current(t) = Doing("delete", {<<"image_references", req[t].image>>}, FALSE)
            /\ \A j \in 1..Len(req[t].refs) : tx[t].at = n + 1 + j =>
                  Current(t) = Putting(RefKey(req[t].image, req[t].refs[j]))
        <5>1. req[t].call = "upsert_image"
          BY <2>2 DEF Upserting, Runs
        <5>. QED
          BY ONLY <2>2, <4>1, <4>2, <5>1, TypeOK, t \in Txs, RefsNow
      <4>4. d = n + 1 /\ d \in Nat /\ d > 1
        BY <3>1, <4>2, <4>3
      <4>5. tx[t].at = d => Current(t) = Doing("delete", {<<"image_references", req[t].image>>}, FALSE)
        BY <4>3, <4>4
      <4>6. \A j \in 1..Len(req[t].refs) : tx[t].at = d + j =>
               Current(t) = Putting(RefKey(req[t].image, req[t].refs[j]))
        BY <4>3, <4>4
      <4>. QED
        BY <4>3, <4>4, <4>5, <4>6
    <3>4. /\ tx[t].at = d /\ tx[t].started => G \subseteq Doomed(t)
          /\ tx[t].at > d => G \subseteq tx[t].del
          /\ \A j \in 1..Len(req[t].refs) : tx[t].at > d + j => ReferenceRow(t, j) \in tx[t].ins
      BY <2>2, <3>1, <3>2 DEF RefsOwn
    <3>5. tx[t].del \subseteq tx'[t].del
      BY <1>3, Effects DEF CommitStep, Goes
    <3>6. CASE tx[t].at < d
      <4>1. tx'[t].at < d \/ (tx'[t].at = d /\ tx'[t].started = FALSE)
        BY <1>1, <2>0, <2>2, <3>3, <3>6 DEF MovesTo
      <4>2. tx'[t].at \in Nat
        BY <1>1, <2>0, <2>2
      <4>3. ~ (tx'[t].at > d) /\ \A j \in 1..Len(req[t].refs) : ~ (tx'[t].at > d + j)
        BY <3>3, <4>1, <4>2
      <4>. QED
        BY <3>1, <4>1, <4>3
    <3>7. CASE tx[t].at = d
      <4>1. PICK w : w = <<"image_references", req[t].image>>
        OBVIOUS
      <4>2. Bound(t, w) = w
        BY <4>1 DEF Bound, ChildTables
      <4>3. \A x \in G : <<x.key[1], x.key[2]>> = Bound(t, w)
        BY <3>2, <4>1, <4>2 DEF RefsOf
      <4>4. Current(t) = Doing("delete", {w}, FALSE) /\ IsAt(t, {"delete"})
        BY <2>0, <2>2, <3>3, <3>7, <4>1 DEF IsAt, Doing
      <4>5. G \subseteq db /\ (tx[t].started => G \subseteq Doomed(t))
        BY <3>2, <3>4, <3>7 DEF RefsOf
      <4>6. \/ tx'[t].at = d /\ G \subseteq Doomed(t)'
            \/ tx'[t].at = d + 1 /\ G \subseteq tx'[t].del
        BY <1>3, <3>7, <4>3, <4>4, <4>5, Clearing DEF MovesTo
      <4>. QED
        BY <3>1, <3>2, <3>3, <4>6
    <3>8. CASE tx[t].at > d
      <4>1. tx'[t].at > d
        BY <1>1, <2>0, <2>2, <3>3, <3>8
      <4>2. ASSUME NEW j \in 1..Len(req[t].refs), tx'[t].at > d + j
            PROVE  ReferenceRow(t, j) \in tx'[t].ins
        <5>1. PICK y : y = ReferenceRow(t, j)
          OBVIOUS
        <5>2. y.key = RefKey(req[t].image, req[t].refs[j]) /\ y.key[1] = "image_references"
          BY <5>1 DEF ReferenceRow, Row, RefKey
        <5>3. CASE tx[t].at > d + j
          <6>1. y \in tx[t].ins
            BY <3>4, <5>1, <5>3
          <6>2. ~DeletedRow(t, y)
            <7>1. tx[t].at # RefsAt(req[t]) + 1 /\ req[t].call = "upsert_image"
              BY <2>2, <3>1, <3>3, <3>8 DEF Upserting, Runs
            <7>. QED
              BY <5>2, <7>1 DEF DeletedRow
          <6>. QED
            BY <1>3, <5>1, <6>1, <6>2, Effects DEF CommitStep, Goes
        <5>4. CASE tx[t].at = d + j
          <6>1. Current(t).does = "put" /\ Current(t).on = <<y.key>>
            BY <3>3, <5>2, <5>4, Shapes
          <6>2. ~tx[t].started
            BY <6>1 DEF TodoOK, TodoOf, Rowwise, Keywise
          <6>3. Pending(t) = <<y.key>>
            <7>1. Bound(t, y.key) = y.key
              BY <5>2 DEF Bound, ChildTables
            <7>2. DOMAIN Current(t).on = {1} /\ Current(t).on[1] = y.key
              BY <6>1
            <7>. QED
              BY <6>1, <6>2, <7>1, <7>2 DEF Pending
          <6>4. Next1(t) = y.key
            BY <6>3 DEF Next1
          <6>5. InsertStep(t) \/ TakeStep(t)
            <7>1. ~MissStep(t)
              BY <6>1 DEF MissStep, IsAt, Rowwise
            <7>. QED
              BY <1>3, <6>1 DEF Steps, MissStep, SelectStep, ScanStep, PresentStep, UpdateStep,
                 DeleteStep, ParentStep, CommitStep, IsAt, Rowwise, Keywise
          <6>6. CASE InsertStep(t)
            <7>1. Row(y.key, t) \in tx'[t].ins
              BY <6>4, <6>6 DEF InsertStep, Data
            <7>. QED
              BY <5>1, <5>2, <7>1 DEF ReferenceRow
          <6>7. CASE TakeStep(t)
            <7>1. PICK z \in Named(t, y.key) : TRUE
              BY <6>4, <6>7 DEF TakeStep
            <7>2. z \in Visible(t) /\ z.key = y.key
              BY <7>1 DEF Named
            <7>3. z \notin db \ tx[t].del
              <8>1. z \in db => z \in G
                BY <3>2, <5>2, <7>2 DEF RefsOf, RefKey
              <8>. QED
                BY <3>4, <3>8, <8>1
            <7>4. z \in tx[t].ins
              BY <7>2, <7>3 DEF Visible
            <7>5. z = y
              <8>1. z \in DbRow /\ z.by = t
                BY <7>4 DEF TypeOK, TxRecord, WritersOK
              <8>2. z = Row(z.key, z.by)
                BY <8>1, RowFacts
              <8>. QED
                BY <5>1, <5>2, <7>2, <8>1, <8>2 DEF ReferenceRow
            <7>. QED
              BY <5>1, <6>7, <7>4, <7>5 DEF TakeStep, Data
          <6>. QED
            BY <6>5, <6>6, <6>7
        <5>. QED
          BY <1>1, <2>0, <2>2, <3>3, <4>2, <5>3, <5>4
      <4>. QED
        BY <3>1, <3>2, <3>3, <3>4, <3>5, <3>8, <4>1, <4>2
    <3>. QED
      BY <1>1, <3>3, <3>6, <3>7, <3>8
  <2>3. RefsOf(req[t].image)' = RefsOf(req[t].image) /\ (\A j : ReferenceRow(t, j)' = ReferenceRow(t, j))
    BY <1>1, <1>3 DEF RefsOf, ReferenceRow
  <2>4. Upserting(t)' <=> Upserting(t)
    BY <1>1, <1>3 DEF Upserting, Runs
  <2>. QED
    BY <1>1, <2>1, <2>2, <2>3, <2>4 DEF RefsOwn
<1>. QED
  BY <1>2, <1>3, Effects DEF CommitStep, Clears, Data, MovesTo, Goes

\* An upsert keeps the references of its image for itself, also when another
\* transaction commits.
LEMMA RefsOthers ==
  ASSUME TypeOK, WritersOK, LocksExclude, KeysUnique, UpsertHolds,
         NEW t \in Txs, RefsOwn(t), Steps(t), NEW u \in Txs \ {t}, RefsOwn(u)
  PROVE  RefsOwn(u)'
<1>1. req' = req /\ tx'[u] = tx[u] /\ tx[t].st = "open"
  BY OpenStep
<1>2. /\ Doomed(u)' = Doomed(u) /\ (Upserting(u)' <=> Upserting(u))
      /\ \A j : ReferenceRow(u, j)' = ReferenceRow(u, j)
  BY <1>1, OthersStay DEF Doomed, Upserting, Runs, ReferenceRow
<1>3. ASSUME Upserting(u), req[u].refs # <<>>, tx[u].at >= RefsAt(req[u]) + 1
      PROVE  RefsOf(req[u].image)' \subseteq RefsOf(req[u].image)
  <2>1. db' = db \/ CommitStep(t)
    BY DEF Steps, MissStep, SelectStep, ScanStep, InsertStep, PresentStep, TakeStep, UpdateStep,
           DeleteStep, ParentStep, EndStep, Goes
  <2>2. CASE db' = db
    BY <1>1, <2>2 DEF RefsOf
  <2>3. CASE CommitStep(t)
    <3>1. db' \subseteq db \cup tx[t].ins
      BY <2>3 DEF CommitStep
    <3>2. ASSUME NEW x \in tx[t].ins, x.key[1] = "image_references", x.key[2] = req[u].image
          PROVE  FALSE
      <4>1. /\ Upserting(t) /\ req[t].refs # <<>> /\ tx[t].at > RefsAt(req[t]) + 1
            /\ \E j \in 1..Len(req[t].refs) : x = ReferenceRow(t, j)
        BY <3>2 DEF RefsOwn
      <4>2. req[t].image = req[u].image
        BY <3>2, <4>1 DEF ReferenceRow, Row, RefKey
      <4>3. UpsertOf(t) /\ UpsertOf(u)
        BY <1>3, <4>1 DEF UpsertHolds
      <4>4. tx[t].at > 1 /\ tx[u].at > 1
        <5>1. RefsAt(req[t]) \in Nat \ {0} /\ RefsAt(req[u]) \in Nat \ {0}
          BY <1>3, <4>1, RefsNow DEF Upserting, Runs
        <5>2. tx[t].at \in Nat /\ tx[u].at \in Nat
          BY CurrentFacts
        <5>. QED
          BY <1>3, <4>1, <5>1, <5>2
      <4>5. PICK y \in tx[t].ins \cup tx[t].upd : y.key = ImageKey(req[t].image)
        BY <4>3, <4>4 DEF UpsertOf
      <4>6. PICK z \in tx[u].ins \cup tx[u].upd : z.key = ImageKey(req[u].image)
        BY <4>3, <4>4 DEF UpsertOf
      <4>7. Keyed(y)
        BY <4>5 DEF Keyed, ImageKey
      <4>. QED
        BY <4>2, <4>5, <4>6, <4>7, OneHolder
    <3>. QED
      BY <1>1, <3>1, <3>2 DEF RefsOf
  <2>. QED
    BY <2>1, <2>2, <2>3
<1>4. ASSUME Upserting(u), req[u].refs # <<>>
      PROVE  /\ tx[u].at = RefsAt(req[u]) + 1 /\ tx[u].started => RefsOf(req[u].image)' \subseteq Doomed(u)
             /\ tx[u].at > RefsAt(req[u]) + 1 => RefsOf(req[u].image)' \subseteq tx[u].del
             /\ \A j \in 1..Len(req[u].refs) :
                   tx[u].at > RefsAt(req[u]) + 1 + j => ReferenceRow(u, j) \in tx[u].ins
  <2>1. RefsAt(req[u]) \in Nat /\ tx[u].at \in Nat
    BY <1>4, RefsNow, CurrentFacts DEF Upserting, Runs
  <2>2. /\ tx[u].at = RefsAt(req[u]) + 1 /\ tx[u].started => RefsOf(req[u].image) \subseteq Doomed(u)
        /\ tx[u].at > RefsAt(req[u]) + 1 => RefsOf(req[u].image) \subseteq tx[u].del
        /\ \A j \in 1..Len(req[u].refs) :
              tx[u].at > RefsAt(req[u]) + 1 + j => ReferenceRow(u, j) \in tx[u].ins
    BY <1>4 DEF RefsOwn
  <2>3. tx[u].at = RefsAt(req[u]) + 1 \/ tx[u].at > RefsAt(req[u]) + 1 =>
           RefsOf(req[u].image)' \subseteq RefsOf(req[u].image)
    BY <1>3, <1>4, <2>1
  <2>. QED
    BY <2>2, <2>3
<1>5. \A x \in tx[u].ins : x.key[1] = "image_references" =>
          /\ Upserting(u) /\ req[u].refs # <<>> /\ tx[u].at > RefsAt(req[u]) + 1
          /\ \E j \in 1..Len(req[u].refs) : x = ReferenceRow(u, j)
  BY DEF RefsOwn
<1>. QED
  BY <1>1, <1>2, <1>4, <1>5 DEF RefsOwn

\* An upsert replaces the references of its image by all of its own.
LEMMA RefsStoredStep ==
  ASSUME TypeOK, TodoOK, WritersOK, LocksExclude, KeysUnique, DeletesGroups,
         NEW t \in Txs, RefsOwn(t), RefsStored, Steps(t)
  PROVE  RefsStored'
<1>1. req' = req /\ tx[t].st = "open" /\ \A u, j : ReferenceRow(u, j)' = ReferenceRow(u, j)
  BY OpenStep DEF ReferenceRow
<1>2. db' = db \/ CommitStep(t)
  BY DEF Steps, MissStep, SelectStep, ScanStep, InsertStep, PresentStep, TakeStep, UpdateStep,
         DeleteStep, ParentStep, EndStep, Goes
<1>3. CASE db' = db
  BY <1>1, <1>3 DEF RefsStored
<1>4. CASE CommitStep(t)
  <2>1. db' = (db \ tx[t].del) \cup tx[t].ins /\ AtEnd(t)
    BY <1>4 DEF CommitStep
  <2>2. ASSUME NEW x \in tx[t].ins, x.key[1] = "image_references"
        PROVE  /\ x.by = t /\ req[t].call = "upsert_image" /\ x.key[2] = req[t].image
               /\ RefsOf(req[t].image) \subseteq tx[t].del
               /\ \E j \in 1..Len(req[t].refs) : x.key[3] = req[t].refs[j]
               /\ \A j \in 1..Len(req[t].refs) : ReferenceRow(t, j) \in tx[t].ins
    <3>1. /\ Upserting(t) /\ req[t].refs # <<>>
          /\ \E j \in 1..Len(req[t].refs) : x = ReferenceRow(t, j)
      BY <2>2 DEF RefsOwn
    <3>2. /\ tx[t].at > RefsAt(req[t]) + 1
          /\ \A j \in 1..Len(req[t].refs) : tx[t].at > RefsAt(req[t]) + 1 + j
      BY <2>1, <3>1, RefsNow DEF Upserting, Runs
    <3>3. /\ RefsOf(req[t].image) \subseteq tx[t].del
          /\ \A j \in 1..Len(req[t].refs) : ReferenceRow(t, j) \in tx[t].ins
      BY <3>1, <3>2 DEF RefsOwn
    <3>4. PICK j \in 1..Len(req[t].refs) : x = ReferenceRow(t, j)
      BY <3>1
    <3>5. x.by = t /\ x.key[2] = req[t].image /\ x.key[3] = req[t].refs[j]
      BY <3>4 DEF ReferenceRow, Row, RefKey
    <3>. QED
      BY <3>1, <3>3, <3>5 DEF Upserting, Runs
  <2>3. ASSUME NEW x \in db \ tx[t].del, NEW y \in db, y.key[1] = x.key[1], y.key[2] = x.key[2],
               y.by = x.by
        PROVE  y \in db'
    <3>1. y \notin Doomed(t) \/ x \in Doomed(t)
      BY <2>3 DEF DeletesGroups, Together
    <3>2. Doomed(t) = tx[t].del
      <4>1. ~tx[t].started
        BY <2>1 DEF TodoOK, TodoOf
      <4>. QED
        BY <4>1 DEF Doomed, During
    <3>. QED
      BY <2>1, <2>3, <3>1, <3>2
  <2>4. ASSUME NEW x \in db', NEW y \in db', x.key[1] = "image_references", y.key[1] = "image_references",
               x.key[2] = y.key[2]
        PROVE  x.by = y.by
    <3>1. CASE x \in tx[t].ins /\ y \in tx[t].ins
      BY <2>2, <2>4, <3>1
    <3>2. CASE x \in tx[t].ins /\ y \in db \ tx[t].del
      BY <2>2, <2>4, <3>2 DEF RefsOf
    <3>3. CASE x \in db \ tx[t].del /\ y \in tx[t].ins
      BY <2>2, <2>4, <3>3 DEF RefsOf
    <3>4. CASE x \in db /\ y \in db
      BY <2>4, <3>4 DEF RefsStored
    <3>. QED
      BY <2>1, <3>1, <3>2, <3>3, <3>4
  <2>5. ASSUME NEW x \in db', x.key[1] = "image_references", x.by # Seed
        PROVE  /\ req[x.by].call = "upsert_image" /\ x.key[2] = req[x.by].image
               /\ \E j \in 1..Len(req[x.by].refs) : x.key[3] = req[x.by].refs[j]
               /\ \A j \in 1..Len(req[x.by].refs) : ReferenceRow(x.by, j) \in db'
    <3>1. CASE x \in tx[t].ins
      BY <2>1, <2>2, <2>5, <3>1
    <3>2. CASE x \in db \ tx[t].del
      <4>1. /\ req[x.by].call = "upsert_image" /\ x.key[2] = req[x.by].image
            /\ \E j \in 1..Len(req[x.by].refs) : x.key[3] = req[x.by].refs[j]
            /\ \A j \in 1..Len(req[x.by].refs) : ReferenceRow(x.by, j) \in db
        BY <2>5, <3>2 DEF RefsStored
      <4>2. ASSUME NEW j \in 1..Len(req[x.by].refs) PROVE ReferenceRow(x.by, j) \in db'
        <5>1. PICK y : y = ReferenceRow(x.by, j)
          OBVIOUS
        <5>2. y.key[1] = x.key[1] /\ y.key[2] = x.key[2] /\ y.by = x.by
          BY <2>5, <4>1, <5>1 DEF ReferenceRow, Row, RefKey
        <5>. QED
          BY <2>3, <3>2, <4>1, <5>1, <5>2
      <4>. QED
        BY <4>1, <4>2
    <3>. QED
      BY <2>1, <3>1, <3>2
  <2>6. \A x, y \in db' :
          x.key[1] = "image_references" /\ y.key[1] = "image_references" /\ x.key[2] = y.key[2]
              => x.by = y.by
    BY <2>4
  <2>7. \A x \in db' : x.key[1] = "image_references" /\ x.by # Seed =>
           /\ req'[x.by].call = "upsert_image" /\ x.key[2] = req'[x.by].image
           /\ \E j \in 1..Len(req'[x.by].refs) : x.key[3] = req'[x.by].refs[j]
           /\ \A j \in 1..Len(req'[x.by].refs) : Row(RefKey(req'[x.by].image, req'[x.by].refs[j]), x.by) \in db'
    BY <1>1, <2>5 DEF ReferenceRow
  <2>. QED
    BY <2>6, <2>7 DEF RefsStored, ReferenceRow
<1>. QED
  BY <1>2, <1>3, <1>4

-----------------------------------------------------------------------------
(* The description of an image.                                            *)

DescriptionsOf(p) == {x \in db : x.key = <<"image_descriptions", p, None>>}

\* An upsert with a description deletes the one there is of its image and then inserts
\* its own.
DescOwn(t) ==
    /\ \A x \in tx[t].ins : x.key[1] = "image_descriptions" =>
          /\ Upserting(t) /\ req[t].description /\ tx[t].at > DescAt(req[t]) + 3
          /\ x = Row(<<"image_descriptions", tx[t].row, None>>, t)
    /\ Upserting(t) /\ req[t].description =>
          /\ tx[t].at = DescAt(req[t]) + 2 /\ tx[t].started =>
                DescriptionsOf(tx[t].row) \subseteq Doomed(t)
          /\ tx[t].at > DescAt(req[t]) + 2 => DescriptionsOf(tx[t].row) \subseteq tx[t].del
DescInv == (\A t \in Txs : DescOwn(t)) /\ OneDescription

\* The statements of an upsert that replace the description.
LEMMA DescNow ==
  ASSUME TypeOK, NEW t \in Txs, req[t].call = "upsert_image", req[t].description
  PROVE  /\ DescAt(req[t]) \in Nat \ {0}
         /\ tx[t].at = DescAt(req[t]) + 2 =>
               ~AtEnd(t) /\ Current(t) = Doing("delete", {<<"image_descriptions", This>>}, FALSE)
         /\ tx[t].at > DescAt(req[t]) + 1 => Selected(t)
         /\ tx[t].at > DescAt(req[t]) + 1 /\ ~AtEnd(t) => Current(t).does # "select"
         /\ AtEnd(t) => tx[t].at > DescAt(req[t]) + 3
<1>1. PICK r \in Requests : r = req[t]
  BY DEF TypeOK
<1>2. PICK P : P = Programs[r]
  OBVIOUS
<1>3. PICK d : d = DescAt(r)
  OBVIOUS
<1>4. Len(P) = UpsertLen(r) /\ DescPart(r, P, d)
  BY <1>1, <1>2, <1>3, UpsertProgram
<1>5. d \in Nat \ {0} /\ Len(P) = d + 4
  <2>1. /\ DescAt(r) \in Nat /\ DescAt(r) >= RefsAt(r) /\ RefsAt(r) \in Nat
        /\ RefsAt(r) >= ParamsAt(r) /\ ParamsAt(r) \in {1, 5} /\ UpsertLen(r) = DescAt(r) + 4
    BY <1>1, UpsertAts
  <2>. QED
    BY <1>3, <1>4, <2>1
<1>6. Deleting(DescriptionKey) = Doing("delete", {<<"image_descriptions", This>>}, FALSE)
  BY DEF Deleting, DescriptionKey
<1>7. /\ P[d + 1].does = "select" /\ P[d + 2] = Doing("delete", {<<"image_descriptions", This>>}, FALSE)
      /\ P[d + 3].does = "append" /\ P[d + 4].does = "fkey"
  BY <1>4, <1>6, Shapes DEF DescPart
<1>8. tx[t].at \in Nat \ {0} /\ (AtEnd(t) <=> tx[t].at = d + 5) /\ (~AtEnd(t) => tx[t].at \in 1..(d + 4))
  BY <1>1, <1>2, <1>5, CurrentFacts
<1>9. tx[t].at = d + 2 => ~AtEnd(t) /\ Current(t) = Doing("delete", {<<"image_descriptions", This>>}, FALSE)
  <2>1. SUFFICES ASSUME tx[t].at = d + 2
                 PROVE  ~AtEnd(t) /\ Current(t) = Doing("delete", {<<"image_descriptions", This>>}, FALSE)
    OBVIOUS
  <2>2. ~AtEnd(t)
    BY <1>5, <1>8, <2>1
  <2>3. Current(t) = P[d + 2]
    BY <1>1, <1>2, <2>1 DEF Current
  <2>. QED
    BY <1>7, <2>2, <2>3
<1>10. tx[t].at > d + 1 => Selected(t)
  <2>1. SUFFICES ASSUME tx[t].at > d + 1 PROVE Selected(t)
    OBVIOUS
  <2>2. d + 1 \in 1..(tx[t].at - 1)
    BY <1>5, <1>8, <2>1
  <2>. QED
    BY <1>1, <1>2, <1>7, <2>2 DEF Selected
<1>11. tx[t].at > d + 1 /\ ~AtEnd(t) => Current(t).does # "select"
  <2>1. SUFFICES ASSUME tx[t].at > d + 1, ~AtEnd(t) PROVE Current(t).does # "select"
    OBVIOUS
  <2>2. tx[t].at = d + 2 \/ tx[t].at = d + 3 \/ tx[t].at = d + 4
    BY <1>5, <1>8, <2>1
  <2>3. P[d + 2].does = "delete"
    BY <1>7 DEF Doing
  <2>. QED
    BY <1>1, <1>2, <1>7, <2>2, <2>3 DEF Current
<1>12. AtEnd(t) => tx[t].at > d + 3
  BY <1>5, <1>8
<1>. QED
  BY <1>1, <1>3, <1>5, <1>9, <1>10, <1>11, <1>12

\* An upsert's own steps keep what is known of the description it replaces.
LEMMA DescOwnStep ==
  ASSUME TypeOK, TodoOK, WritersOK, LocksExclude, KeysUnique, UpsertHolds,
         NEW t \in Txs, DescOwn(t), Steps(t)
  PROVE  DescOwn(t)'
<1>1. req' = req /\ tx[t].st = "open" /\ tx[t].at \in Nat \ {0}
  BY OpenStep, CurrentFacts
<1>2. CASE tx'[t].ins = {} /\ tx'[t].at = 1 /\ tx'[t].started = FALSE
  <2>1. Upserting(t)' /\ req[t].description => DescAt(req[t]) \in Nat \ {0}
    BY <1>1, DescNow DEF Upserting, Runs
  <2>. QED
    BY <1>1, <1>2, <2>1 DEF DescOwn, Upserting, Runs
<1>3. CASE db' = db /\ Goes(t) /\ ~EndStep(t) /\ tx'[t].st = "open"
  <2>1. CASE ~Upserting(t) \/ ~req[t].description
    <3>1. \A x \in tx[t].ins : x.key[1] # "image_descriptions"
      BY <2>1 DEF DescOwn
    <3>2. ASSUME NEW x \in tx'[t].ins, x.key[1] = "image_descriptions" PROVE FALSE
      <4>1. InsertedKey(t, Next1(t)) /\ x = Row(Next1(t), t)
        BY <1>3, <3>1, <3>2, Effects DEF CommitStep, Goes
      <4>2. x.key = Next1(t)
        BY <4>1 DEF Row
      <4>. QED
        BY <1>1, <2>1, <3>2, <4>1, <4>2 DEF InsertedKey, RefKey, ItemTable, Upserting, Runs
    <3>3. ~Upserting(t)' \/ ~req'[t].description
      BY <1>1, <2>1 DEF Upserting, Runs
    <3>. QED
      BY <3>2, <3>3 DEF DescOwn
  <2>2. CASE Upserting(t) /\ req[t].description
    <3>1. PICK d : d = DescAt(req[t])
      OBVIOUS
    <3>2. UpsertOf(t)
      BY <2>2 DEF UpsertHolds
    <3>3. IsAt(t, Kinds) /\ (tx'[t].at = tx[t].at + 1 \/ tx'[t].at = tx[t].at)
      BY <1>3, <2>2, <3>2, UpsertMoves
    <3>4. /\ d \in Nat \ {0}
          /\ tx[t].at = d + 2 => Current(t) = Doing("delete", {<<"image_descriptions", This>>}, FALSE)
          /\ tx[t].at > d + 1 => Current(t).does # "select"
      <4>1. ~AtEnd(t) /\ req[t].call = "upsert_image"
        BY <2>2, <3>3 DEF IsAt, Upserting, Runs
      <4>. QED
        BY <2>2, <3>1, <4>1, DescNow
    <3>5. tx[t].at > d + 1 => SameRow(t) /\ (MovesTo(t, tx[t].at + 1)
                                     \/ (tx'[t].at = tx[t].at /\ tx'[t].started = TRUE))
      <4>1. SUFFICES ASSUME tx[t].at > d + 1
                     PROVE  SameRow(t) /\ (MovesTo(t, tx[t].at + 1)
                                     \/ (tx'[t].at = tx[t].at /\ tx'[t].started = TRUE))
        OBVIOUS
      <4>2. Current(t).does # "select" /\ ~Current(t).must /\ Current(t).does # "update"
        BY <2>2, <3>3, <3>4, <4>1, UpsertNow
      <4>. QED
        BY <1>3, <4>2, Moving DEF SelectStep, UpdateStep, IsAt
    <3>6. tx[t].at = d + 1 => MovesTo(t, d + 2) \/ tx'[t].at = d + 1
      <4>1. Current(t).must => Current(t).does = "select"
        BY <2>2, <3>3, UpsertNow
      <4>2. MissStep(t) /\ Current(t).does = "select" => FALSE
        BY <1>3, <2>2, <3>2, UpsertMoves DEF MissStep, SelectStep, InsertStep, TakeStep, DeleteStep, IsAt,
           OnceEach, Keywise
      <4>3. d + 1 + 1 = d + 2
        BY <3>4
      <4>. QED
        BY <1>3, <4>1, <4>2, <4>3, Moving
    <3>7. tx[t].del \subseteq tx'[t].del
      BY <1>3, Effects DEF CommitStep, Goes
    <3>8. ASSUME NEW x \in tx'[t].ins, x.key[1] = "image_descriptions"
          PROVE  tx'[t].at > d + 3 /\ x = Row(<<"image_descriptions", tx'[t].row, None>>, t)
      <4>1. CASE x \in tx[t].ins
        <5>1. tx[t].at > d + 3 /\ x = Row(<<"image_descriptions", tx[t].row, None>>, t)
          BY <3>1, <3>8, <4>1 DEF DescOwn
        <5>. QED
          BY <1>1, <3>3, <3>4, <3>5, <5>1 DEF SameRow
      <4>2. CASE x \notin tx[t].ins
        <5>1. InsertStep(t) /\ InsertedKey(t, Next1(t)) /\ x = Row(Next1(t), t)
          BY <1>3, <3>8, <4>2, Effects DEF CommitStep, Goes
        <5>2. x.key = Next1(t)
          BY <5>1 DEF Row
        <5>3. /\ tx[t].at = d + 3 /\ Next1(t) = <<"image_descriptions", tx[t].row, None>>
              /\ Current(t).does = "append"
          BY <3>1, <3>8, <5>1, <5>2 DEF InsertedKey, RefKey, ItemTable
        <5>4. Passes(t) /\ Pending(t) # <<>> /\ SameRow(t)
          BY <5>1 DEF InsertStep, Passes
        <5>5. Len(Pending(t)) = 1
          BY <3>3, <5>3, <5>4, PendingFacts DEF OnceEach
        <5>6. tx'[t].at = d + 3 + 1
          BY <5>3, <5>4, <5>5 DEF Passes, MovesTo
        <5>. QED
          BY <3>4, <5>1, <5>3, <5>4, <5>6 DEF SameRow
      <4>. QED
        BY <4>1, <4>2
    <3>9. /\ tx'[t].at = d + 2 /\ tx'[t].started => DescriptionsOf(tx[t].row)' \subseteq Doomed(t)'
          /\ tx'[t].at > d + 2 => DescriptionsOf(tx[t].row)' \subseteq tx'[t].del
      <4>1. CASE tx[t].at < d + 2
        <5>1. tx'[t].at \in Nat /\ tx'[t].at <= d + 2
          BY <1>1, <3>3, <3>4, <4>1
        <5>2. tx'[t].at = d + 2 => tx[t].at = d + 1
          BY <1>1, <3>3, <3>4, <4>1
        <5>3. tx'[t].at = d + 2 => tx'[t].started = FALSE
          BY <3>4, <3>6, <5>2 DEF MovesTo
        <5>. QED
          BY <3>4, <5>1, <5>3
      <4>2. CASE tx[t].at = d + 2
        <5>1. PICK G : G = DescriptionsOf(tx[t].row)
          OBVIOUS
        <5>2. PICK w : w = <<"image_descriptions", This>>
          OBVIOUS
        <5>3. Bound(t, w) = <<"image_descriptions", tx[t].row>>
          BY <5>2 DEF Bound, ChildTables
        <5>4. \A x \in G : <<x.key[1], x.key[2]>> = Bound(t, w)
          BY <5>1, <5>3 DEF DescriptionsOf
        <5>5. Current(t) = Doing("delete", {w}, FALSE) /\ IsAt(t, {"delete"})
          BY <3>3, <3>4, <4>2, <5>2 DEF IsAt, Doing
        <5>6. G \subseteq db /\ (tx[t].started => G \subseteq Doomed(t))
          BY <2>2, <3>1, <4>2, <5>1 DEF DescOwn, DescriptionsOf
        <5>7. /\ SameRow(t)
              /\ \/ tx'[t].at = d + 2 /\ G \subseteq Doomed(t)'
                 \/ tx'[t].at = d + 2 + 1 /\ G \subseteq tx'[t].del
          BY <1>3, <4>2, <5>4, <5>5, <5>6, Clearing DEF MovesTo
        <5>8. DescriptionsOf(tx[t].row)' = G
          BY <1>3, <5>1, <5>7 DEF SameRow, DescriptionsOf
        <5>. QED
          BY <3>4, <5>7, <5>8
      <4>3. CASE tx[t].at > d + 2
        <5>1. DescriptionsOf(tx[t].row) \subseteq tx[t].del
          BY <2>2, <3>1, <4>3 DEF DescOwn
        <5>2. SameRow(t)
          BY <1>1, <3>4, <3>5, <4>3
        <5>3. DescriptionsOf(tx[t].row)' = DescriptionsOf(tx[t].row)
          BY <1>3, <5>2 DEF SameRow, DescriptionsOf
        <5>4. tx'[t].at # d + 2
          BY <1>1, <3>3, <3>4, <4>3
        <5>. QED
          BY <3>7, <5>1, <5>3, <5>4
      <4>. QED
        BY <1>1, <3>4, <4>1, <4>2, <4>3
    <3>10. Upserting(t)'
      BY <1>1, <1>3, <2>2 DEF Upserting, Runs
    <3>. QED
      BY <1>1, <2>2, <3>1, <3>8, <3>9, <3>10 DEF DescOwn
  <2>. QED
    BY <2>1, <2>2
<1>. QED
  BY <1>2, <1>3, Effects DEF CommitStep, Clears, Data, MovesTo, Goes

\* A step changes the database only when it is a commit.
LEMMA OnlyCommits ==
  ASSUME NEW t \in Txs, Steps(t)
  PROVE  db' = db \/ (CommitStep(t) /\ db' = (db \ tx[t].del) \cup tx[t].ins /\ AtEnd(t))
BY DEF Steps, MissStep, SelectStep, ScanStep, InsertStep, PresentStep, TakeStep, UpdateStep,
       DeleteStep, ParentStep, EndStep, CommitStep, Goes

\* And so do the steps of the others, which wait for its lock on the image.
LEMMA DescOthers ==
  ASSUME TypeOK, WritersOK, LocksExclude, KeysUnique, UpsertHolds,
         NEW t \in Txs, DescOwn(t), Steps(t), NEW u \in Txs \ {t}, DescOwn(u)
  PROVE  DescOwn(u)'
<1>1. req' = req /\ tx'[u] = tx[u] /\ tx[t].st = "open"
  BY OpenStep
<1>2. Doomed(u)' = Doomed(u) /\ (Upserting(u)' <=> Upserting(u))
  BY <1>1, OthersStay DEF Doomed, Upserting, Runs
<1>3. PICK p : p = tx[u].row
  OBVIOUS
<1>4. ASSUME Upserting(u), req[u].description, tx[u].at > DescAt(req[u]) + 1
      PROVE  DescriptionsOf(p)' \subseteq DescriptionsOf(p)
  <2>1. CASE db' = db
    BY <2>1 DEF DescriptionsOf
  <2>2. CASE db' = (db \ tx[t].del) \cup tx[t].ins
    <3>1. ASSUME NEW x \in tx[t].ins, x.key = <<"image_descriptions", p, None>> PROVE FALSE
      <4>1. Upserting(t) /\ x = Row(<<"image_descriptions", tx[t].row, None>>, t)
        BY <3>1 DEF DescOwn
      <4>2. tx[t].row = p
        BY <3>1, <4>1 DEF Row
      <4>3. UpsertOf(t) /\ UpsertOf(u)
        BY <1>4, <4>1 DEF UpsertHolds
      <4>4. Selected(u)
        BY <1>4, DescNow DEF Upserting, Runs
      <4>5. p # NoRow
        BY <1>3, <4>3, <4>4 DEF UpsertOf
      <4>6. p \in tx[u].ins \cup tx[u].upd /\ p \in tx[t].ins \cup tx[t].upd /\ Keyed(p)
        BY <1>3, <4>2, <4>3, <4>5 DEF UpsertOf, Keyed, ImageKey
      <4>. QED
        BY <4>6, OneHolder
    <3>. QED
      BY <2>2, <3>1 DEF DescriptionsOf
  <2>. QED
    BY <2>1, <2>2, OnlyCommits
<1>5. ASSUME Upserting(u), req[u].description
      PROVE  /\ tx[u].at = DescAt(req[u]) + 2 /\ tx[u].started => DescriptionsOf(p)' \subseteq Doomed(u)
             /\ tx[u].at > DescAt(req[u]) + 2 => DescriptionsOf(p)' \subseteq tx[u].del
  <2>1. DescAt(req[u]) \in Nat /\ tx[u].at \in Nat
    BY <1>5, DescNow, CurrentFacts DEF Upserting, Runs
  <2>2. /\ tx[u].at = DescAt(req[u]) + 2 /\ tx[u].started => DescriptionsOf(p) \subseteq Doomed(u)
        /\ tx[u].at > DescAt(req[u]) + 2 => DescriptionsOf(p) \subseteq tx[u].del
    BY <1>3, <1>5 DEF DescOwn
  <2>3. tx[u].at = DescAt(req[u]) + 2 \/ tx[u].at > DescAt(req[u]) + 2 =>
           DescriptionsOf(p)' \subseteq DescriptionsOf(p)
    BY <1>4, <1>5, <2>1
  <2>. QED
    BY <2>2, <2>3
<1>6. \A x \in tx[u].ins : x.key[1] = "image_descriptions" =>
          /\ Upserting(u) /\ req[u].description /\ tx[u].at > DescAt(req[u]) + 3
          /\ x = Row(<<"image_descriptions", tx[u].row, None>>, u)
  BY DEF DescOwn
<1>7. DescriptionsOf(tx[u].row)' = DescriptionsOf(p)'
  BY <1>1, <1>3 DEF DescriptionsOf
<1>. QED
  BY <1>1, <1>2, <1>5, <1>6, <1>7 DEF DescOwn

\* Every step keeps one description per image.
LEMMA OneDescriptionStep ==
  ASSUME TypeOK, NEW t \in Txs, DescOwn(t), OneDescription, Steps(t)
  PROVE  OneDescription'
<1>1. CASE db' = db
  BY <1>1 DEF OneDescription
<1>2. CASE db' = (db \ tx[t].del) \cup tx[t].ins /\ AtEnd(t)
  <2>1. ASSUME NEW x \in tx[t].ins, x.key[1] = "image_descriptions"
        PROVE  /\ x = Row(<<"image_descriptions", tx[t].row, None>>, t)
               /\ DescriptionsOf(tx[t].row) \subseteq tx[t].del
    <3>1. /\ Upserting(t) /\ req[t].description /\ tx[t].at > DescAt(req[t]) + 3
          /\ x = Row(<<"image_descriptions", tx[t].row, None>>, t)
      BY <2>1 DEF DescOwn
    <3>2. DescAt(req[t]) \in Nat /\ tx[t].at \in Nat
      BY <3>1, DescNow, CurrentFacts DEF Upserting, Runs
    <3>3. tx[t].at > DescAt(req[t]) + 2
      BY <3>1, <3>2
    <3>. QED
      BY <3>1, <3>3 DEF DescOwn
  <2>2. ASSUME NEW x \in db', NEW y \in db', x.key[1] = "image_descriptions", x.key = y.key
        PROVE  x = y
    <3>1. CASE x \in tx[t].ins /\ y \in tx[t].ins
      BY <2>1, <2>2, <3>1
    <3>2. CASE x \in tx[t].ins /\ y \in db \ tx[t].del
      BY <2>1, <2>2, <3>2 DEF DescriptionsOf, Row
    <3>3. CASE x \in db \ tx[t].del /\ y \in tx[t].ins
      BY <2>1, <2>2, <3>3 DEF DescriptionsOf, Row
    <3>4. CASE x \in db /\ y \in db
      BY <2>2, <3>4 DEF OneDescription
    <3>. QED
      BY <1>2, <3>1, <3>2, <3>3, <3>4
  <2>. QED
    BY <2>2 DEF OneDescription
<1>. QED
  BY <1>1, <1>2, OnlyCommits

-----------------------------------------------------------------------------
(* The images of the note.                                                 *)

NoteRow == Row(NoteKey, Seed)
NoteRefs == {x \in db : x.key[1] = "note_image_refs"}
NoteRefRow(t, j) == Row(<<"note_image_refs", NoteRow, req[t].images[j]>>, t)
UpdatingNote(t) == Runs(t, "update_note")

\* No call inserts or deletes a note.
NoteStays ==
    /\ NoteRow \in db
    /\ \A x \in db : x.key[1] = "notes" => x = NoteRow
    /\ \A t \in Txs : \A x \in tx[t].ins \cup tx[t].del : x.key[1] # "notes"

\* An update of the note locks its row, deletes all its images and inserts its own.
NoteOwn(t) ==
    /\ \A x \in tx[t].ins : x.key[1] = "note_image_refs" =>
          /\ UpdatingNote(t) /\ tx[t].at > 2
          /\ \E j \in 1..Len(req[t].images) : x = NoteRefRow(t, j)
    /\ UpdatingNote(t) =>
          /\ tx[t].at = 1 /\ tx[t].started => Todo(t) \subseteq {NoteRow}
          /\ tx[t].at > 1 => tx[t].row = NoteRow /\ NoteRow \in tx[t].upd
          /\ tx[t].at = 2 /\ tx[t].started => NoteRefs \subseteq Doomed(t)
          /\ tx[t].at > 2 => NoteRefs \subseteq tx[t].del
          /\ \A j \in 1..Len(req[t].images) :
                tx[t].at > 2 * j + 1 => NoteRefRow(t, j) \in tx[t].ins

\* The images of the note that are stored have one writer and are all those of its
\* request.
NoteStored ==
    /\ \A x, y \in NoteRefs : x.by = y.by
    /\ \A x \in NoteRefs :
          /\ x.by \in Txs /\ req[x.by].call = "update_note"
          /\ \E j \in 1..Len(req[x.by].images) : x = NoteRefRow(x.by, j)
          /\ \A j \in 1..Len(req[x.by].images) : NoteRefRow(x.by, j) \in db
NoteInv == NoteStays /\ (\A t \in Txs : NoteOwn(t)) /\ NoteStored

\* No statement of any call inserts or deletes a row of the notes.
LEMMA NoteStaysStep ==
  ASSUME TypeOK, TodoOK, NoteStays, NEW t \in Txs, Steps(t)
  PROVE  NoteStays'
<1>1. \A u \in Txs \ {t} : tx'[u] = tx[u]
  BY OpenStep
<1>2. \A k : InsertedKey(t, k) => k[1] # "notes"
  BY DEF InsertedKey, RefKey, ItemTable
<1>3. \A x : DeletedRow(t, x) => x.key[1] # "notes"
  BY DEF DeletedRow, ItemTable, ChildTables
<1>4. \A k : Row(k, t).key = k
  BY DEF Row
<1>5. \A x \in tx'[t].ins \cup tx'[t].del : x.key[1] # "notes"
  <2>1. CASE CommitStep(t)
    BY <2>1 DEF CommitStep, Clears, Data
  <2>2. CASE ~CommitStep(t)
    <3>1. tx'[t].ins \subseteq tx[t].ins \/ (InsertedKey(t, Next1(t)) /\ tx'[t].ins = tx[t].ins \cup {Row(Next1(t), t)})
      BY <2>2, Effects
    <3>2. tx'[t].del \subseteq tx[t].del \/ (DeletedRow(t, Next1(t)) /\ tx'[t].del \subseteq tx[t].del \cup {Next1(t)})
      BY <2>2, Effects
    <3>. QED
      BY <1>2, <1>3, <1>4, <3>1, <3>2 DEF NoteStays
  <2>. QED
    BY <2>1, <2>2
<1>6. NoteRow.key[1] = "notes"
  BY DEF NoteRow, Row, NoteKey
<1>7. NoteRow \in db' /\ \A x \in db' : x.key[1] = "notes" => x = NoteRow
  BY <1>6, OnlyCommits DEF NoteStays
<1>. QED
  BY <1>1, <1>5, <1>7 DEF NoteStays, NoteRow

\* An update of the note finds its row, and locks it.
LEMMA NoteIsLocked ==
  ASSUME TypeOK, TodoOK, NoteStays, NEW t \in Txs, NoteOwn(t), Steps(t), UpdatingNote(t),
         tx[t].at = 1, tx'[t].st = "open", ~EndStep(t)
  PROVE  /\ db' = db /\ tx'[t].ins = tx[t].ins
         /\ \/ tx'[t].at = 1 /\ tx'[t].started = TRUE /\ Todo(t)' \subseteq {NoteRow}
            \/ MovesTo(t, 2) /\ tx'[t].row = NoteRow /\ NoteRow \in tx'[t].upd
<1>1. IsAt(t, Kinds) /\ req[t].call = "update_note" /\ Goes(t)
  BY Moving DEF UpdatingNote, Runs
<1>2. Current(t) = Doing("update", {<<"notes", Note>>}, TRUE)
  BY <1>1, ListNow DEF FirstOf, NoteKey
<1>3. Current(t).does = "update" /\ Current(t).on = {<<"notes", Note>>} /\ Current(t).must
  BY <1>2 DEF Doing
<1>4. IsAt(t, Rowwise \cup {"select", "link"}) /\ Bound(t, <<"notes", Note>>) = <<"notes", Note>>
  BY <1>1, <1>3 DEF IsAt, Rowwise, Bound, ChildTables
<1>5. \A x \in Visible(t) : x \in Matches(t) <=> \E w \in Current(t).on : <<x.key[1], x.key[2]>> = Bound(t, w)
  BY <1>3, <1>4, MatchesFacts
<1>6. NoteRow \in Visible(t) /\ NoteRow.key[1] = "notes" /\ NoteRow.key[2] = Note
  <2>1. NoteRow.key[1] = "notes" /\ NoteRow.key[2] = Note
    BY DEF NoteRow, Row, NoteKey
  <2>. QED
    BY <2>1 DEF NoteStays, Visible
<1>7. NoteRow \in Matches(t)
  BY <1>3, <1>4, <1>5, <1>6
<1>8. Matches(t) \subseteq {NoteRow}
  <2>1. Matches(t) \subseteq Visible(t)
    BY <1>3, <1>4, MatchesFacts
  <2>2. ASSUME NEW x \in Matches(t) PROVE x = NoteRow
    <3>1. x \in Visible(t) /\ <<x.key[1], x.key[2]>> = <<"notes", Note>>
      BY <1>3, <1>4, <1>5, <2>1, <2>2
    <3>2. x.key[1] = "notes"
      BY <3>1
    <3>. QED
      BY <3>1, <3>2 DEF Visible, NoteStays
  <2>. QED
    BY <2>2
<1>9. tx[t].started => Todo(t) \subseteq {NoteRow}
  BY DEF NoteOwn
<1>10. MissStep(t) \/ ScanStep(t) \/ UpdateStep(t)
  BY <1>1, <1>3 DEF Steps, SelectStep, InsertStep, PresentStep, TakeStep, DeleteStep, ParentStep,
     CommitStep, IsAt, OnceEach, Keywise
<1>11. ~MissStep(t)
  BY <1>7, <1>9 DEF MissStep, NoteStays
<1>12. CASE ScanStep(t)
  <2>1. Todo(t)' = Matches(t)
    BY <1>12 DEF ScanStep, Todo
  <2>. QED
    BY <1>8, <1>12, <2>1 DEF ScanStep, Goes, SameData, Data
<1>13. CASE UpdateStep(t)
  <2>1. /\ db' = db /\ tx'[t].ins = tx[t].ins /\ tx[t].started /\ Next1(t) \in Todo(t) /\ Passes(t)
        /\ tx'[t].row = Next1(t) /\ Next1(t) \in tx'[t].upd
    BY <1>13 DEF UpdateStep, Goes, Data
  <2>2. Next1(t) = NoteRow
    BY <1>9, <2>1
  <2>3. CASE Len(Pending(t)) = 1
    BY <2>1, <2>2, <2>3 DEF Passes
  <2>4. CASE Len(Pending(t)) # 1
    <3>1. /\ tx'[t].at = tx[t].at /\ tx'[t].started = TRUE
          /\ Seqs!ToSet(tx'[t].todo) \subseteq Seqs!ToSet(Pending(t))
      BY <1>1, <2>1, <2>4, ListGetsShorter
    <3>2. Pending(t) = tx[t].todo
      BY <2>1 DEF Pending
    <3>3. Todo(t)' \subseteq Todo(t)
      BY <3>1, <3>2 DEF Todo
    <3>. QED
      BY <1>9, <2>1, <3>1, <3>3
  <2>. QED
    BY <2>3, <2>4
<1>. QED
  BY <1>10, <1>11, <1>12, <1>13

\* The insert of the j-th row of a list, when it goes through.
LEMMA ItemStep ==
  ASSUME TypeOK, TodoOK, NEW t \in Txs, Steps(t), tx'[t].st = "open", ~EndStep(t),
         req[t].call \in {"update_note", "set_collection_images"}, IsAt(t, Kinds),
         NEW j \in 1..Len(req[t].images), tx[t].at = 2 * j + 1
  PROVE  /\ InsertStep(t) /\ db' = db
         /\ tx'[t].ins = tx[t].ins
               \cup {Row(<<ItemTable(req[t]), tx[t].row, req[t].images[j]>>, t)}
<1>1. Current(t) = Inserting(ItemKey(req[t], req[t].images[j]))
  BY ListNow
<1>2. /\ Current(t).does = "insert" /\ Current(t).on = <<ItemKey(req[t], req[t].images[j])>>
      /\ ItemKey(req[t], req[t].images[j]) = <<ItemTable(req[t]), This, req[t].images[j]>>
  BY <1>1, Shapes DEF ItemKey, ItemTable, NoteRefKey, MemberKey
<1>3. InsertStep(t)
  BY <1>2 DEF Steps, MissStep, SelectStep, ScanStep, PresentStep, TakeStep, UpdateStep,
              DeleteStep, ParentStep, CommitStep, IsAt, Rowwise, Keywise
<1>4. Pending(t) # <<>>
  BY <1>3 DEF InsertStep, Passes
<1>5. PICK k \in WrittenKey : Current(t).on = <<k>> /\ Next1(t) = Bound(t, k)
  BY <1>2, <1>4, PendingFacts DEF OnceEach, Next1
<1>6. k = <<ItemTable(req[t]), This, req[t].images[j]>>
  <2>1. Current(t).on[1] = k
    BY <1>5
  <2>. QED
    BY <1>2, <2>1
<1>7. k[1] \in ChildTables
  BY <1>6 DEF ItemTable, ChildTables
<1>8. Bound(t, k) = <<k[1], tx[t].row, k[3]>>
  BY <1>7, BoundFacts
<1>9. Next1(t) = <<ItemTable(req[t]), tx[t].row, req[t].images[j]>>
  BY <1>5, <1>6, <1>8
<1>. QED
  BY <1>3, <1>9 DEF InsertStep, Goes, Data

\* The parts of a row.
LEMMA RowFields == \A k, t : Row(k, t).key = k /\ Row(k, t).by = t
BY DEF Row

\* An update's own steps keep what is known of the note's images.
LEMMA NoteOwnStep ==
  ASSUME TypeOK, TodoOK, WritersOK, NoteStays, NoteStored, NEW t \in Txs, NoteOwn(t), Steps(t)
  PROVE  NoteOwn(t)'
<1>1. req' = req /\ tx[t].st = "open" /\ tx[t].at \in Nat \ {0}
  BY OpenStep, CurrentFacts
<1>2. CASE tx'[t].ins = {} /\ tx'[t].at = 1 /\ tx'[t].started = FALSE
  <2>1. UpdatingNote(t)' => Len(req[t].images) \in Nat
    <3>1. SUFFICES ASSUME req[t].call = "update_note" PROVE Len(req[t].images) \in Nat
      BY <1>1 DEF UpdatingNote, Runs
    <3>2. PICK r \in Requests : r = req[t]
      BY DEF TypeOK
    <3>3. ListIs(r, Programs[r], Len(r.images))
      BY <3>1, <3>2, ListProgram
    <3>. QED
      BY <3>2, <3>3 DEF ListIs
  <2>. QED
    BY <1>1, <1>2, <2>1 DEF NoteOwn, UpdatingNote, Runs
<1>3. CASE db' = db /\ Goes(t) /\ ~EndStep(t) /\ tx'[t].st = "open"
  <2>1. /\ UpdatingNote(t)' <=> UpdatingNote(t)
        /\ NoteRefs' = NoteRefs /\ \A j : NoteRefRow(t, j)' = NoteRefRow(t, j)
    BY <1>1, <1>3 DEF UpdatingNote, Runs, NoteRefs, NoteRefRow, NoteRow
  <2>2. CASE ~UpdatingNote(t)
    <3>1. ~(InsertedKey(t, Next1(t)) /\ Next1(t)[1] = "note_image_refs")
      BY <1>1, <2>2 DEF InsertedKey, UpdatingNote, Runs, RefKey, ItemTable
    <3>2. ~CommitStep(t)
      BY <1>3 DEF CommitStep
    <3>3. \A x \in tx[t].ins : x.key[1] # "note_image_refs"
      BY <2>2 DEF NoteOwn
    <3>4. \/ tx'[t].ins \subseteq tx[t].ins
          \/ InsertedKey(t, Next1(t)) /\ tx'[t].ins = tx[t].ins \cup {Row(Next1(t), t)}
      BY <1>3, <3>2, Effects
    <3>5. \A k : Row(k, t).key = k
      BY RowFields
    <3>6. \A x \in tx'[t].ins : x.key[1] # "note_image_refs"
      BY <3>1, <3>3, <3>4, <3>5
    <3>. QED
      BY <2>1, <2>2, <3>6 DEF NoteOwn
  <2>3. CASE UpdatingNote(t)
    <3>1. /\ IsAt(t, Kinds) /\ req[t].call = "update_note"
          /\ \/ MovesTo(t, tx[t].at + 1)
             \/ tx'[t].at = tx[t].at /\ tx'[t].started = TRUE
             \/ MissStep(t) /\ Current(t).must
          /\ SameRow(t) \/ SelectStep(t) \/ UpdateStep(t)
      BY <1>3, <2>3, Moving DEF UpdatingNote, Runs
    <3>2. PICK l \in Nat : l = Len(req[t].images)
      BY <3>1, ListNow
    <3>3. PICK a \in 1..(2 + 2 * l) : a = tx[t].at
      BY <3>1, <3>2, ListNow
    <3>4. CASE a = 1
      <4>1. \A x \in tx[t].ins : x.key[1] # "note_image_refs"
        BY <3>3, <3>4 DEF NoteOwn
      <4>2. /\ tx'[t].ins = tx[t].ins
            /\ \/ tx'[t].at = 1 /\ tx'[t].started = TRUE /\ Todo(t)' \subseteq {NoteRow}
               \/ MovesTo(t, 2) /\ tx'[t].row = NoteRow /\ NoteRow \in tx'[t].upd
        BY <1>3, <2>3, <3>3, <3>4, NoteIsLocked
      <4>3. \A j \in 1..l : ~(tx'[t].at > 2 * j + 1)
        BY <3>2, <4>2 DEF MovesTo
      <4>4. NoteRow' = NoteRow
        BY DEF NoteRow
      <4>. QED
        BY <1>1, <2>1, <2>3, <3>2, <4>1, <4>2, <4>3, <4>4 DEF NoteOwn, MovesTo
    <3>5. CASE a # 1
      <4>1. /\ tx[t].row = NoteRow /\ NoteRow \in tx[t].upd
            /\ a = 2 /\ tx[t].started => NoteRefs \subseteq Doomed(t)
            /\ a > 2 => NoteRefs \subseteq tx[t].del
            /\ \A j \in 1..l : a > 2 * j + 1 => NoteRefRow(t, j) \in tx[t].ins
        BY <2>3, <3>2, <3>3, <3>5 DEF NoteOwn
      <4>2. /\ a = 2 => Current(t) = Doing("delete", {<<"note_image_refs", This>>}, FALSE)
            /\ \A j \in 1..l :
                  /\ a = 2 * j + 1 => Current(t) = Inserting(ItemKey(req[t], req[t].images[j]))
                  /\ a = 2 * j + 2 => Current(t) = CheckingParent
        BY <3>1, <3>2, <3>3, ListNow DEF ItemTable
      <4>3. a = 2 \/ \E j \in 1..l : a = 2 * j + 1 \/ a = 2 * j + 2
        <5>1. a = 2 \/ a > 2
          BY <3>5
        <5>. QED
          BY <5>1, ListPositions
      <4>4. Current(t).does \in {"delete", "insert", "fkey"} /\ ~Current(t).must
        BY <4>2, <4>3 DEF Inserting, CheckingParent, Doing
      <4>5. /\ SameRow(t) /\ tx'[t].row = NoteRow
            /\ MovesTo(t, a + 1) \/ (tx'[t].at = a /\ tx'[t].started = TRUE)
        <5>1. ~SelectStep(t) /\ ~UpdateStep(t)
          BY <4>4 DEF SelectStep, UpdateStep, IsAt
        <5>. QED
          BY <3>1, <3>3, <4>1, <4>4, <5>1 DEF SameRow
      <4>6. PICK b \in Nat : b = tx'[t].at
        BY <4>5 DEF MovesTo
      <4>7. (b = a + 1 \/ b = a) /\ b > 1
        BY <3>5, <4>5, <4>6 DEF MovesTo
      <4>8. NoteRow \in tx'[t].upd
        BY <1>3, <4>1 DEF Steps, MissStep, SelectStep, ScanStep, InsertStep, PresentStep, TakeStep,
           UpdateStep, DeleteStep, ParentStep, CommitStep, SameData, Data
      <4>9. CASE a = 2
        <5>1. \/ tx'[t].at = 2 /\ tx'[t].started = TRUE /\ NoteRefs \subseteq Doomed(t)'
              \/ MovesTo(t, 3) /\ NoteRefs \subseteq tx'[t].del
          <6>1. PICK w : w = <<"note_image_refs", This>>
            OBVIOUS
          <6>2. Bound(t, w) = <<"note_image_refs", NoteRow>>
            BY <4>1, <6>1 DEF Bound, ChildTables
          <6>3. ASSUME NEW x \in NoteRefs PROVE <<x.key[1], x.key[2]>> = Bound(t, w)
            <7>1. PICK i \in 1..Len(req[x.by].images) : x = NoteRefRow(x.by, i)
              BY <6>3 DEF NoteStored
            <7>2. x.key = <<"note_image_refs", NoteRow, req[x.by].images[i]>>
              BY <7>1, RowFields DEF NoteRefRow
            <7>. QED
              BY <6>2, <7>2
          <6>4. Current(t) = Doing("delete", {w}, FALSE) /\ IsAt(t, {"delete"})
            BY <3>1, <4>2, <4>9, <6>1 DEF IsAt, Doing
          <6>5. NoteRefs \subseteq db /\ (tx[t].started => NoteRefs \subseteq Doomed(t))
            BY <4>1, <4>9 DEF NoteRefs
          <6>6. \/ tx'[t].at = tx[t].at /\ tx'[t].started = TRUE /\ NoteRefs \subseteq Doomed(t)'
                \/ MovesTo(t, tx[t].at + 1) /\ NoteRefs \subseteq tx'[t].del
            BY <1>3, <6>3, <6>4, <6>5, Clearing
          <6>. QED
            BY <3>3, <4>9, <6>6
        <5>2. \A x \in tx'[t].ins : x.key[1] # "note_image_refs"
          <6>1. \A x \in tx[t].ins : x.key[1] # "note_image_refs"
            BY <3>3, <4>9 DEF NoteOwn
          <6>2. ~InsertStep(t)
            BY <4>2, <4>9 DEF InsertStep, IsAt, OnceEach, Keywise, Doing
          <6>3. tx'[t].ins \subseteq tx[t].ins
            BY <1>3, <6>2, Effects DEF CommitStep
          <6>. QED
            BY <6>1, <6>3
        <5>3. b \in {2, 3} /\ (b = 2 => NoteRefs \subseteq Doomed(t)') /\ (b = 3 => NoteRefs \subseteq tx'[t].del)
          BY <4>6, <5>1 DEF MovesTo
        <5>4. \A j \in 1..l : ~(b > 2 * j + 1)
          BY <5>3
        <5>5. NoteRow' = NoteRow
          BY DEF NoteRow
        <5>. QED
          BY <1>1, <2>1, <3>2, <4>5, <4>6, <4>8, <5>2, <5>3, <5>4, <5>5 DEF NoteOwn
      <4>10. CASE a > 2
        <5>1. PICK j \in 1..l : a = 2 * j + 1 \/ a = 2 * j + 2
          BY <4>3, <4>10
        <5>2. tx'[t].del = tx[t].del /\ ~DeleteStep(t)
          <6>1. Current(t).does # "delete" /\ Current(t).does # "cascade"
            BY <4>2, <5>1 DEF Inserting, CheckingParent, Doing
          <6>2. ~DeleteStep(t)
            BY <6>1 DEF DeleteStep, IsAt
          <6>. QED
            BY <1>3, <6>2, Effects DEF CommitStep
        <5>3. /\ tx[t].ins \subseteq tx'[t].ins
              /\ tx'[t].ins \subseteq tx[t].ins \cup {NoteRefRow(t, j)}
              /\ a = 2 * j + 1 => NoteRefRow(t, j) \in tx'[t].ins
          <6>1. CASE a = 2 * j + 1
            <7>1. tx'[t].ins = tx[t].ins \cup {Row(<<ItemTable(req[t]), tx[t].row, req[t].images[j]>>, t)}
              BY <1>3, <3>1, <3>2, <3>3, <6>1, ItemStep
            <7>2. ItemTable(req[t]) = "note_image_refs"
              BY <3>1 DEF ItemTable
            <7>. QED
              BY <4>1, <7>1, <7>2 DEF NoteRefRow
          <6>2. CASE a = 2 * j + 2
            <7>1. ~InsertStep(t)
              BY <4>2, <6>2 DEF InsertStep, IsAt, OnceEach, Keywise, CheckingParent, Doing
            <7>2. tx'[t].ins = tx[t].ins
              BY <1>3, <5>2, <7>1, Effects DEF CommitStep
            <7>. QED
              BY <6>2, <7>2
          <6>. QED
            BY <5>1, <6>1, <6>2
        <5>4. \A i \in 1..l : b > 2 * i + 1 => a > 2 * i + 1 \/ (i = j /\ a = 2 * j + 1)
          BY <4>7, <5>1
        <5>5. \A i \in 1..l : b > 2 * i + 1 => NoteRefRow(t, i) \in tx'[t].ins
          BY <4>1, <5>3, <5>4
        <5>6. \A x \in tx'[t].ins : x.key[1] = "note_image_refs" =>
                 \E i \in 1..l : x = NoteRefRow(t, i)
          BY <3>2, <5>3 DEF NoteOwn
        <5>7. b > 2 /\ NoteRefs \subseteq tx'[t].del
          BY <4>1, <4>7, <4>10, <5>2
        <5>8. NoteRow' = NoteRow
          BY DEF NoteRow
        <5>. QED
          BY <1>1, <2>1, <2>3, <3>2, <4>5, <4>6, <4>8, <5>5, <5>6, <5>7, <5>8 DEF NoteOwn
      <4>. QED
        BY <3>5, <4>9, <4>10
    <3>. QED
      BY <3>4, <3>5
  <2>. QED
    BY <2>2, <2>3
<1>. QED
  BY <1>2, <1>3, Effects DEF CommitStep, Clears, Data, MovesTo, Goes

\* An update of the note keeps its images for itself, also when another transaction
\* commits.
LEMMA NoteOthers ==
  ASSUME TypeOK, LocksExclude, NEW t \in Txs, NoteOwn(t), Steps(t),
         NEW u \in Txs \ {t}, NoteOwn(u)
  PROVE  NoteOwn(u)'
<1>1. req' = req /\ tx'[u] = tx[u] /\ tx[t].st = "open"
  BY OpenStep
<1>2. /\ Doomed(u)' = Doomed(u) /\ Todo(u)' = Todo(u) /\ (UpdatingNote(u)' <=> UpdatingNote(u))
      /\ (\A j : NoteRefRow(u, j)' = NoteRefRow(u, j)) /\ NoteRow' = NoteRow
  BY <1>1, OthersStay DEF Doomed, UpdatingNote, Runs, NoteRefRow, NoteRow
<1>3. tx[u].at \in Nat /\ tx[t].at \in Nat
  BY CurrentFacts
<1>4. ASSUME UpdatingNote(u), tx[u].at > 1 PROVE NoteRefs' \subseteq NoteRefs
  <2>1. CASE db' = db
    BY <2>1 DEF NoteRefs
  <2>2. CASE db' = (db \ tx[t].del) \cup tx[t].ins
    <3>1. ASSUME NEW x \in tx[t].ins, x.key[1] = "note_image_refs" PROVE FALSE
      <4>1. UpdatingNote(t) /\ tx[t].at > 1
        BY <1>3, <3>1 DEF NoteOwn
      <4>2. NoteRow \in tx[t].upd /\ NoteRow \in tx[u].upd
        BY <1>4, <4>1 DEF NoteOwn
      <4>. QED
        BY <4>2 DEF LocksExclude
    <3>. QED
      BY <2>2, <3>1 DEF NoteRefs
  <2>. QED
    BY <2>1, <2>2, OnlyCommits
<1>5. ASSUME UpdatingNote(u)
      PROVE  /\ tx[u].at = 2 /\ tx[u].started => NoteRefs' \subseteq Doomed(u)
             /\ tx[u].at > 2 => NoteRefs' \subseteq tx[u].del
  <2>1. /\ tx[u].at = 2 /\ tx[u].started => NoteRefs \subseteq Doomed(u)
        /\ tx[u].at > 2 => NoteRefs \subseteq tx[u].del
    BY <1>5 DEF NoteOwn
  <2>2. tx[u].at = 2 \/ tx[u].at > 2 => NoteRefs' \subseteq NoteRefs
    BY <1>3, <1>4, <1>5
  <2>. QED
    BY <2>1, <2>2
<1>6. \A x \in tx[u].ins : x.key[1] = "note_image_refs" =>
          /\ UpdatingNote(u) /\ tx[u].at > 2
          /\ \E j \in 1..Len(req[u].images) : x = NoteRefRow(u, j)
  BY DEF NoteOwn
<1>7. UpdatingNote(u) =>
          /\ tx[u].at = 1 /\ tx[u].started => Todo(u) \subseteq {NoteRow}
          /\ tx[u].at > 1 => tx[u].row = NoteRow /\ NoteRow \in tx[u].upd
          /\ \A j \in 1..Len(req[u].images) :
                tx[u].at > 2 * j + 1 => NoteRefRow(u, j) \in tx[u].ins
  BY DEF NoteOwn
<1>. QED
  BY <1>1, <1>2, <1>5, <1>6, <1>7 DEF NoteOwn

\* A row of a group stays with the rows of its group.
LEMMA GroupStays ==
  ASSUME TodoOK, DeletesGroups, NEW t \in Txs, AtEnd(t), db' = (db \ tx[t].del) \cup tx[t].ins,
         NEW x \in db \ tx[t].del, NEW y \in db, Together(x, y)
  PROVE  y \in db'
<1>1. ~tx[t].started
  BY DEF TodoOK, TodoOf
<1>2. Doomed(t) = tx[t].del
  BY <1>1 DEF Doomed, During
<1>3. Together(y, x)
  BY DEF Together
<1>. QED
  BY <1>2, <1>3 DEF DeletesGroups

\* An update of the note replaces its images by all of its own.
LEMMA NoteStoredStep ==
  ASSUME TypeOK, TodoOK, WritersOK, DeletesGroups, NEW t \in Txs, NoteOwn(t), NoteStored, Steps(t)
  PROVE  NoteStored'
<1>1. req' = req /\ tx[t].st = "open" /\ \A u, j : NoteRefRow(u, j)' = NoteRefRow(u, j)
  BY OpenStep DEF NoteRefRow, NoteRow
<1>2. CASE db' = db
  BY <1>1, <1>2 DEF NoteStored, NoteRefs
<1>3. CASE db' = (db \ tx[t].del) \cup tx[t].ins /\ AtEnd(t)
  <2>1. ASSUME NEW x \in tx[t].ins, x.key[1] = "note_image_refs"
        PROVE  /\ x.by = t /\ req[t].call = "update_note" /\ NoteRefs \subseteq tx[t].del
               /\ \E j \in 1..Len(req[t].images) : x = NoteRefRow(t, j)
               /\ \A j \in 1..Len(req[t].images) : NoteRefRow(t, j) \in tx[t].ins
    <3>1. /\ UpdatingNote(t) /\ tx[t].at > 2
          /\ \E j \in 1..Len(req[t].images) : x = NoteRefRow(t, j)
      BY <2>1 DEF NoteOwn
    <3>2. req[t].call = "update_note" /\ NoteRefs \subseteq tx[t].del /\ x.by = t
      BY <2>1, <3>1 DEF NoteOwn, UpdatingNote, Runs, WritersOK
    <3>3. PICK r \in Requests : r = req[t]
      BY DEF TypeOK
    <3>4. PICK l \in Nat : l = Len(req[t].images) /\ Len(Programs[r]) = 2 + 2 * l
      <4>1. ListIs(r, Programs[r], Len(r.images))
        BY <3>2, <3>3, ListProgram
      <4>. QED
        BY <3>3, <4>1 DEF ListIs
    <3>5. tx[t].at = Len(Programs[r]) + 1
      BY <1>3, <3>3, CurrentFacts
    <3>6. \A j \in 1..l : tx[t].at > 2 * j + 1
      BY <3>4, <3>5
    <3>7. \A j \in 1..Len(req[t].images) : NoteRefRow(t, j) \in tx[t].ins
      BY <3>1, <3>4, <3>6 DEF NoteOwn
    <3>. QED
      BY <3>1, <3>2, <3>7
  <2>2. ASSUME NEW x \in db', x.key[1] = "note_image_refs", x \notin tx[t].ins
        PROVE  /\ x \in NoteRefs
               /\ \A j \in 1..Len(req[x.by].images) : NoteRefRow(x.by, j) \in db'
    <3>1. x \in db \ tx[t].del /\ x \in NoteRefs
      BY <1>3, <2>2 DEF NoteRefs
    <3>2. ASSUME NEW j \in 1..Len(req[x.by].images) PROVE NoteRefRow(x.by, j) \in db'
      <4>1. NoteRefRow(x.by, j) \in db
        BY <3>1 DEF NoteStored
      <4>2. PICK i \in 1..Len(req[x.by].images) : x = NoteRefRow(x.by, i)
        BY <3>1 DEF NoteStored
      <4>3. Together(x, NoteRefRow(x.by, j))
        BY <4>2, RowFields DEF Together, NoteRefRow
      <4>. QED
        BY <1>3, <3>1, <4>1, <4>3, GroupStays
    <3>. QED
      BY <3>1, <3>2
  <2>3. ASSUME NEW x \in db', NEW y \in db', x.key[1] = "note_image_refs", y.key[1] = "note_image_refs"
        PROVE  x.by = y.by
    <3>1. CASE x \in tx[t].ins
      <4>1. y \notin db \ tx[t].del
        BY <2>1, <2>3, <3>1 DEF NoteRefs
      <4>. QED
        BY <1>3, <2>1, <2>3, <3>1, <4>1
    <3>2. CASE y \in tx[t].ins
      <4>1. x \notin db \ tx[t].del
        BY <2>1, <2>3, <3>2 DEF NoteRefs
      <4>. QED
        BY <1>3, <2>1, <2>3, <3>2, <4>1
    <3>3. CASE x \notin tx[t].ins /\ y \notin tx[t].ins
      BY <2>2, <2>3, <3>3 DEF NoteStored
    <3>. QED
      BY <3>1, <3>2, <3>3
  <2>4. ASSUME NEW x \in db', x.key[1] = "note_image_refs"
        PROVE  /\ x.by \in Txs /\ req[x.by].call = "update_note"
               /\ \E j \in 1..Len(req[x.by].images) : x = NoteRefRow(x.by, j)
               /\ \A j \in 1..Len(req[x.by].images) : NoteRefRow(x.by, j) \in db'
    <3>1. CASE x \in tx[t].ins
      BY <1>3, <2>1, <2>4, <3>1
    <3>2. CASE x \notin tx[t].ins
      BY <2>2, <2>4, <3>2 DEF NoteStored
    <3>. QED
      BY <3>1, <3>2
  <2>5. \A x \in db' : x.key[1] = "note_image_refs" =>
           /\ x.by \in Txs /\ req'[x.by].call = "update_note"
           /\ \E j \in 1..Len(req'[x.by].images) : x = Row(<<"note_image_refs", NoteRow, req'[x.by].images[j]>>, x.by)
           /\ \A j \in 1..Len(req'[x.by].images) :
                 Row(<<"note_image_refs", NoteRow, req'[x.by].images[j]>>, x.by) \in db'
    BY <1>1, <2>4 DEF NoteRefRow
  <2>6. \A x, y \in db' : x.key[1] = "note_image_refs" /\ y.key[1] = "note_image_refs" => x.by = y.by
    BY <2>3
  <2>. QED
    BY <2>5, <2>6 DEF NoteStored, NoteRefs, NoteRefRow, NoteRow
<1>. QED
  BY <1>2, <1>3, OnlyCommits

-----------------------------------------------------------------------------
(* The images of a collection.                                             *)

MemberRow(t, p, j) == Row(<<"collection_images", p, req[t].images[j]>>, t)
SettingMembers(t) == Runs(t, "set_collection_images")

\* A call that stores the images of a collection inserts them one after the other; one
\* that finds no collection inserts none.
MemberOwn(t) ==
    /\ \A x \in tx[t].ins : x.key[1] = "collection_images" =>
          /\ SettingMembers(t) /\ tx[t].at > 2
          /\ \E j \in 1..Len(req[t].images) : x = MemberRow(t, tx[t].row, j)
    /\ SettingMembers(t) =>
          \/ AtEnd(t) /\ \A x \in tx[t].ins : x.key[1] # "collection_images"
          \/ \A j \in 1..Len(req[t].images) :
                tx[t].at > 2 * j + 1 => MemberRow(t, tx[t].row, j) \in tx[t].ins

\* The images of a collection that are stored and come from one call are all those of
\* its request.
MembersStored ==
    /\ \A x, y \in db : x.key[1] = "collection_images" /\ y.key[1] = "collection_images"
                           /\ x.by = y.by => x.key[2] = y.key[2]
    /\ \A x \in db : x.key[1] = "collection_images" =>
          /\ x.by \in Txs /\ req[x.by].call = "set_collection_images"
          /\ \E j \in 1..Len(req[x.by].images) : x = MemberRow(x.by, x.key[2], j)
          /\ \A j \in 1..Len(req[x.by].images) : MemberRow(x.by, x.key[2], j) \in db
MembersInv == (\A t \in Txs : MemberOwn(t)) /\ MembersStored

\* A call's own steps keep what is known of the collection's images it inserts.
LEMMA MemberOwnStep ==
  ASSUME TypeOK, TodoOK, WritersOK, NEW t \in Txs, MemberOwn(t), Steps(t)
  PROVE  MemberOwn(t)'
<1>1. req' = req /\ tx[t].st = "open" /\ tx[t].at \in Nat \ {0}
  BY OpenStep, CurrentFacts
<1>2. CASE tx'[t].ins = {} /\ tx'[t].at = 1 /\ tx'[t].started = FALSE
  <2>1. SettingMembers(t)' => Len(req[t].images) \in Nat
    <3>1. SUFFICES ASSUME req[t].call = "set_collection_images" PROVE Len(req[t].images) \in Nat
      BY <1>1 DEF SettingMembers, Runs
    <3>2. PICK r \in Requests : r = req[t]
      BY DEF TypeOK
    <3>3. ListIs(r, Programs[r], Len(r.images))
      BY <3>1, <3>2, ListProgram
    <3>. QED
      BY <3>2, <3>3 DEF ListIs
  <2>. QED
    BY <1>1, <1>2, <2>1 DEF MemberOwn
<1>3. CASE db' = db /\ Goes(t) /\ ~EndStep(t) /\ tx'[t].st = "open"
  <2>1. SettingMembers(t)' <=> SettingMembers(t)
    BY <1>1, <1>3 DEF SettingMembers, Runs
  <2>2. CASE ~SettingMembers(t)
    <3>1. ~(InsertedKey(t, Next1(t)) /\ Next1(t)[1] = "collection_images")
      <4>1. req[t].call # "set_collection_images"
        BY <1>1, <2>2 DEF SettingMembers, Runs
      <4>. QED
        BY <4>1 DEF InsertedKey, RefKey, ItemTable
    <3>2. ~CommitStep(t)
      BY <1>3 DEF CommitStep
    <3>3. \A x \in tx[t].ins : x.key[1] # "collection_images"
      BY <2>2 DEF MemberOwn
    <3>4. \/ tx'[t].ins \subseteq tx[t].ins
          \/ InsertedKey(t, Next1(t)) /\ tx'[t].ins = tx[t].ins \cup {Row(Next1(t), t)}
      BY <1>3, <3>2, Effects
    <3>5. \A k : Row(k, t).key = k
      BY RowFields
    <3>6. \A x \in tx'[t].ins : x.key[1] # "collection_images"
      BY <3>1, <3>3, <3>4, <3>5
    <3>. QED
      BY <2>1, <2>2, <3>6 DEF MemberOwn
  <2>3. CASE SettingMembers(t)
    <3>1. /\ IsAt(t, Kinds) /\ req[t].call = "set_collection_images"
          /\ \/ MovesTo(t, tx[t].at + 1)
             \/ tx'[t].at = tx[t].at /\ tx'[t].started = TRUE
             \/ MissStep(t) /\ Current(t).must /\ MovesTo(t, Len(Programs[req[t]]) + 1)
          /\ SameRow(t) \/ SelectStep(t) \/ UpdateStep(t)
      BY <1>3, <2>3, Moving DEF SettingMembers, Runs
    <3>2. PICK l \in Nat : l = Len(req[t].images)
      BY <3>1, ListNow
    <3>3. PICK a \in 1..(2 + 2 * l) : a = tx[t].at
      BY <3>1, <3>2, ListNow
    <3>4. Programs[req[t]]' = Programs[req[t]] /\ Len(Programs[req[t]]) = 2 + 2 * l
      BY <1>1, <3>1, <3>2, ListNow
    <3>5. /\ a = 1 => Current(t).does = "select"
          /\ a = 2 => Current(t) = Doing("delete", {<<"collection_images", This>>}, FALSE)
          /\ \A j \in 1..l :
                /\ a = 2 * j + 1 => Current(t) = Inserting(ItemKey(req[t], req[t].images[j]))
                /\ a = 2 * j + 2 => Current(t) = CheckingParent
      <4>1. a = 1 => Current(t) = FirstOf(req[t])
        BY <3>1, <3>3, ListNow
      <4>2. FirstOf(req[t]).does = "select"
        BY <3>1, Shapes DEF FirstOf
      <4>. QED
        BY <3>1, <3>2, <3>3, <4>1, <4>2, ListNow DEF ItemTable
    <3>6. CASE a = 1
      <4>1. \A x \in tx[t].ins : x.key[1] # "collection_images"
        BY <3>3, <3>6 DEF MemberOwn
      <4>2. MissStep(t) \/ SelectStep(t)
        BY <1>3, <3>5, <3>6 DEF Steps, ScanStep, InsertStep, PresentStep, TakeStep, UpdateStep,
           DeleteStep, ParentStep, CommitStep, IsAt, Rowwise, OnceEach, Keywise
      <4>3. tx'[t].ins = tx[t].ins
        BY <4>2 DEF MissStep, SelectStep, SameData, Data
      <4>4. tx'[t].at = 2 \/ tx'[t].at = 2 + 2 * l + 1
        BY <3>3, <3>4, <3>6, <4>2 DEF MissStep, SelectStep, MovesTo
      <4>5. CASE tx'[t].at = 2
        <5>1. \A j \in 1..l : ~(tx'[t].at > 2 * j + 1)
          BY <4>5
        <5>. QED
          BY <1>1, <3>2, <4>1, <4>3, <5>1 DEF MemberOwn
      <4>6. CASE tx'[t].at = 2 + 2 * l + 1
        <5>1. AtEnd(t)'
          BY <1>1, <3>4, <4>6 DEF AtEnd
        <5>. QED
          BY <4>1, <4>3, <5>1 DEF MemberOwn
      <4>. QED
        BY <4>4, <4>5, <4>6
    <3>7. CASE a # 1
      <4>0. PICK p : p = tx[t].row
        OBVIOUS
      <4>1. /\ \A j \in 1..l : a > 2 * j + 1 => MemberRow(t, p, j) \in tx[t].ins
            /\ \A x \in tx[t].ins : x.key[1] = "collection_images" =>
                  a > 2 /\ \E j \in 1..l : x = MemberRow(t, p, j)
        <5>1. ~AtEnd(t)
          BY <3>1 DEF IsAt
        <5>. QED
          BY <2>3, <3>2, <3>3, <4>0, <5>1 DEF MemberOwn
      <4>2. a = 2 \/ \E j \in 1..l : a = 2 * j + 1 \/ a = 2 * j + 2
        <5>1. a = 2 \/ a > 2
          BY <3>7
        <5>. QED
          BY <5>1, ListPositions
      <4>3. Current(t).does \in {"delete", "insert", "fkey"} /\ ~Current(t).must
        BY <3>5, <4>2 DEF Inserting, CheckingParent, Doing
      <4>4. tx'[t].row = p /\ (MovesTo(t, a + 1) \/ (tx'[t].at = a /\ tx'[t].started = TRUE))
        <5>1. ~SelectStep(t) /\ ~UpdateStep(t)
          BY <4>3 DEF SelectStep, UpdateStep, IsAt
        <5>. QED
          BY <3>1, <3>3, <4>0, <4>3, <5>1 DEF SameRow
      <4>5. PICK b \in Nat : b = tx'[t].at
        BY <4>4 DEF MovesTo
      <4>6. b = a + 1 \/ b = a
        BY <4>4, <4>5 DEF MovesTo
      <4>7. \A j : MemberRow(t, tx[t].row, j)' = MemberRow(t, p, j)
        BY <1>1, <4>4 DEF MemberRow
      <4>8. CASE a = 2
        <5>1. \A x \in tx[t].ins : x.key[1] # "collection_images"
          BY <4>1, <4>8
        <5>2. ~InsertStep(t)
          BY <3>5, <4>8 DEF InsertStep, IsAt, OnceEach, Keywise, Doing
        <5>3. tx'[t].ins \subseteq tx[t].ins
          BY <1>3, <5>2, Effects DEF CommitStep
        <5>4. \A j \in 1..l : ~(b > 2 * j + 1)
          BY <4>6, <4>8
        <5>. QED
          BY <1>1, <3>2, <4>5, <5>1, <5>3, <5>4 DEF MemberOwn
      <4>9. CASE a > 2
        <5>1. PICK j \in 1..l : a = 2 * j + 1 \/ a = 2 * j + 2
          BY <4>2, <4>9
        <5>2. /\ tx[t].ins \subseteq tx'[t].ins
              /\ tx'[t].ins \subseteq tx[t].ins \cup {MemberRow(t, p, j)}
              /\ a = 2 * j + 1 => MemberRow(t, p, j) \in tx'[t].ins
          <6>1. CASE a = 2 * j + 1
            <7>1. tx'[t].ins = tx[t].ins \cup {Row(<<ItemTable(req[t]), tx[t].row, req[t].images[j]>>, t)}
              BY <1>3, <3>1, <3>2, <3>3, <6>1, ItemStep
            <7>2. ItemTable(req[t]) = "collection_images"
              BY <3>1 DEF ItemTable
            <7>. QED
              BY <4>0, <7>1, <7>2 DEF MemberRow
          <6>2. CASE a = 2 * j + 2
            <7>1. ~InsertStep(t) /\ ~DeleteStep(t)
              BY <3>5, <6>2 DEF InsertStep, DeleteStep, IsAt, OnceEach, Keywise, CheckingParent, Doing
            <7>2. tx'[t].ins = tx[t].ins
              BY <1>3, <7>1, Effects DEF CommitStep
            <7>. QED
              BY <6>2, <7>2
          <6>. QED
            BY <5>1, <6>1, <6>2
        <5>3. \A i \in 1..l : b > 2 * i + 1 => a > 2 * i + 1 \/ (i = j /\ a = 2 * j + 1)
          BY <4>6, <5>1
        <5>4. \A i \in 1..l : b > 2 * i + 1 => MemberRow(t, p, i) \in tx'[t].ins
          BY <4>1, <5>2, <5>3
        <5>5. \A x \in tx'[t].ins : x.key[1] = "collection_images" =>
                 \E i \in 1..l : x = MemberRow(t, p, i)
          BY <4>1, <5>2
        <5>6. b > 2
          BY <4>6, <4>9
        <5>. QED
          BY <1>1, <2>1, <2>3, <3>2, <4>5, <4>7, <5>4, <5>5, <5>6 DEF MemberOwn
      <4>. QED
        BY <3>7, <4>8, <4>9
    <3>. QED
      BY <3>6, <3>7
  <2>. QED
    BY <2>2, <2>3
<1>. QED
  BY <1>2, <1>3, Effects DEF CommitStep, Clears, Data, MovesTo, Goes

\* What a call stores of a collection is not another one's business.
LEMMA MemberOthers ==
  ASSUME NEW t \in Txs, Steps(t), NEW u \in Txs \ {t}, MemberOwn(u)
  PROVE  MemberOwn(u)'
<1>1. req' = req /\ tx'[u] = tx[u]
  BY OpenStep
<1>2. /\ (SettingMembers(u)' <=> SettingMembers(u)) /\ AtEnd(u)' = AtEnd(u)
      /\ \A j : MemberRow(u, tx[u].row, j)' = MemberRow(u, tx[u].row, j)
  BY <1>1, OthersStay DEF SettingMembers, Runs, MemberRow
<1>. QED
  BY <1>1, <1>2 DEF MemberOwn

\* A call that stores images of a collection stores all of its list.
LEMMA MembersStoredStep ==
  ASSUME TypeOK, TodoOK, WritersOK, DeletesGroups, NEW t \in Txs, MemberOwn(t), MembersStored, Steps(t)
  PROVE  MembersStored'
<1>1. req' = req /\ tx[t].st = "open" /\ \A u, p, j : MemberRow(u, p, j)' = MemberRow(u, p, j)
  BY OpenStep DEF MemberRow
<1>2. CASE db' = db
  BY <1>1, <1>2 DEF MembersStored
<1>3. CASE db' = (db \ tx[t].del) \cup tx[t].ins /\ AtEnd(t)
  <2>0. PICK p : p = tx[t].row
    OBVIOUS
  <2>1. ASSUME NEW x \in tx[t].ins, x.key[1] = "collection_images"
        PROVE  /\ x.by = t /\ req[t].call = "set_collection_images" /\ x.key[2] = p
               /\ \E j \in 1..Len(req[t].images) : x = MemberRow(t, p, j)
               /\ \A j \in 1..Len(req[t].images) : MemberRow(t, p, j) \in tx[t].ins
    <3>1. /\ SettingMembers(t) /\ x.by = t
          /\ \E j \in 1..Len(req[t].images) : x = MemberRow(t, p, j)
      BY <2>0, <2>1 DEF MemberOwn, WritersOK
    <3>2. req[t].call = "set_collection_images" /\ x.key[2] = p
      BY <3>1, RowFields DEF SettingMembers, Runs, MemberRow
    <3>3. PICK r \in Requests : r = req[t]
      BY DEF TypeOK
    <3>4. PICK l \in Nat : l = Len(req[t].images) /\ Len(Programs[r]) = 2 + 2 * l
      <4>1. ListIs(r, Programs[r], Len(r.images))
        BY <3>2, <3>3, ListProgram
      <4>. QED
        BY <3>3, <4>1 DEF ListIs
    <3>5. tx[t].at = Len(Programs[r]) + 1
      BY <1>3, <3>3, CurrentFacts
    <3>6. \A j \in 1..l : tx[t].at > 2 * j + 1
      BY <3>4, <3>5
    <3>7. \A j \in 1..Len(req[t].images) : MemberRow(t, p, j) \in tx[t].ins
      BY <2>0, <2>1, <3>1, <3>4, <3>6 DEF MemberOwn
    <3>. QED
      BY <3>1, <3>2, <3>7
  <2>2. ASSUME NEW x \in db', x.key[1] = "collection_images", x \notin tx[t].ins
        PROVE  /\ x \in db /\ x.by # t
               /\ \A j \in 1..Len(req[x.by].images) : MemberRow(x.by, x.key[2], j) \in db'
    <3>1. x \in db \ tx[t].del
      BY <1>3, <2>2
    <3>2. x.by # t
      BY <1>1, <3>1 DEF WritersOK
    <3>3. ASSUME NEW j \in 1..Len(req[x.by].images) PROVE MemberRow(x.by, x.key[2], j) \in db'
      <4>1. MemberRow(x.by, x.key[2], j) \in db
        BY <2>2, <3>1 DEF MembersStored
      <4>2. Together(x, MemberRow(x.by, x.key[2], j))
        BY <2>2, RowFields DEF Together, MemberRow
      <4>. QED
        BY <1>3, <3>1, <4>1, <4>2, GroupStays
    <3>. QED
      BY <3>1, <3>2, <3>3
  <2>3. ASSUME NEW x \in db', NEW y \in db', x.key[1] = "collection_images",
               y.key[1] = "collection_images", x.by = y.by
        PROVE  x.key[2] = y.key[2]
    <3>1. CASE x \in tx[t].ins
      <4>1. x.by = t /\ x.key[2] = p
        BY <2>1, <2>3, <3>1
      <4>2. y \in tx[t].ins
        BY <2>2, <2>3, <4>1
      <4>. QED
        BY <2>1, <2>3, <4>1, <4>2
    <3>2. CASE x \notin tx[t].ins
      <4>1. x \in db /\ x.by # t
        BY <2>2, <2>3, <3>2
      <4>2. y \notin tx[t].ins
        BY <2>1, <2>3, <4>1
      <4>3. y \in db
        BY <2>2, <2>3, <4>2
      <4>. QED
        BY <2>3, <4>1, <4>3 DEF MembersStored
    <3>. QED
      BY <3>1, <3>2
  <2>4. ASSUME NEW x \in db', x.key[1] = "collection_images"
        PROVE  /\ x.by \in Txs /\ req[x.by].call = "set_collection_images"
               /\ \E j \in 1..Len(req[x.by].images) : x = MemberRow(x.by, x.key[2], j)
               /\ \A j \in 1..Len(req[x.by].images) : MemberRow(x.by, x.key[2], j) \in db'
    <3>1. CASE x \in tx[t].ins
      BY <1>3, <2>1, <2>4, <3>1
    <3>2. CASE x \notin tx[t].ins
      BY <2>2, <2>4, <3>2 DEF MembersStored
    <3>. QED
      BY <3>1, <3>2
  <2>5. \A x \in db' : x.key[1] = "collection_images" =>
           /\ x.by \in Txs /\ req'[x.by].call = "set_collection_images"
           /\ \E j \in 1..Len(req'[x.by].images) :
                 x = Row(<<"collection_images", x.key[2], req'[x.by].images[j]>>, x.by)
           /\ \A j \in 1..Len(req'[x.by].images) :
                 Row(<<"collection_images", x.key[2], req'[x.by].images[j]>>, x.by) \in db'
    BY <1>1, <2>4 DEF MemberRow
  <2>6. \A x, y \in db' : x.key[1] = "collection_images" /\ y.key[1] = "collection_images"
                             /\ x.by = y.by => x.key[2] = y.key[2]
    BY <2>3
  <2>. QED
    BY <2>5, <2>6 DEF MembersStored, MemberRow
<1>. QED
  BY <1>2, <1>3, OnlyCommits

-----------------------------------------------------------------------------
(* The invariants together, and the theorems.                              *)

Upserts == UpsertHolds /\ UpsertTags /\ UpsertsFail
Wholes == RefsInv /\ DescInv /\ NoteInv /\ MembersInv
IInv == Engine /\ DeletesGroups /\ Upserts /\ Wholes

\* At the start no list of the note or of a collection is stored.
LEMMA WholesInit == Init => Upserts /\ Wholes
<1>. SUFFICES ASSUME Init PROVE Upserts /\ Wholes
  OBVIOUS
<1>1. /\ \A x \in db : InitialRow(x) /\ x \in DbRow /\ x.by = Seed
      /\ Row(NoteKey, Seed) \in db
      /\ \A t \in Txs : /\ tx[t].st = "open" /\ tx[t].at = 1 /\ tx[t].started = FALSE
                        /\ tx[t].row = NoRow /\ tx[t].ins = {} /\ tx[t].del = {}
                        /\ tx[t].upd = {} /\ tx[t].shr = {}
  BY InitFacts
<1>2. Engine
  BY EngineInit
<1>3. \A t \in Txs : ~Selected(t)
  <2>1. \A t \in Txs : tx[t].at - 1 = 0
    BY <1>1
  <2>. QED
    BY <2>1 DEF Selected
<1>4. Upserts
  BY <1>1, <1>3 DEF Upserts, UpsertHolds, UpsertOf, UpsertTags, TagsOf, UpsertsFail
<1>5. \A x \in db : x.key[1] # "note_image_refs" /\ x.key[1] # "collection_images"
                      /\ (x.key[1] = "notes" => x = NoteRow)
  <2>1. \A k : Row(k, Seed).key = k
    BY RowFields
  <2>2. ASSUME NEW x \in db PROVE x.key[1] # "note_image_refs" /\ x.key[1] # "collection_images"
                      /\ (x.key[1] = "notes" => x = NoteRow)
    <3>1. CASE x = Row(NoteKey, Seed) \/ x = Row(CollectionKey, Seed)
      BY <2>1, <3>1 DEF NoteRow, NoteKey, CollectionKey
    <3>2. CASE \E r \in Seeds : StoredRow(r, x)
      <4>1. PICK r \in Seeds : StoredRow(r, x)
        BY <3>2
      <4>2. x.key[1] \in {"images", "tags", "image_tags", "image_references", "generation_params",
                          "image_descriptions"}
        <5>1. /\ \A s : Row(ImageKey(s), Seed).key[1] = "images"
              /\ \A g : Row(TagKey(g), Seed).key[1] = "tags"
              /\ \A s, n : Row(RefKey(s, n), Seed).key[1] = "image_references"
              /\ \A p, n : /\ Row(<<"image_tags", p, n>>, Seed).key[1] = "image_tags"
                          /\ Row(<<"generation_params", p, n>>, Seed).key[1] = "generation_params"
                          /\ Row(<<"image_descriptions", p, n>>, Seed).key[1] = "image_descriptions"
          BY <2>1 DEF ImageKey, TagKey, RefKey
        <5>2. \/ \E s : x = Row(ImageKey(s), Seed)
              \/ \E g : x = Row(TagKey(g), Seed)
              \/ \E s, n : x = Row(RefKey(s, n), Seed)
              \/ \E p, n : \/ x = Row(<<"image_tags", p, n>>, Seed)
                           \/ x = Row(<<"generation_params", p, n>>, Seed)
                           \/ x = Row(<<"image_descriptions", p, n>>, Seed)
          BY <4>1 DEF StoredRow
        <5>3. CASE \E s : x = Row(ImageKey(s), Seed)
          BY <5>1, <5>3
        <5>4. CASE \E g : x = Row(TagKey(g), Seed)
          BY <5>1, <5>4
        <5>5. CASE \E s, n : x = Row(RefKey(s, n), Seed)
          BY <5>1, <5>5
        <5>. QED
          BY <5>1, <5>2, <5>3, <5>4, <5>5
      <4>. QED
        BY <4>2
    <3>. QED
      BY <1>1, <3>1, <3>2 DEF InitialRow
  <2>. QED
    BY <2>2
<1>6. RefsInv
  <2>1. ASSUME NEW t \in Txs PROVE RefsOwn(t)
    <3>1. Upserting(t) /\ req[t].refs # <<>> => RefsAt(req[t]) \in Nat \ {0} /\ Len(req[t].refs) \in Nat
      BY <1>2, RefsNow DEF Engine, Upserting, Runs
    <3>2. tx[t].at = 1 /\ tx[t].ins = {}
      BY <1>1
    <3>3. ASSUME Upserting(t), req[t].refs # <<>>
          PROVE  /\ ~(tx[t].at = RefsAt(req[t]) + 1) /\ ~(tx[t].at > RefsAt(req[t]) + 1)
                 /\ \A j \in 1..Len(req[t].refs) : ~(tx[t].at > RefsAt(req[t]) + 1 + j)
      BY <3>1, <3>2, <3>3
    <3>. QED
      BY <3>2, <3>3 DEF RefsOwn
  <2>. QED
    BY <1>1, <2>1 DEF RefsInv, RefsStored
<1>7. DescInv
  <2>1. ASSUME NEW t \in Txs PROVE DescOwn(t)
    <3>1. Upserting(t) /\ req[t].description => DescAt(req[t]) \in Nat \ {0}
      BY <1>2, DescNow DEF Engine, Upserting, Runs
    <3>2. tx[t].at = 1 /\ tx[t].ins = {}
      BY <1>1
    <3>. QED
      BY <3>1, <3>2 DEF DescOwn
  <2>2. \A x \in db : x = Row(x.key, Seed)
    BY <1>1, RowFacts
  <2>3. OneDescription
    BY <2>2 DEF OneDescription
  <2>. QED
    BY <2>1, <2>3 DEF DescInv
<1>8. NoteInv
  <2>1. NoteStays
    BY <1>1, <1>5 DEF NoteStays, NoteRow
  <2>2. NoteStored
    BY <1>5 DEF NoteStored, NoteRefs
  <2>3. ASSUME NEW t \in Txs PROVE NoteOwn(t)
    <3>1. \A j \in 1..Len(req[t].images) : UpdatingNote(t) => ~(tx[t].at > 2 * j + 1)
      <4>1. SUFFICES ASSUME UpdatingNote(t) PROVE \A j \in 1..Len(req[t].images) : ~(tx[t].at > 2 * j + 1)
        OBVIOUS
      <4>2. PICK r \in Requests : r = req[t] /\ r.call = "update_note"
        BY <1>2, <4>1 DEF Engine, TypeOK, UpdatingNote, Runs
      <4>3. ListIs(r, Programs[r], Len(r.images))
        BY <4>2, ListProgram
      <4>4. Len(req[t].images) \in Nat
        BY <4>2, <4>3 DEF ListIs
      <4>. QED
        BY <1>1, <4>4
    <3>. QED
      BY <1>1, <3>1 DEF NoteOwn
  <2>. QED
    BY <2>1, <2>2, <2>3 DEF NoteInv
<1>9. MembersInv
  <2>1. ASSUME NEW t \in Txs PROVE MemberOwn(t)
    <3>1. \A j \in 1..Len(req[t].images) : SettingMembers(t) => ~(tx[t].at > 2 * j + 1)
      <4>1. SUFFICES ASSUME SettingMembers(t) PROVE \A j \in 1..Len(req[t].images) : ~(tx[t].at > 2 * j + 1)
        OBVIOUS
      <4>2. PICK r \in Requests : r = req[t] /\ r.call = "set_collection_images"
        BY <1>2, <4>1 DEF Engine, TypeOK, SettingMembers, Runs
      <4>3. ListIs(r, Programs[r], Len(r.images))
        BY <4>2, ListProgram
      <4>4. Len(req[t].images) \in Nat
        BY <4>2, <4>3 DEF ListIs
      <4>. QED
        BY <1>1, <4>4
    <3>. QED
      BY <1>1, <3>1 DEF MemberOwn
  <2>. QED
    BY <1>5, <2>1 DEF MembersInv, MembersStored
<1>. QED
  BY <1>4, <1>6, <1>7, <1>8, <1>9 DEF Wholes

\* Every step keeps what the calls have stored so far whole.
LEMMA WholesStep ==
  ASSUME IInv, NEW t \in Txs, Steps(t)
  PROVE  IInv'
<1>1. /\ TypeOK /\ TodoOK /\ WritersOK /\ LocksExclude /\ KeysUnique /\ DeletesGroups
      /\ UpsertHolds /\ UpsertTags /\ UpsertsFail
      /\ RefsInv /\ DescInv /\ NoteInv /\ MembersInv
  BY DEF IInv, Engine, Upserts, Wholes
<1>2. Engine' /\ DeletesGroups'
  BY <1>1, EngineStep, GroupsStep DEF Engine
<1>3. Upserts'
  BY <1>1, UpsertHoldsStep, UpsertTagsStep, UpsertsFailStep DEF Upserts
<1>4. RefsInv'
  <2>1. RefsOwn(t)' /\ RefsStored'
    BY <1>1, RefsOwnStep, RefsStoredStep DEF RefsInv
  <2>2. ASSUME NEW u \in Txs \ {t} PROVE RefsOwn(u)'
    <3>1. RefsOwn(t) /\ RefsOwn(u)
      BY <1>1 DEF RefsInv
    <3>. QED
      BY <1>1, <3>1, RefsOthers
  <2>. QED
    BY <2>1, <2>2 DEF RefsInv
<1>5. DescInv'
  <2>1. DescOwn(t)' /\ OneDescription'
    BY <1>1, DescOwnStep, OneDescriptionStep DEF DescInv
  <2>2. ASSUME NEW u \in Txs \ {t} PROVE DescOwn(u)'
    <3>1. DescOwn(t) /\ DescOwn(u)
      BY <1>1 DEF DescInv
    <3>. QED
      BY <1>1, <3>1, DescOthers
  <2>. QED
    BY <2>1, <2>2 DEF DescInv
<1>6. NoteInv'
  <2>1. NoteOwn(t)' /\ NoteStored' /\ NoteStays'
    BY <1>1, NoteOwnStep, NoteStoredStep, NoteStaysStep DEF NoteInv
  <2>2. ASSUME NEW u \in Txs \ {t} PROVE NoteOwn(u)'
    <3>1. NoteOwn(t) /\ NoteOwn(u)
      BY <1>1 DEF NoteInv
    <3>. QED
      BY <1>1, <3>1, NoteOthers
  <2>. QED
    BY <2>1, <2>2 DEF NoteInv
<1>7. MembersInv'
  <2>1. MemberOwn(t)' /\ MembersStored'
    BY <1>1, MemberOwnStep, MembersStoredStep DEF MembersInv
  <2>2. ASSUME NEW u \in Txs \ {t} PROVE MemberOwn(u)'
    BY <1>1, MemberOthers DEF MembersInv
  <2>. QED
    BY <2>1, <2>2 DEF MembersInv
<1>. QED
  BY <1>2, <1>3, <1>4, <1>5, <1>6, <1>7 DEF IInv, Wholes

\* A step that changes nothing keeps the invariant.
LEMMA WholesStutter ==
  ASSUME IInv, UNCHANGED rows
  PROVE  IInv'
<1>1. db' = db /\ req' = req /\ tx' = tx
  BY DEF rows
<1>2. Engine' /\ DeletesGroups'
  BY EngineStutter DEF IInv
<1>3. ASSUME NEW t \in Txs
      PROVE  /\ tx'[t] = tx[t] /\ Doomed(t)' = Doomed(t) /\ Todo(t)' = Todo(t) /\ AtEnd(t)' = AtEnd(t)
             /\ Selected(t)' = Selected(t) /\ Upserting(t)' = Upserting(t)
             /\ UpdatingNote(t)' = UpdatingNote(t) /\ SettingMembers(t)' = SettingMembers(t)
  <2>1. tx'[t] = tx[t]
    BY <1>1
  <2>2. Todo(t)' = Todo(t) /\ AtEnd(t)' = AtEnd(t) /\ (\A K : During(t, K)' = During(t, K))
    BY <1>1, <2>1, OthersStay
  <2>. QED
    BY <1>1, <2>1, <2>2 DEF Doomed, Selected, Upserting, UpdatingNote, SettingMembers, Runs
<1>4. Upserts'
  BY <1>1, <1>3 DEF IInv, Upserts, UpsertHolds, UpsertTags, UpsertsFail, UpsertOf, TagsOf
<1>5. RefsInv'
  BY <1>1, <1>3 DEF IInv, Wholes, RefsInv, RefsOwn, RefsStored, RefsOf, ReferenceRow
<1>6. DescInv'
  BY <1>1, <1>3 DEF IInv, Wholes, DescInv, DescOwn, DescriptionsOf, OneDescription
<1>7. NoteInv'
  <2>1. NoteStays'
    BY <1>1, <1>3 DEF IInv, Wholes, NoteInv, NoteStays, NoteRow
  <2>2. NoteStored'
    BY <1>1 DEF IInv, Wholes, NoteInv, NoteStored, NoteRefs, NoteRefRow, NoteRow
  <2>3. ASSUME NEW t \in Txs PROVE NoteOwn(t)'
    <3>1. NoteOwn(t)
      BY DEF IInv, Wholes, NoteInv
    <3>2. NoteRefs' = NoteRefs /\ (\A j : NoteRefRow(t, j)' = NoteRefRow(t, j))
      BY <1>1 DEF NoteRefs, NoteRefRow, NoteRow
    <3>. QED
      BY <1>1, <1>3, <3>1, <3>2 DEF NoteOwn, NoteRow
  <2>. QED
    BY <2>1, <2>2, <2>3 DEF NoteInv
<1>8. MembersInv'
  BY <1>1, <1>3 DEF IInv, Wholes, MembersInv, MemberOwn, MembersStored, MemberRow
<1>9. Wholes'
  BY <1>5, <1>6, <1>7, <1>8 DEF Wholes
<1>. QED
  BY <1>2, <1>4, <1>9 DEF IInv

\* The inductive invariant of the catalog's transactions.
THEOREM IInvHolds == Spec => []IInv
<1>1. Init => IInv
  BY EngineInit, WholesInit DEF IInv
<1>2. IInv /\ [Next]_vars => IInv'
  <2>. SUFFICES ASSUME IInv, [Next]_vars PROVE IInv'
    OBVIOUS
  <2>1. UNCHANGED rows \/ \E t \in Txs : Steps(t)
    BY NextStep DEF IInv, Engine
  <2>. QED
    BY <2>1, WholesStep, WholesStutter
<1>. QED
  BY <1>1, <1>2, PTL DEF Spec

-----------------------------------------------------------------------------
(* What an upsert reads back after its transaction.                        *)

Gone(s) ==
    \E u \in Txs : /\ req[u].call = "delete_images" /\ tx[u].st = "committed"
                   /\ s \in req[u].images

\* Only a delete of images takes an image, one of its own.
TakesItsImages(t) ==
    \A x \in tx[t].del :
        x.key[1] = "images" => req[t].call = "delete_images" /\ x.key[2] \in req[t].images

\* The image of an upsert that committed is there until such a delete commits.
StoredOrGone(t) ==
    req[t].call = "upsert_image" /\ tx[t].st = "committed" =>
        (\E x \in db : x.key = ImageKey(req[t].image)) \/ Gone(req[t].image)

FoundTyped == found \in [Txs -> {"unread", "image", "none"}]
StoredInv == \A t \in Txs : TakesItsImages(t) /\ StoredOrGone(t)
FoundInv == FoundTyped /\ \A t \in Txs : found[t] = "none" => Gone(req[t].image)

\* An image that is deleted is on the list of the call.
LEMMA DeletedImage ==
  ASSUME TypeOK, TodoOK, NEW t \in Txs, DeleteStep(t), DeletedRow(t, Next1(t)),
         Next1(t).key[1] = "images"
  PROVE  req[t].call = "delete_images" /\ Next1(t).key[2] \in req[t].images
<1>1. PICK x \in Todo(t) : x = Next1(t)
  BY DEF DeleteStep
<1>2. IsAt(t, Kinds) /\ During(t, {"delete", "cascade"})
  BY DEF DeleteStep, IsAt, During, Kinds, Rowwise
<1>3. req[t].call = "delete_images"
  BY DEF DeletedRow, ItemTable, ChildTables
<1>4. /\ Current(t).does = "cascade" => x.key[1] \in ChildTables
      /\ Current(t).does # "cascade" => Current(t).does = "delete"
      /\ Current(t).does = "delete" => \E w \in Current(t).on : <<x.key[1], x.key[2]>> = Bound(t, w)
  BY <1>2 DEF During, TodoOK, TodoOf
<1>5. Current(t) \in DeleteStatements(req[t])
  BY <1>2, <1>3, OtherNow
<1>6. \/ Current(t) = Doing("delete", {<<"image_references", s>> : s \in req[t].images}, FALSE)
      \/ Current(t) = Doing("delete", {<<"images", s>> : s \in req[t].images}, FALSE)
      \/ Current(t).does = "cascade"
  BY <1>5 DEF DeleteStatements, Doing
<1>7. \A w : w[1] = "image_references" \/ w[1] = "images" => Bound(t, w) = w
  BY DEF Bound, ChildTables
<1>. QED
  BY <1>1, <1>3, <1>4, <1>6, <1>7 DEF Doing, ChildTables

\* Every step of a transaction keeps what is stored until it is deleted.
LEMMA StoredStep ==
  ASSUME IInv, StoredInv, NEW t \in Txs, Steps(t)
  PROVE  StoredInv' /\ \A s : Gone(s) => Gone(s)'
<1>1. TypeOK /\ TodoOK /\ LocksExclude /\ UpsertHolds
  BY DEF IInv, Engine, Upserts
<1>2. req' = req /\ tx[t].st = "open" /\ \A u \in Txs \ {t} : tx'[u] = tx[u]
  BY OpenStep
<1>3. ASSUME NEW s, Gone(s) PROVE Gone(s)'
  <2>1. PICK u \in Txs : /\ req[u].call = "delete_images" /\ tx[u].st = "committed"
                         /\ s \in req[u].images
    BY <1>3 DEF Gone
  <2>2. tx'[u] = tx[u]
    BY <1>2, <2>1
  <2>. QED
    BY <1>2, <2>1, <2>2 DEF Gone
<1>4. TakesItsImages(t)'
  <2>1. \/ tx'[t].del \subseteq tx[t].del
        \/ /\ DeleteStep(t) /\ DeletedRow(t, Next1(t))
           /\ tx'[t].del = tx[t].del \cup ({Next1(t)} \cap db)
    BY <1>1, Effects DEF CommitStep, Clears, Data
  <2>2. SUFFICES ASSUME NEW x \in tx'[t].del, x.key[1] = "images"
                 PROVE  req[t].call = "delete_images" /\ x.key[2] \in req[t].images
    BY <1>2 DEF TakesItsImages
  <2>3. CASE x \in tx[t].del
    BY <2>2, <2>3 DEF StoredInv, TakesItsImages
  <2>4. CASE x \notin tx[t].del
    <3>1. x = Next1(t) /\ DeleteStep(t) /\ DeletedRow(t, Next1(t))
      BY <2>1, <2>4
    <3>2. Next1(t).key[1] = "images"
      BY <2>2, <3>1
    <3>3. req[t].call = "delete_images" /\ Next1(t).key[2] \in req[t].images
      BY <1>1, <3>1, <3>2, DeletedImage
    <3>. QED
      BY <3>1, <3>3
  <2>. QED
    BY <2>3, <2>4
<1>5. \A u \in Txs : TakesItsImages(u)'
  BY <1>2, <1>4 DEF StoredInv, TakesItsImages
<1>6. ASSUME NEW u \in Txs, req[u].call = "upsert_image", tx'[u].st = "committed"
      PROVE  (\E x \in db' : x.key = ImageKey(req[u].image)) \/ Gone(req[u].image)'
  <2>1. CASE Gone(req[u].image)
    <3>1. PICK s : s = req[u].image
      OBVIOUS
    <3>2. Gone(s)'
      BY <1>3, <2>1, <3>1
    <3>3. req'[u].image = s
      BY <1>2, <3>1
    <3>. QED
      BY <3>2, <3>3 DEF Gone
  <2>2. CASE ~Gone(req[u].image)
    <3>1. CASE ~CommitStep(t)
      <4>1. db' = db /\ tx'[t].st # "committed"
        BY <1>1, <3>1, Effects, OpenStep DEF Goes, EndStep
      <4>. QED
        BY <1>2, <1>6, <2>2, <4>1 DEF StoredInv, StoredOrGone
    <3>2. CASE CommitStep(t)
      <4>1. db' = (db \ tx[t].del) \cup tx[t].ins /\ tx'[t].st = "committed" /\ AtEnd(t)
        BY <3>2 DEF CommitStep
      <4>2. PICK x \in db \cup tx[t].ins : x.key = ImageKey(req[u].image) /\ (u = t => x \notin tx[t].del)
        <5>1. CASE u = t
          <6>1. Upserting(t) /\ UpsertOf(t)
            BY <1>1, <1>2, <1>6, <5>1 DEF Upserting, Runs, UpsertHolds
          <6>2. tx[t].at > 1
            <7>1. PICK l, a \in Nat : l = Len(Programs[req[t]]) /\ l > 0 /\ a = tx[t].at
              BY <1>1, ProgramsOK, CurrentFacts DEF TypeOK
            <7>. QED
              BY <4>1, <7>1 DEF AtEnd
          <6>3. PICK x \in tx[t].ins \cup tx[t].upd : x.key = ImageKey(req[t].image)
            BY <6>1, <6>2 DEF UpsertOf
          <6>4. x \in db \cup tx[t].ins
            BY <1>1, <6>3 DEF LocksExclude, Locked
          <6>5. x \notin tx[t].del
            BY <1>6, <5>1, <6>3 DEF StoredInv, TakesItsImages, ImageKey
          <6>. QED
            BY <5>1, <6>3, <6>4, <6>5
        <5>2. CASE u # t
          <6>1. tx[u].st = "committed"
            BY <1>2, <1>6, <5>2
          <6>. QED
            BY <1>6, <2>2, <5>2, <6>1 DEF StoredInv, StoredOrGone
        <5>. QED
          BY <5>1, <5>2
      <4>3. CASE x \in tx[t].del
        <5>1. req[t].call = "delete_images" /\ req[u].image \in req[t].images
          BY <4>2, <4>3 DEF StoredInv, TakesItsImages, ImageKey
        <5>. QED
          BY <1>2, <4>1, <5>1 DEF Gone
      <4>4. CASE x \notin tx[t].del
        BY <4>1, <4>2, <4>4
      <4>. QED
        BY <4>3, <4>4
    <3>. QED
      BY <3>1, <3>2
  <2>. QED
    BY <2>1, <2>2
<1>7. \A u \in Txs : StoredOrGone(u)'
  BY <1>2, <1>6 DEF StoredOrGone
<1>. QED
  BY <1>3, <1>5, <1>7 DEF StoredInv

\* So does the read of an upsert, which finds its image unless it is gone.
LEMMA FoundStep ==
  ASSUME IInv, StoredInv, FoundInv, [Next]_vars
  PROVE  StoredInv' /\ FoundInv'
<1>1. UNCHANGED rows \/ \E t \in Txs : Steps(t)
  BY NextStep DEF IInv, Engine
<1>2. StoredInv' /\ (\A s : Gone(s) => Gone(s)') /\ req' = req
  <2>1. CASE UNCHANGED rows
    BY <2>1 DEF rows, StoredInv, TakesItsImages, StoredOrGone, Gone
  <2>2. CASE \E t \in Txs : Steps(t)
    BY <2>2, StoredStep, OpenStep
  <2>. QED
    BY <1>1, <2>1, <2>2
<1>3. found' = found \/ \E t \in Txs : ReadBack(t)
  BY DEF Next, Nothing, SelectRow, Scan, PutRow, EnsureRow, InsertRow, AppendRow, DeleteRow,
         UpdateRow, CheckParent, Commit, RollBack, Step, vars
<1>4. CASE found' = found
  BY <1>2, <1>4 DEF FoundInv, FoundTyped
<1>5. ASSUME NEW t \in Txs, ReadBack(t) PROVE FoundInv'
  <2>1. PICK v \in {"image", "none"} :
           /\ found' = [found EXCEPT ![t] = v]
           /\ v = "none" => ~\E x \in db : x.key = ImageKey(req[t].image)
    BY <1>5 DEF ReadBack
  <2>2. v = "none" => Gone(req[t].image)
    BY <1>5, <2>1 DEF ReadBack, StoredInv, StoredOrGone
  <2>. QED
    BY <1>2, <2>1, <2>2 DEF FoundInv, FoundTyped
<1>. QED
  BY <1>2, <1>3, <1>4, <1>5

\* Nothing is deleted, stored or read at the start.
LEMMA FoundInit == Init => StoredInv /\ FoundInv
<1>. SUFFICES ASSUME Init PROVE StoredInv /\ FoundInv
  OBVIOUS
<1>1. \A t \in Txs : tx[t].st = "open" /\ tx[t].del = {}
  BY InitFacts
<1>2. found = [t \in Txs |-> "unread"]
  BY DEF Init
<1>. QED
  BY <1>1, <1>2 DEF StoredInv, TakesItsImages, StoredOrGone, FoundInv, FoundTyped

\* What an upsert that committed has stored is there until a delete of its image
\* commits, and its read finds it until then.
LEMMA StoredHolds == Spec => [](IInv /\ StoredInv /\ FoundInv)
<1>1. Init => IInv /\ StoredInv /\ FoundInv
  BY EngineInit, WholesInit, FoundInit DEF IInv
<1>2. IInv /\ StoredInv /\ FoundInv /\ [Next]_vars => IInv' /\ StoredInv' /\ FoundInv'
  <2>. SUFFICES ASSUME IInv, StoredInv, FoundInv, [Next]_vars
                PROVE  IInv' /\ StoredInv' /\ FoundInv'
    OBVIOUS
  <2>1. UNCHANGED rows \/ \E t \in Txs : Steps(t)
    BY NextStep DEF IInv, Engine
  <2>. QED
    BY <2>1, WholesStep, WholesStutter, FoundStep
<1>. QED
  BY <1>1, <1>2, PTL DEF Spec

\* Every variable keeps its type.
THEOREM TypesAreKept == Spec => [](TypeOK /\ FoundTyped)
<1>1. IInv /\ FoundInv => TypeOK /\ FoundTyped
  BY DEF IInv, Engine, FoundInv
<1>. QED
  BY <1>1, StoredHolds, PTL

\* Upserts do not lock each other out, and nothing refuses one but a deadlock in every
\* attempt (repository.py, _run_in_tx) or, its rows stored, a delete of its image that
\* commits before it is read back (upsert_image).
THEOREM UpsertsAlwaysGoThrough == Spec => []UpsertsGoThrough
<1>1. IInv /\ FoundInv => UpsertsGoThrough
  BY NoCircleOfUpserts
  DEF IInv, Engine, Upserts, UpsertsFail, UpsertsGoThrough, RefusalsHaveACause, FoundInv, Gone
<1>. QED
  BY <1>1, StoredHolds, PTL

\* What the state invariants say of the rows that are stored.
LEMMA WholeCalls ==
  ASSUME IInv
  PROVE  RowsAreOfWholeCalls
<1>1. \A x \in db : x.by = Seed \/ x.by \in Txs
  BY RowFacts DEF IInv, Engine, TypeOK, Writer
<1>2. ASSUME NEW u \in Txs
      PROVE  /\ req[u].call = "upsert_image" =>
                   \A n : n \in Seqs!ToSet(req[u].refs) <=> \E j \in 1..Len(req[u].refs) : n = req[u].refs[j]
             /\ req[u].call \in {"update_note", "set_collection_images"} =>
                   \A n : n \in Seqs!ToSet(req[u].images) <=> \E j \in 1..Len(req[u].images) : n = req[u].images[j]
  <2>1. PICK r \in Requests : r = req[u]
    BY DEF IInv, Engine, TypeOK
  <2>2. r.call = "upsert_image" => r.refs \in Seq(References)
    BY <2>1, RequestFacts
  <2>3. r.call \in {"update_note", "set_collection_images"} => r.images \in Seq(Images)
    BY <2>1, ListProgram DEF ListIs
  <2>4. ASSUME NEW S, NEW s \in Seq(S), NEW n
        PROVE  n \in Seqs!ToSet(s) <=> \E j \in 1..Len(s) : n = s[j]
    <3>1. DOMAIN s = 1..Len(s)
      BY LenProperties
    <3>. QED
      BY <3>1 DEF Seqs!ToSet
  <2>. QED
    BY <2>1, <2>2, <2>3, <2>4
<1>3. OneDescription
  BY DEF IInv, Wholes, DescInv
<1>4. ReferencesOfOneUpsert
  <2>1. RefsStored
    BY DEF IInv, Wholes, RefsInv
  <2>2. SUFFICES ASSUME NEW x \in db, x.key[1] = "image_references", x.by # Seed
                 PROVE  {y \in db : y.key[1] = "image_references" /\ y.key[2] = x.key[2]}
                          = {Row(RefKey(x.key[2], n), x.by) : n \in Seqs!ToSet(req[x.by].refs)}
    BY DEF ReferencesOfOneUpsert
  <2>3. x.by \in Txs /\ req[x.by].call = "upsert_image" /\ x.key[2] = req[x.by].image
    BY <1>1, <2>1, <2>2 DEF RefsStored
  <2>4. \A n : n \in Seqs!ToSet(req[x.by].refs) <=> \E j \in 1..Len(req[x.by].refs) : n = req[x.by].refs[j]
    BY <1>2, <2>3
  <2>5. ASSUME NEW y \in db, y.key[1] = "image_references", y.key[2] = x.key[2]
        PROVE  \E n \in Seqs!ToSet(req[x.by].refs) : y = Row(RefKey(x.key[2], n), x.by)
    <3>1. y.by = x.by
      BY <2>1, <2>2, <2>5 DEF RefsStored
    <3>2. PICK j \in 1..Len(req[x.by].refs) : y.key[3] = req[x.by].refs[j]
      BY <2>1, <2>2, <2>5, <3>1 DEF RefsStored
    <3>3. y \in DbRow
      BY <2>5 DEF IInv, Engine, TypeOK
    <3>4. y = Row(y.key, y.by) /\ y.key \in Key
      BY <3>3, RowFacts
    <3>5. y.key = RefKey(x.key[2], y.key[3])
      BY <2>5, <3>4, KeyFacts
    <3>. QED
      BY <2>4, <3>1, <3>2, <3>4, <3>5
  <2>6. ASSUME NEW n \in Seqs!ToSet(req[x.by].refs)
        PROVE  LET y == Row(RefKey(x.key[2], n), x.by)
               IN  y \in db /\ y.key[1] = "image_references" /\ y.key[2] = x.key[2]
    <3>1. PICK j \in 1..Len(req[x.by].refs) : n = req[x.by].refs[j]
      BY <2>4, <2>6
    <3>2. ReferenceRow(x.by, j) \in db
      BY <2>1, <2>2 DEF RefsStored
    <3>. QED
      BY <2>3, <3>1, <3>2, RowFields DEF ReferenceRow, RefKey
  <2>. QED
    BY <2>5, <2>6
<1>5. NoteOfOneUpdate
  <2>1. NoteStored
    BY DEF IInv, Wholes, NoteInv
  <2>2. SUFFICES ASSUME NEW x \in db, x.key[1] = "note_image_refs"
                 PROVE  {y \in db : y.key[1] = "note_image_refs"}
                          = {Row(<<"note_image_refs", x.key[2], s>>, x.by) :
                                s \in Seqs!ToSet(req[x.by].images)}
    BY DEF NoteOfOneUpdate
  <2>3. x \in NoteRefs
    BY <2>2 DEF NoteRefs
  <2>4. x.by \in Txs /\ req[x.by].call = "update_note"
        /\ \A j \in 1..Len(req[x.by].images) : NoteRefRow(x.by, j) \in db
    BY <2>1, <2>3 DEF NoteStored
  <2>5. \A n : n \in Seqs!ToSet(req[x.by].images) <=> \E j \in 1..Len(req[x.by].images) : n = req[x.by].images[j]
    BY <1>2, <2>4
  <2>6. \A j : NoteRefRow(x.by, j) = Row(<<"note_image_refs", x.key[2], req[x.by].images[j]>>, x.by)
    <3>1. PICK i \in 1..Len(req[x.by].images) : x = NoteRefRow(x.by, i)
      BY <2>1, <2>3 DEF NoteStored
    <3>2. x.key = <<"note_image_refs", NoteRow, req[x.by].images[i]>>
      BY <3>1, RowFields DEF NoteRefRow
    <3>3. x.key[2] = NoteRow
      BY <3>2
    <3>. QED
      BY <3>3 DEF NoteRefRow
  <2>7. ASSUME NEW y \in db, y.key[1] = "note_image_refs"
        PROVE  \E s \in Seqs!ToSet(req[x.by].images) : y = Row(<<"note_image_refs", x.key[2], s>>, x.by)
    <3>1. y \in NoteRefs
      BY <2>7 DEF NoteRefs
    <3>2. y.by = x.by
      BY <2>1, <2>3, <3>1 DEF NoteStored
    <3>3. \E j \in 1..Len(req[x.by].images) : y = NoteRefRow(x.by, j)
      BY <2>1, <3>1, <3>2 DEF NoteStored
    <3>. QED
      BY <2>5, <2>6, <3>3
  <2>8. ASSUME NEW s \in Seqs!ToSet(req[x.by].images)
        PROVE  LET y == Row(<<"note_image_refs", x.key[2], s>>, x.by)
               IN  y \in db /\ y.key[1] = "note_image_refs"
    BY <2>4, <2>5, <2>6, RowFields
  <2>. QED
    BY <2>7, <2>8
<1>6. CollectionOfWholeLists
  <2>1. MembersStored
    BY DEF IInv, Wholes, MembersInv
  <2>2. SUFFICES ASSUME NEW x \in db, x.key[1] = "collection_images"
                 PROVE  {y \in db : y.key[1] = "collection_images" /\ y.by = x.by}
                          = {Row(<<"collection_images", x.key[2], s>>, x.by) :
                                s \in Seqs!ToSet(req[x.by].images)}
    BY DEF CollectionOfWholeLists
  <2>3. x.by \in Txs /\ req[x.by].call = "set_collection_images"
        /\ \A j \in 1..Len(req[x.by].images) : MemberRow(x.by, x.key[2], j) \in db
    BY <2>1, <2>2 DEF MembersStored
  <2>4. \A n : n \in Seqs!ToSet(req[x.by].images) <=> \E j \in 1..Len(req[x.by].images) : n = req[x.by].images[j]
    BY <1>2, <2>3
  <2>5. ASSUME NEW y \in db, y.key[1] = "collection_images", y.by = x.by
        PROVE  \E s \in Seqs!ToSet(req[x.by].images) : y = Row(<<"collection_images", x.key[2], s>>, x.by)
    <3>1. y.key[2] = x.key[2]
      BY <2>1, <2>2, <2>5 DEF MembersStored
    <3>2. \E j \in 1..Len(req[x.by].images) : y = MemberRow(x.by, x.key[2], j)
      BY <2>1, <2>5, <3>1 DEF MembersStored
    <3>. QED
      BY <2>4, <3>2 DEF MemberRow
  <2>6. ASSUME NEW s \in Seqs!ToSet(req[x.by].images)
        PROVE  LET y == Row(<<"collection_images", x.key[2], s>>, x.by)
               IN  y \in db /\ y.key[1] = "collection_images" /\ y.by = x.by
    BY <2>3, <2>4, RowFields DEF MemberRow
  <2>. QED
    BY <2>5, <2>6
<1>. QED
  BY <1>3, <1>4, <1>5, <1>6 DEF RowsAreOfWholeCalls

\* The rows that belong together come from one call, and are all of it: the description
\* of an image, its references, the images of the note and those of a collection.
THEOREM RowsStayWhole == Spec => []RowsAreOfWholeCalls
BY WholeCalls, IInvHolds, PTL

-----------------------------------------------------------------------------
(* The tags of an image, while no patch and no delete of images runs.      *)

Calm == \A u \in Txs : req[u].call \notin {"patch_image", "delete_images"}
Lasting == {"images", "tags", "image_tags"}

\* Nobody deletes an image, a tag or a link, and a link belongs to an image.
NoTagGoes(t) ==
    /\ \A x \in tx[t].del : x.key[1] \notin Lasting
    /\ \A x \in tx[t].ins : x.key[1] = "image_tags" => x.key[2].key[1] = "images"
LinksHaveImages == \A x \in db : x.key[1] = "image_tags" => x.key[2].key[1] = "images"

Has(t, k) == \E x \in db \cup tx[t].ins : x.key = k
LinkedIn(t, g) ==
    \E x \in db \cup tx[t].ins :
        x.key = ImageKey(req[t].image) /\ Has(t, <<"image_tags", x, g>>)

\* An upsert has each of its tags, or will insert it, before it looks for the tags to
\* link, and has each link, or will insert it, before it leaves that statement.
TagDone(t, g) ==
    /\ tx[t].at = 3 /\ tx[t].started => TagKey(g) \in Todo(t) \/ Has(t, TagKey(g))
    /\ tx[t].at > 3 => Has(t, TagKey(g))
    /\ tx[t].at = 4 /\ tx[t].started =>
          \/ <<"image_tags", tx[t].row, g>> \in Todo(t)
          \/ Has(t, <<"image_tags", tx[t].row, g>>)
    /\ tx[t].at > 4 => LinkedIn(t, g)
TagsOwn(t) ==
    req[t].call = "upsert_image" =>
        \A g \in Seqs!ToSet(req[t].tags) :
            /\ tx[t].st = "open" => TagDone(t, g)
            /\ tx[t].st = "committed" => LinkedIn(t, g)

TagsInv ==
    Calm => /\ \A t \in Txs : NoTagGoes(t) /\ TagsOwn(t)
            /\ \A t \in Txs : tx[t].st # "open" => tx[t].ins = {}
            /\ LinksHaveImages

\* A link that is inserted belongs to an image.
LEMMA LinkIsOfImage ==
  ASSUME TypeOK, TodoOK, WritersOK, LocksExclude, KeysUnique, UpsertHolds, Calm,
         NEW t \in Txs, InsertStep(t), Next1(t)[1] = "image_tags"
  PROVE  Next1(t)[2].key[1] = "images"
<1>1. /\ IsAt(t, Kinds) /\ IsAt(t, OnceEach \cup Keywise) /\ Pending(t) # <<>> /\ tx[t].st = "open"
      /\ Current(t).does \in OnceEach \cup Keywise
  BY DEF InsertStep, Passes, IsAt, Kinds
<1>2. CASE req[t].call = "upsert_image"
  <2>1. Upserting(t) /\ UpsertOf(t)
    BY <1>1, <1>2 DEF Upserting, Runs, UpsertHolds
  <2>2. Current(t).does \in {"put", "append", "ensure", "link"}
    BY <1>1, <2>1, UpsertNow DEF OnceEach, Keywise
  <2>3. Next1(t)[2] = tx[t].row /\ Selected(t)
    BY <1>1, <2>1, <2>2, UpsertNext DEF ImageKey, ChildTables
  <2>. QED
    BY <2>1, <2>3 DEF UpsertOf, ImageKey
<1>3. CASE req[t].call \in {"update_note", "set_collection_images"}
  <2>1. PICK l \in Nat : l = Len(req[t].images)
    BY <1>1, <1>3, ListNow
  <2>2. PICK a \in 1..(2 + 2 * l) : a = tx[t].at
    BY <1>1, <1>3, <2>1, ListNow
  <2>3. /\ a = 1 => Current(t) = FirstOf(req[t])
        /\ a = 2 => Current(t) = Doing("delete", {<<ItemTable(req[t]), This>>}, FALSE)
        /\ \A j \in 1..l :
              /\ a = 2 * j + 1 => Current(t) = Inserting(ItemKey(req[t], req[t].images[j]))
              /\ a = 2 * j + 2 => Current(t) = CheckingParent
    BY <1>1, <1>3, <2>1, <2>2, ListNow
  <2>4. a = 1 \/ a = 2 \/ \E j \in 1..l : a = 2 * j + 1 \/ a = 2 * j + 2
    <3>1. a = 1 \/ a = 2 \/ a > 2
      OBVIOUS
    <3>. QED
      BY <3>1, ListPositions
  <2>5. PICK j \in 1..l : Current(t) = Inserting(ItemKey(req[t], req[t].images[j]))
    <3>1. Current(t).does \notin {"update", "select", "delete", "fkey"}
      BY <1>1 DEF OnceEach, Keywise
    <3>2. Doing("delete", {<<ItemTable(req[t]), This>>}, FALSE).does = "delete"
      BY DEF Doing
    <3>. QED
      BY <2>3, <2>4, <3>1, <3>2, Shapes
  <2>6. Current(t).does = "insert" /\ Current(t).on = <<ItemKey(req[t], req[t].images[j])>>
    BY <2>5, Shapes
  <2>7. PICK k \in WrittenKey : Current(t).on = <<k>> /\ Next1(t) = Bound(t, k)
    BY <1>1, <2>6, PendingFacts DEF OnceEach, Next1
  <2>8. k = ItemKey(req[t], req[t].images[j])
    <3>1. Current(t).on[1] = k
      BY <2>7
    <3>. QED
      BY <2>6, <3>1
  <2>9. k[1] = ItemTable(req[t]) /\ k[1] \in ChildTables
    BY <2>8 DEF ItemKey, ItemTable, NoteRefKey, MemberKey, ChildTables
  <2>10. Next1(t)[1] = k[1]
    BY <2>7, <2>9, BoundFacts
  <2>. QED
    BY <2>9, <2>10 DEF ItemTable
<1>4. CASE req[t].call \notin {"upsert_image", "update_note", "set_collection_images"}
  <2>1. Current(t) \in CollectionStatements
    BY <1>1, <1>4, OtherNow DEF Calm
  <2>. QED
    BY <1>1, <2>1 DEF CollectionStatements, Deleting, Doing, OnceEach, Keywise
<1>. QED
  BY <1>2, <1>3, <1>4

\* While the calls are calm nobody deletes an image, a tag or a link.
LEMMA NoTagGoesStep ==
  ASSUME TypeOK, TodoOK, WritersOK, LocksExclude, KeysUnique, UpsertHolds, Calm,
         NEW t \in Txs, NoTagGoes(t), LinksHaveImages, Steps(t)
  PROVE  /\ NoTagGoes(t)' /\ LinksHaveImages'
         /\ DeleteStep(t) /\ Next1(t) \in db \cup tx[t].ins => Next1(t).key[1] \notin Lasting
<1>1. req' = req /\ tx[t].st = "open" /\ \A k : Row(k, t).key = k
  BY OpenStep, RowFields
<1>2. ASSUME DeleteStep(t), Next1(t) \in db \cup tx[t].ins PROVE Next1(t).key[1] \notin Lasting
  <2>1. /\ During(t, {"delete", "cascade"}) /\ tx[t].st = "open" /\ ~AtEnd(t)
        /\ Next1(t) \in Todo(t)
    BY <1>2 DEF DeleteStep, IsAt, During
  <2>2. DeletedRow(t, Next1(t))
    BY <2>1, Deletes
  <2>3. PICK x : x = Next1(t)
    OBVIOUS
  <2>4. \/ x.key[1] \in {"image_references", "image_descriptions", "note_image_refs",
                         "collection_images", "collections"}
        \/ x.key[1] \in ChildTables /\ x.key[2] \in tx[t].del
    BY <2>2, <2>3 DEF DeletedRow, Calm, ItemTable
  <2>5. CASE x.key[1] \in ChildTables /\ x.key[2] \in tx[t].del
    <3>1. x.key[2].key[1] # "images"
      BY <2>5 DEF NoTagGoes, Lasting
    <3>2. x.key[1] # "image_tags"
      BY <1>2, <2>3, <3>1 DEF NoTagGoes, LinksHaveImages
    <3>. QED
      BY <2>3, <2>5, <3>2 DEF Lasting, ChildTables
  <2>. QED
    BY <2>3, <2>4, <2>5 DEF Lasting
<1>3. CASE CommitStep(t)
  <2>1. tx'[t].ins = {} /\ tx'[t].del = {} /\ db' = (db \ tx[t].del) \cup tx[t].ins
    BY <1>3 DEF CommitStep, Clears, Data
  <2>2. ~DeleteStep(t)
    BY <1>3 DEF CommitStep, DeleteStep, IsAt
  <2>. QED
    BY <2>1, <2>2 DEF NoTagGoes, LinksHaveImages
<1>4. CASE ~CommitStep(t) /\ db' = db /\ tx'[t].ins \subseteq tx[t].ins
           /\ \/ tx'[t].del \subseteq tx[t].del
              \/ DeleteStep(t) /\ tx'[t].del = tx[t].del \cup ({Next1(t)} \cap db)
  BY <1>2, <1>4 DEF NoTagGoes, LinksHaveImages
<1>5. CASE db' = db /\ InsertStep(t) /\ tx'[t].del = tx[t].del
           /\ tx'[t].ins = tx[t].ins \cup {Row(Next1(t), t)}
  <2>1. Next1(t)[1] = "image_tags" => Next1(t)[2].key[1] = "images"
    BY <1>5, LinkIsOfImage
  <2>2. PICK x : x = Row(Next1(t), t)
    OBVIOUS
  <2>3. x.key = Next1(t)
    BY <1>1, <2>2
  <2>4. ~DeleteStep(t)
    BY <1>5 DEF InsertStep, DeleteStep, IsAt, OnceEach, Keywise
  <2>. QED
    BY <1>5, <2>1, <2>2, <2>3, <2>4 DEF NoTagGoes, LinksHaveImages
<1>. QED
  BY <1>2, <1>3, <1>4, <1>5, Effects

\* So the images, tags and links a transaction has stay, until it starts again.
LEMMA LastingStay ==
  ASSUME TypeOK, TodoOK, WritersOK, LocksExclude, KeysUnique, UpsertHolds, Calm,
         NEW t \in Txs, NoTagGoes(t), LinksHaveImages, Steps(t),
         NEW u \in Txs, u # t \/ ~EndStep(t),
         NEW x \in db \cup tx[u].ins, x.key[1] \in Lasting
  PROVE  x \in db' \cup tx'[u].ins
<1>1. \A v \in Txs \ {t} : tx'[v] = tx[v]
  BY OpenStep
<1>2. x \in db => x \in db'
  BY OnlyCommits DEF NoTagGoes
<1>3. CASE u # t
  BY <1>1, <1>2, <1>3
<1>4. CASE u = t /\ ~EndStep(t)
  <2>1. CASE CommitStep(t)
    BY <1>2, <1>4, <2>1 DEF CommitStep
  <2>2. CASE DeleteStep(t)
    <3>1. x # Next1(t)
      BY <1>4, <2>2, NoTagGoesStep
    <3>2. tx'[t].ins = tx[t].ins \ {Next1(t)}
      BY <2>2 DEF DeleteStep, Data
    <3>. QED
      BY <1>2, <1>4, <3>1, <3>2
  <2>3. CASE ~CommitStep(t) /\ ~DeleteStep(t)
    <3>1. tx[t].ins \subseteq tx'[t].ins
      BY <1>4, <2>3, Effects
    <3>. QED
      BY <1>2, <1>4, <3>1
  <2>. QED
    BY <2>1, <2>2, <2>3
<1>. QED
  BY <1>3, <1>4

\* The same of a key, and of a link with its image.
LEMMA HasStays ==
  ASSUME TypeOK, TodoOK, WritersOK, LocksExclude, KeysUnique, UpsertHolds, Calm,
         NEW t \in Txs, NoTagGoes(t), LinksHaveImages, Steps(t),
         NEW u \in Txs, u # t \/ ~EndStep(t)
  PROVE  /\ \A k : k[1] \in Lasting /\ Has(u, k) => Has(u, k)'
         /\ \A g : LinkedIn(u, g) => LinkedIn(u, g)'
<1>1. \A x \in db \cup tx[u].ins : x.key[1] \in Lasting => x \in db' \cup tx'[u].ins
  BY LastingStay
<1>2. ASSUME NEW k, k[1] \in Lasting, Has(u, k) PROVE Has(u, k)'
  BY <1>1, <1>2 DEF Has
<1>3. ASSUME NEW g, LinkedIn(u, g) PROVE LinkedIn(u, g)'
  <2>1. PICK x \in db \cup tx[u].ins :
           x.key = ImageKey(req[u].image) /\ Has(u, <<"image_tags", x, g>>)
    BY <1>3 DEF LinkedIn
  <2>2. x \in db' \cup tx'[u].ins
    BY <1>1, <2>1 DEF ImageKey, Lasting
  <2>3. Has(u, <<"image_tags", x, g>>)'
    <3>1. <<"image_tags", x, g>>[1] \in Lasting
      BY DEF Lasting
    <3>. QED
      BY <1>2, <2>1, <3>1
  <2>4. req' = req
    BY OpenStep
  <2>. QED
    BY <2>1, <2>2, <2>3, <2>4 DEF LinkedIn
<1>. QED
  BY <1>2, <1>3

\* The statements of an upsert that insert and link the tags.
LEMMA TagsNow ==
  ASSUME TypeOK, NEW t \in Txs, req[t].call = "upsert_image", req[t].tags # <<>>
  PROVE  /\ AtEnd(t) => tx[t].at > 4
         /\ tx[t].at = 3 =>
               /\ ~AtEnd(t) /\ Current(t).does = "ensure"
               /\ \A g \in Seqs!ToSet(req[t].tags) :
                     \E i \in DOMAIN Current(t).on : Current(t).on[i] = TagKey(g)
         /\ tx[t].at = 4 =>
               /\ ~AtEnd(t) /\ Current(t).does = "link"
               /\ Current(t).on = Seqs!ToSet(req[t].tags) /\ Selected(t)
<1>1. PICK r \in Requests : r = req[t]
  BY DEF TypeOK
<1>2. PICK P : P = Programs[r]
  OBVIOUS
<1>3. P[2] = Selecting(ImageKey(r.image)) /\ P[3] = Ensuring(r.tags) /\ P[4] = Linking(r.tags)
  BY <1>1, <1>2, UpsertProgram DEF TagsPart
<1>4. PICK l \in Nat : l = Len(P) /\ l >= 5
  <2>1. Len(P) = UpsertLen(r) /\ UpsertLen(r) \in Nat
    BY <1>1, <1>2, UpsertProgram, UpsertAts
  <2>2. PICK a, b, c \in Nat : a = ParamsAt(r) /\ b = RefsAt(r) /\ c = DescAt(r)
    BY <1>1, UpsertAts
  <2>3. a = 5 /\ b >= a /\ c >= b
    BY <1>1, <2>2, UpsertAts
  <2>4. UpsertLen(r) >= c
    BY <1>1, <2>2, UpsertAts
  <2>. QED
    BY <2>1, <2>3, <2>4
<1>5. PICK n \in Nat : n = tx[t].at
  BY CurrentFacts
<1>6. (AtEnd(t) <=> n > l) /\ Current(t) = P[n]
  BY <1>1, <1>2, <1>4, <1>5 DEF AtEnd, Current
<1>7. r.tags \in Seq(Nat)
  BY <1>1, RequestFacts
<1>8. ASSUME NEW g \in Seqs!ToSet(r.tags) PROVE \E i \in DOMAIN Sorted(r.tags) : Sorted(r.tags)[i] = g
  <2>1. g \in Seqs!ToSet(Sorted(r.tags))
    BY <1>7, SortedTags
  <2>. QED
    BY <2>1 DEF Seqs!ToSet
<1>9. /\ Ensuring(r.tags).does = "ensure"
      /\ \A g \in Seqs!ToSet(r.tags) :
            \E i \in DOMAIN Ensuring(r.tags).on : Ensuring(r.tags).on[i] = TagKey(g)
  BY <1>8 DEF Ensuring, Doing
<1>10. Linking(r.tags).does = "link" /\ Linking(r.tags).on = Seqs!ToSet(r.tags)
  BY DEF Linking, Doing
<1>11. n = 4 => Selected(t)
  BY <1>1, <1>2, <1>3, <1>5, Shapes DEF Selected
<1>. QED
  BY <1>1, <1>3, <1>4, <1>5, <1>6, <1>9, <1>10, <1>11

\* A key on the list of an insert is handled, or it is still on the list.
LEMMA Handled ==
  ASSUME TypeOK, TodoOK, WritersOK, LocksExclude, KeysUnique, UpsertHolds, Calm,
         NEW t \in Txs, NoTagGoes(t), LinksHaveImages, Steps(t), ~EndStep(t),
         IsAt(t, Keywise), InsertStep(t) \/ PresentStep(t),
         NEW k, k[1] \in Lasting, k \in Seqs!ToSet(Pending(t)) \/ Has(t, k)
  PROVE  \/ /\ tx'[t].at = tx[t].at /\ tx'[t].started = TRUE
            /\ k \in Todo(t)' \/ Has(t, k)'
         \/ MovesTo(t, tx[t].at + 1) /\ Has(t, k)'
<1>1. /\ IsAt(t, Kinds) /\ Passes(t) /\ Pending(t) # <<>>
      /\ Current(t).does \in Keywise \cup Rowwise
  BY DEF IsAt, Kinds, Keywise, InsertStep, PresentStep, Passes
<1>. PICK h : h = Next1(t)
  OBVIOUS
<1>2. Has(t, k) => Has(t, k)'
  BY HasStays
<1>3. Has(t, h)'
  <2>1. CASE InsertStep(t)
    <3>1. PICK x : x = Row(Next1(t), t)
      OBVIOUS
    <3>2. x.key = h /\ x \in tx'[t].ins
      BY <2>1, <3>1, RowFields DEF InsertStep, Data
    <3>. QED
      BY <3>2 DEF Has
  <2>2. CASE PresentStep(t)
    <3>1. PICK x \in Visible(t) : x.key = h
      BY <2>2 DEF PresentStep, Named
    <3>2. db' = db /\ tx'[t].ins = tx[t].ins
      BY <2>2 DEF PresentStep, Goes, SameData, Data
    <3>. QED
      BY <3>1, <3>2 DEF Visible, Has
  <2>. QED
    BY <2>1, <2>2
<1>4. CASE Len(Pending(t)) = 1
  <2>1. Pending(t) \in Seq(DbRow \cup Key)
    BY <1>1, PendingFacts
  <2>2. Seqs!ToSet(Pending(t)) = {h}
    BY <1>1, <1>4, <2>1, TailFacts DEF Next1
  <2>3. Has(t, k)'
    BY <1>2, <1>3, <2>2
  <2>. QED
    BY <1>1, <1>4, <2>3 DEF Passes
<1>5. CASE Len(Pending(t)) # 1
  <2>1. /\ tx'[t].at = tx[t].at /\ tx'[t].started = TRUE
        /\ Seqs!ToSet(Pending(t)) = {h} \cup Seqs!ToSet(tx'[t].todo)
    BY <1>1, <1>5, ListGetsShorter
  <2>2. k \in Todo(t)' \/ Has(t, k)'
    BY <1>2, <1>3, <2>1 DEF Todo
  <2>. QED
    BY <2>1, <2>2
<1>. QED
  BY <1>4, <1>5

\* A statement of an upsert that inserts tags or links does one of these.
LEMMA TagsMove ==
  ASSUME TypeOK, TodoOK, NEW t \in Txs, Steps(t), ~EndStep(t),
         tx'[t].st = "open", IsAt(t, Keywise)
  PROVE  \/ InsertStep(t) \/ PresentStep(t)
         \/ Current(t).does = "link" /\ (ScanStep(t) \/ (MissStep(t) /\ ~tx[t].started /\ Matches(t) = {}))
BY DEF Steps, MissStep, SelectStep, ScanStep, TakeStep, UpdateStep, DeleteStep, ParentStep,
       CommitStep, IsAt, Rowwise, Keywise

\* An upsert's own steps handle each of its tags.
LEMMA TagDoneStep ==
  ASSUME TypeOK, TodoOK, WritersOK, LocksExclude, KeysUnique, UpsertHolds, Calm,
         NEW t \in Txs, NoTagGoes(t), LinksHaveImages, Steps(t), ~EndStep(t),
         Upserting(t), tx'[t].st = "open",
         NEW g \in Seqs!ToSet(req[t].tags), TagDone(t, g)
  PROVE  TagDone(t, g)'
<1>. PICK k : k = TagKey(g)
  OBVIOUS
<1>. PICK p \in Parent : p = tx[t].row
  BY BoundFacts
<1>. PICK l : l = <<"image_tags", p, g>>
  OBVIOUS
<1>1. /\ req' = req /\ req[t] \in Requests /\ req[t].call = "upsert_image" /\ UpsertOf(t)
      /\ req[t].tags # <<>> /\ g \in Nat
  <2>1. req' = req /\ req[t] \in Requests /\ req[t].call = "upsert_image" /\ UpsertOf(t)
    BY OpenStep DEF Upserting, Runs, UpsertHolds, TypeOK
  <2>2. req[t].tags \in Seq(Nat)
    BY <2>1, RequestFacts
  <2>3. PICK i \in DOMAIN req[t].tags : req[t].tags[i] = g
    BY DEF Seqs!ToSet
  <2>4. req[t].tags # <<>>
    BY <2>2, <2>3
  <2>. QED
    BY <2>1, <2>2, <2>3, <2>4, ElementOfSeq
<1>2. PICK a \in Nat \ {0} : a = tx[t].at
  BY CurrentFacts
<1>3. k[1] \in Lasting /\ l[1] \in Lasting
  BY DEF TagKey, Lasting
<1>4. /\ Has(t, k) => Has(t, k)'
      /\ Has(t, l) => Has(t, l)'
      /\ LinkedIn(t, g) => LinkedIn(t, g)'
  BY <1>3, HasStays
<1>5. /\ a = 3 /\ tx[t].started => k \in Todo(t) \/ Has(t, k)
      /\ a > 3 => Has(t, k)
      /\ a = 4 /\ tx[t].started => l \in Todo(t) \/ Has(t, l)
      /\ a > 4 => LinkedIn(t, g)
  BY <1>2 DEF TagDone
<1>6. IsAt(t, Kinds) /\ (MovesTo(t, a + 1) \/ (tx'[t].at = a /\ tx'[t].started = TRUE))
  <2>1. /\ IsAt(t, Kinds)
        /\ tx'[t].at = a + 1 \/ (tx'[t].at = a /\ tx'[t].started = TRUE)
    BY <1>1, <1>2, UpsertMoves
  <2>2. \/ MovesTo(t, a + 1)
        \/ tx'[t].at = a /\ tx'[t].started = TRUE
        \/ MovesTo(t, Len(Programs[req[t]]) + 1)
    BY <1>2, Moving
  <2>. QED
    BY <2>1, <2>2 DEF MovesTo
<1>7. SUFFICES /\ tx'[t].at = 3 /\ tx'[t].started => k \in Todo(t)' \/ Has(t, k)'
               /\ tx'[t].at > 3 => Has(t, k)'
               /\ tx'[t].at = 4 /\ tx'[t].started =>
                     tx'[t].row = p /\ (l \in Todo(t)' \/ Has(t, l)')
               /\ tx'[t].at > 4 => LinkedIn(t, g)'
  BY DEF TagDone
<1>8. CASE a = 3
  <2>1. /\ ~AtEnd(t) /\ Current(t).does = "ensure"
        /\ \A h \in Seqs!ToSet(req[t].tags) :
              \E i \in DOMAIN Current(t).on : Current(t).on[i] = TagKey(h)
    BY <1>1, <1>2, <1>8, TagsNow
  <2>2. IsAt(t, Keywise)
    BY <1>6, <2>1 DEF IsAt, Keywise
  <2>3. InsertStep(t) \/ PresentStep(t)
    BY <2>1, <2>2, TagsMove
  <2>4. Pending(t) # <<>>
    BY <2>3 DEF InsertStep, PresentStep, Passes
  <2>5. k \in Seqs!ToSet(Pending(t)) \/ Has(t, k)
    <3>1. CASE tx[t].started
      BY <1>5, <1>8, <3>1 DEF Pending, Todo
    <3>2. CASE ~tx[t].started
      <4>1. Pending(t) = Current(t).on
        BY <1>6, <2>1, <2>4, <3>2, PendingFacts
      <4>2. \E i \in DOMAIN Pending(t) : Pending(t)[i] = k
        BY <2>1, <4>1
      <4>. QED
        BY <4>2 DEF Seqs!ToSet
    <3>. QED
      BY <3>1, <3>2
  <2>6. \/ /\ tx'[t].at = tx[t].at /\ tx'[t].started = TRUE
           /\ k \in Todo(t)' \/ Has(t, k)'
        \/ MovesTo(t, tx[t].at + 1) /\ Has(t, k)'
    BY <1>3, <2>2, <2>3, <2>5, Handled
  <2>. QED
    BY <1>2, <1>8, <2>6 DEF MovesTo
<1>9. CASE a = 4
  <2>1. /\ ~AtEnd(t) /\ Current(t).does = "link" /\ Selected(t)
        /\ Current(t).on = Seqs!ToSet(req[t].tags)
    BY <1>1, <1>2, <1>9, TagsNow
  <2>2. IsAt(t, Keywise) /\ IsAt(t, Rowwise \cup {"select", "link"})
    BY <1>6, <2>1 DEF IsAt, Keywise
  <2>3. Has(t, k)
    BY <1>5, <1>9
  <2>4. l = Bound(t, LinkKey(g))
    BY <1>1 DEF Bound, LinkKey, ChildTables
  <2>5. ~tx[t].started => l \in Matches(t)
    <3>1. Named(t, k) # {}
      BY <1>3, <2>3 DEF Has, Named, Visible, NoTagGoes
    <3>2. \A h \in Current(t).on : Named(t, TagKey(h)) # {} => Bound(t, LinkKey(h)) \in Matches(t)
      BY <2>1, <2>2, MatchesFacts
    <3>. QED
      BY <2>1, <2>4, <3>1, <3>2
  <2>6. CASE ScanStep(t)
    <3>1. /\ tx'[t].at = tx[t].at /\ tx'[t].row = p /\ ~tx[t].started
          /\ Seqs!ToSet(tx'[t].todo) = Matches(t)
      BY <2>6 DEF ScanStep, SameRow
    <3>2. l \in Todo(t)'
      BY <2>5, <3>1 DEF Todo
    <3>3. tx'[t].at = 4
      BY <1>2, <1>9, <3>1
    <3>. QED
      BY <1>4, <2>3, <3>1, <3>2, <3>3
  <2>7. CASE InsertStep(t) \/ PresentStep(t)
    <3>1. tx'[t].row = p /\ Pending(t) # <<>>
      BY <2>7 DEF InsertStep, PresentStep, SameRow, Passes
    <3>2. l \in Seqs!ToSet(Pending(t)) \/ Has(t, l)
      <4>1. tx[t].started /\ Pending(t) = tx[t].todo
        BY <1>6, <2>1, <3>1, PendingFacts
      <4>. QED
        BY <1>5, <1>9, <4>1 DEF Todo
    <3>3. \/ /\ tx'[t].at = tx[t].at /\ tx'[t].started = TRUE
             /\ l \in Todo(t)' \/ Has(t, l)'
          \/ MovesTo(t, tx[t].at + 1) /\ Has(t, l)'
      BY <1>3, <2>2, <2>7, <3>2, Handled
    <3>4. Has(t, l)' => LinkedIn(t, g)'
      <4>1. p.key = ImageKey(req[t].image) /\ p \in tx[t].ins \cup tx[t].upd
        BY <1>1, <2>1 DEF UpsertOf
      <4>2. p \in db \cup tx[t].ins
        BY <4>1 DEF LocksExclude, Locked
      <4>3. p.key[1] \in Lasting
        BY <4>1 DEF ImageKey, Lasting
      <4>4. p \in db' \cup tx'[t].ins
        BY <4>2, <4>3, LastingStay
      <4>. QED
        BY <1>1, <4>1, <4>4 DEF LinkedIn
    <3>. QED
      BY <1>2, <1>4, <1>9, <2>3, <3>1, <3>3, <3>4 DEF MovesTo
  <2>. QED
    BY <2>2, <2>5, <2>6, <2>7, TagsMove
<1>10. CASE a > 4
  <2>1. tx'[t].at = a \/ tx'[t].at = a + 1
    BY <1>6 DEF MovesTo
  <2>. QED
    BY <1>4, <1>5, <1>10, <2>1
<1>11. CASE a < 3
  BY <1>6, <1>11 DEF MovesTo
<1>. QED
  BY <1>8, <1>9, <1>10, <1>11

\* Every step keeps what is known of the tags.
LEMMA TagsStep ==
  ASSUME IInv, TagsInv, NEW t \in Txs, Steps(t)
  PROVE  TagsInv'
<1>1. TypeOK /\ TodoOK /\ WritersOK /\ LocksExclude /\ KeysUnique /\ UpsertHolds
  BY DEF IInv, Engine, Upserts
<1>2. req' = req /\ tx[t].st = "open" /\ \A u \in Txs \ {t} : tx'[u] = tx[u]
  BY OpenStep
<1>3. SUFFICES ASSUME Calm
               PROVE  /\ \A u \in Txs : NoTagGoes(u)' /\ TagsOwn(u)'
                      /\ \A u \in Txs : tx'[u].st # "open" => tx'[u].ins = {}
                      /\ LinksHaveImages'
  BY <1>2 DEF TagsInv, Calm
<1>4. /\ \A u \in Txs : NoTagGoes(u) /\ TagsOwn(u)
      /\ \A u \in Txs : tx[u].st # "open" => tx[u].ins = {}
      /\ LinksHaveImages
  BY <1>3 DEF TagsInv
<1>5. NoTagGoes(t)' /\ LinksHaveImages'
  BY <1>1, <1>3, <1>4, NoTagGoesStep
<1>6. \A u \in Txs \ {t} : NoTagGoes(u)'
  BY <1>2, <1>4 DEF NoTagGoes
<1>7. \A u \in Txs : tx'[u].st # "open" => tx'[u].ins = {}
  <2>1. tx'[t].st # "open" => tx'[t].ins = {}
    BY Effects, <1>1 DEF CommitStep, Clears, Data, Goes
  <2>. QED
    BY <1>2, <1>4, <2>1
<1>8. ASSUME NEW u \in Txs \ {t} PROVE TagsOwn(u)'
  <2>1. tx'[u] = tx[u] /\ Todo(u)' = Todo(u) /\ TagsOwn(u)
    BY <1>2, <1>4, OthersStay
  <2>2. /\ \A k : k[1] \in Lasting /\ Has(u, k) => Has(u, k)'
        /\ \A g : LinkedIn(u, g) => LinkedIn(u, g)'
    BY <1>1, <1>3, <1>4, HasStays
  <2>3. \A g : /\ TagKey(g)[1] \in Lasting
               /\ <<"image_tags", tx[u].row, g>>[1] \in Lasting
    BY DEF TagKey, Lasting
  <2>4. ASSUME NEW g, TagDone(u, g) PROVE TagDone(u, g)'
    <3>1. /\ Has(u, TagKey(g)) => Has(u, TagKey(g))'
          /\ \A r : r = tx[u].row => (Has(u, <<"image_tags", r, g>>) => Has(u, <<"image_tags", r, g>>)')
      BY <2>2, <2>3
    <3>. QED
      BY <2>1, <2>2, <2>4, <3>1 DEF TagDone
  <2>. QED
    BY <1>2, <2>1, <2>2, <2>4 DEF TagsOwn
<1>9. TagsOwn(t)'
  <2>1. SUFFICES ASSUME req[t].call = "upsert_image", NEW g \in Seqs!ToSet(req[t].tags)
                 PROVE  /\ tx'[t].st = "open" => TagDone(t, g)'
                        /\ tx'[t].st = "committed" => LinkedIn(t, g)'
    BY <1>2 DEF TagsOwn
  <2>2. TagDone(t, g) /\ Upserting(t)
    BY <1>2, <1>4, <2>1 DEF TagsOwn, Upserting, Runs
  <2>3. ASSUME tx'[t].st = "open" PROVE TagDone(t, g)'
    <3>1. CASE EndStep(t)
      BY <3>1 DEF EndStep, Clears, MovesTo, TagDone
    <3>2. CASE ~EndStep(t)
      BY <1>1, <1>3, <1>4, <2>1, <2>2, <2>3, <3>2, TagDoneStep
    <3>. QED
      BY <3>1, <3>2
  <2>4. ASSUME tx'[t].st = "committed" PROVE LinkedIn(t, g)'
    <3>1. CommitStep(t) /\ ~EndStep(t)
      BY <1>1, <2>4, Effects DEF Goes, EndStep
    <3>2. PICK i \in DOMAIN req[t].tags : req[t].tags[i] = g
      BY <2>1 DEF Seqs!ToSet
    <3>3. req[t].tags # <<>>
      BY <3>2
    <3>4. tx[t].at > 4
      BY <1>1, <2>1, <3>1, <3>3, TagsNow DEF CommitStep
    <3>5. LinkedIn(t, g)
      BY <2>2, <3>4 DEF TagDone
    <3>. QED
      BY <1>1, <1>3, <1>4, <3>1, <3>5, HasStays
  <2>. QED
    BY <2>3, <2>4
<1>. QED
  BY <1>5, <1>6, <1>7, <1>8, <1>9

\* At the start no tag is asked for yet, and the links there are are of images.
LEMMA TagsInit == Init => TagsInv
<1>. SUFFICES ASSUME Init PROVE TagsInv
  OBVIOUS
<1>1. /\ \A x \in db : InitialRow(x)
      /\ \A t \in Txs : /\ tx[t].st = "open" /\ tx[t].at = 1 /\ tx[t].started = FALSE
                        /\ tx[t].ins = {} /\ tx[t].del = {}
  BY InitFacts
<1>2. ASSUME NEW x \in db, x.key[1] = "image_tags" PROVE x.key[2].key[1] = "images"
  <2>1. \A k : Row(k, Seed).key = k
    BY RowFields
  <2>2. x # Row(NoteKey, Seed) /\ x # Row(CollectionKey, Seed)
    BY <1>2, <2>1 DEF NoteKey, CollectionKey
  <2>3. PICK r \in Seeds : StoredRow(r, x)
    BY <1>1, <2>2 DEF InitialRow
  <2>4. \A s, n : /\ x # Row(ImageKey(s), Seed) /\ x # Row(TagKey(s), Seed)
                  /\ x # Row(RefKey(s, n), Seed)
                  /\ x # Row(<<"generation_params", s, n>>, Seed)
                  /\ x # Row(<<"image_descriptions", s, n>>, Seed)
    BY <1>2, <2>1 DEF ImageKey, TagKey, RefKey
  <2>5. PICK g : x = Row(<<"image_tags", Row(ImageKey(r.image), Seed), g>>, Seed)
    BY <2>3, <2>4 DEF StoredRow
  <2>6. x.key[2] = Row(ImageKey(r.image), Seed)
    BY <2>1, <2>5
  <2>. QED
    BY <2>1, <2>6 DEF ImageKey
<1>3. \A t \in Txs : NoTagGoes(t) /\ TagsOwn(t)
  BY <1>1 DEF NoTagGoes, TagsOwn, TagDone
<1>. QED
  BY <1>1, <1>2, <1>3 DEF TagsInv, LinksHaveImages

\* A step that changes nothing keeps it.
LEMMA TagsStutter ==
  ASSUME TagsInv, UNCHANGED rows
  PROVE  TagsInv'
<1>1. db' = db /\ req' = req /\ tx' = tx
  BY DEF rows
<1>2. \A t \in Txs : Todo(t)' = Todo(t)
  BY <1>1 DEF Todo
<1>3. \A t \in Txs : \A g :
         /\ Has(t, TagKey(g))' = Has(t, TagKey(g))
         /\ TagDone(t, g)' = TagDone(t, g) /\ LinkedIn(t, g)' = LinkedIn(t, g)
  BY <1>1, <1>2 DEF Has, TagDone, LinkedIn
<1>. QED
  BY <1>1, <1>3 DEF TagsInv, Calm, NoTagGoes, TagsOwn, LinksHaveImages

\* While no patch and no delete of images runs, an upsert that was answered has linked
\* all its tags, those included that other upserts were inserting at the same time
\* (repository.py, _set_tags).
THEOREM TagsStayLinked == Spec => []TagsLinked
<1>1. Init => IInv /\ TagsInv
  BY EngineInit, WholesInit, TagsInit DEF IInv
<1>2. IInv /\ TagsInv /\ [Next]_vars => IInv' /\ TagsInv'
  <2>. SUFFICES ASSUME IInv, TagsInv, [Next]_vars PROVE IInv' /\ TagsInv'
    OBVIOUS
  <2>1. UNCHANGED rows \/ \E t \in Txs : Steps(t)
    BY NextStep DEF IInv, Engine
  <2>. QED
    BY <2>1, WholesStep, WholesStutter, TagsStep, TagsStutter
<1>3. TagsInv => TagsLinked
  <2>. SUFFICES ASSUME TagsInv, NEW t \in Txs, req[t].call = "upsert_image", tx[t].st = "committed",
                       Calm, NEW g \in Seqs!ToSet(req[t].tags)
                PROVE  \E x, y \in db : x.key = ImageKey(req[t].image) /\ y.key = <<"image_tags", x, g>>
    BY DEF TagsLinked, Calm
  <2>1. LinkedIn(t, g) /\ tx[t].ins = {}
    BY DEF TagsInv, TagsOwn
  <2>. QED
    BY <2>1 DEF LinkedIn, Has
<1>. QED
  BY <1>1, <1>2, <1>3, PTL DEF Spec
=============================================================================
