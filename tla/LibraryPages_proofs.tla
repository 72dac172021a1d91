------------------------- MODULE LibraryPages_proofs -------------------------
(***************************************************************************)
(* Proofs about the parts of the library page and about the notes of the   *)
(* detail page, of which MCLibraryPages is the sum: what the export, the   *)
(* viewer, the bulk edits, the tag box, the grid and the notes keep, for   *)
(* any lists, pictures, texts, folders, lanes and bounds, and with it the  *)
(* properties that the runs check.                                         *)
(***************************************************************************)
EXTENDS MCLibraryPages, SequenceTheorems, FiniteSetTheorems, WellFoundedInduction, TLAPS

-----------------------------------------------------------------------------
(* Lists.                                                                  *)

\* A list of S without repetition.
Lists(S) == {q \in Seq(S) : \A i, j \in DOMAIN q : q[i] = q[j] => i = j}

\* One more item at the end.
LEMMA Appended ==
  ASSUME NEW S, NEW q \in Seq(S), NEW x \in S
  PROVE  /\ Append(q, x) \in Seq(S) /\ ToSet(Append(q, x)) = ToSet(q) \cup {x}
         /\ q \in Lists(S) /\ x \notin ToSet(q) => Append(q, x) \in Lists(S)
<1>1. /\ Append(q, x) \in Seq(S) /\ Len(Append(q, x)) = Len(q) + 1
      /\ Append(q, x)[Len(q) + 1] = x
      /\ \A i \in 1..Len(q) : Append(q, x)[i] = q[i]
  OBVIOUS
<1>2. ToSet(Append(q, x)) = ToSet(q) \cup {x}
  BY <1>1 DEF ToSet
<1>3. ASSUME q \in Lists(S), x \notin ToSet(q)
      PROVE  Append(q, x) \in Lists(S)
  <2>1. \A i \in 1..Len(q) : q[i] # x
    BY <1>3 DEF ToSet
  <2>2. \A i, j \in 1..Len(q) : q[i] = q[j] => i = j
    BY <1>3 DEF Lists
  <2>3. PICK r : r = Append(q, x)
    OBVIOUS
  <2>4. r \in Seq(S) /\ DOMAIN r = 1..(Len(q) + 1) /\ Len(q) \in Nat
    BY <1>1, <2>3
  <2>7. r[Len(q) + 1] = x /\ \A i \in 1..Len(q) : r[i] = q[i]
    BY <1>1, <2>3
  <2>8. \A i \in 1..(Len(q) + 1) : i \in 1..Len(q) \/ i = Len(q) + 1
    BY <2>4
  <2>5. \A i \in 1..(Len(q) + 1) : (i \in 1..Len(q) /\ r[i] = q[i]) \/ (i = Len(q) + 1 /\ r[i] = x)
    BY <2>7, <2>8
  <2>6. \A i, j \in 1..(Len(q) + 1) : r[i] = r[j] => i = j
    BY <2>1, <2>2, <2>5
  <2>. QED
    BY <2>3, <2>4, <2>6 DEF Lists
<1>. QED
  BY <1>1, <1>2, <1>3

\* The first item and the others.
LEMMA TakenApart ==
  ASSUME NEW S, NEW q \in Lists(S), q # <<>>
  PROVE  /\ Head(q) \in S /\ Tail(q) \in Lists(S)
         /\ ToSet(q) = ToSet(Tail(q)) \cup {Head(q)} /\ Head(q) \notin ToSet(Tail(q))
<1>1. /\ q \in Seq(S) /\ Len(q) \in Nat \ {0} /\ Head(q) = q[1] /\ q[1] \in S
      /\ Tail(q) \in Seq(S) /\ Len(Tail(q)) = Len(q) - 1
      /\ \A i \in 1..(Len(q) - 1) : Tail(q)[i] = q[i + 1]
  <2>1. q \in Seq(S)
    BY DEF Lists
  <2>2. Len(q) \in Nat \ {0}
    BY <2>1
  <2>3. Tail(q) \in Seq(S) /\ Len(Tail(q)) = Len(q) - 1 /\ Head(q) = q[1]
    BY <2>1, <2>2
  <2>4. \A i \in 1..(Len(q) - 1) : Tail(q)[i] = q[i + 1]
    BY <2>1, <2>2
  <2>. QED
    BY <2>1, <2>2, <2>3, <2>4
<1>2. \A i, j \in 1..Len(q) : q[i] = q[j] => i = j
  BY <1>1 DEF Lists
<1>3. Tail(q) \in Lists(S)
  <2>1. PICK t : t = Tail(q)
    OBVIOUS
  <2>2. t \in Seq(S) /\ DOMAIN t = 1..(Len(q) - 1)
    BY <1>1, <2>1
  <2>3. \A i, j \in 1..(Len(q) - 1) : t[i] = t[j] => i = j
    BY <1>1, <1>2, <2>1
  <2>. QED
    BY <2>1, <2>2, <2>3 DEF Lists
<1>4. Head(q) \notin ToSet(Tail(q))
  BY <1>1, <1>2 DEF ToSet
<1>5. ToSet(q) = ToSet(Tail(q)) \cup {Head(q)}
  <2>1. PICK t : t = Tail(q)
    OBVIOUS
  <2>2. t \in Seq(S) /\ DOMAIN t = 1..(Len(q) - 1) /\ DOMAIN q = 1..Len(q)
    BY <1>1, <2>1
  <2>3. \A i \in 1..(Len(q) - 1) : i + 1 \in 1..Len(q) /\ t[i] = q[i + 1]
    BY <1>1, <2>1
  <2>4. \A i \in 1..Len(q) : i = 1 \/ \E j \in 1..(Len(q) - 1) : i = j + 1
    <3>1. \A i \in 1..Len(q) : i = 1 \/ (i - 1 \in 1..(Len(q) - 1) /\ i = (i - 1) + 1)
      BY <1>1
    <3>. QED
      BY <3>1
  <2>5. ASSUME NEW x \in ToSet(q)
        PROVE  x \in ToSet(t) \cup {q[1]}
    <3>1. PICK i \in 1..Len(q) : x = q[i]
      BY <2>2, <2>5 DEF ToSet
    <3>2. i = 1 \/ \E j \in 1..(Len(q) - 1) : x = t[j]
      BY <2>3, <2>4, <3>1
    <3>. QED
      BY <2>2, <3>1, <3>2 DEF ToSet
  <2>6. ASSUME NEW x \in ToSet(t) \cup {q[1]}
        PROVE  x \in ToSet(q)
    <3>1. x = q[1] \/ \E j \in 1..(Len(q) - 1) : x = t[j]
      BY <2>2, <2>6 DEF ToSet
    <3>2. \E i \in 1..Len(q) : x = q[i]
      BY <1>1, <2>3, <3>1
    <3>. QED
      BY <2>2, <3>2 DEF ToSet
  <2>. QED
    BY <1>1, <2>1, <2>5, <2>6
<1>. QED
  BY <1>1, <1>3, <1>4, <1>5

\* All but one item.
LEMMA OneRemoved ==
  ASSUME NEW S, NEW q \in Seq(S), NEW i \in 1..Len(q)
  PROVE  /\ RemoveAt(q, i) \in Seq(S)
         /\ q \in Lists(S) => RemoveAt(q, i) \in Lists(S)
<1>1. PICK a : a = SubSeq(q, 1, i - 1)
  OBVIOUS
<1>2. PICK b : b = SubSeq(q, i + 1, Len(q))
  OBVIOUS
<1>3. a \in Seq(S) /\ Len(a) = i - 1 /\ \A k \in 1..(i - 1) : a[k] = q[k]
  BY <1>1
<1>4. b \in Seq(S) /\ Len(b) = Len(q) - i /\ \A k \in 1..(Len(q) - i) : b[k] = q[k + i]
  BY <1>2
<1>5. PICK r : r = a \o b
  OBVIOUS
<1>6. /\ r \in Seq(S) /\ Len(r) = Len(q) - 1
      /\ \A k \in 1..(i - 1) : r[k] = q[k]
      /\ \A k \in i..(Len(q) - 1) : r[k] = q[k + 1]
  <2>1. r \in Seq(S) /\ Len(r) = Len(q) - 1
    BY <1>3, <1>4, <1>5
  <2>2. \A k \in 1..(i - 1) : r[k] = q[k]
    BY <1>3, <1>4, <1>5
  <2>3. ASSUME NEW k \in i..(Len(q) - 1)
        PROVE  r[k] = q[k + 1]
    <3>1. PICK j \in 1..(Len(q) - i) : k = i - 1 + j
      <4>1. k - i + 1 \in 1..(Len(q) - i) /\ k = i - 1 + (k - i + 1)
        OBVIOUS
      <4>. QED
        BY <4>1
    <3>2. r[k] = b[j]
      BY <1>3, <1>4, <1>5, <3>1
    <3>. QED
      BY <1>4, <3>1, <3>2
  <2>. QED
    BY <2>1, <2>2, <2>3
<1>7. ASSUME q \in Lists(S)
      PROVE  r \in Lists(S)
  <2>1. \A m, n \in 1..Len(q) : q[m] = q[n] => m = n
    BY <1>7 DEF Lists
  <2>2. \A k \in 1..(Len(q) - 1) : r[k] = IF k < i THEN q[k] ELSE q[k + 1]
    BY <1>6
  <2>3. ASSUME NEW m \in 1..(Len(q) - 1), NEW n \in 1..(Len(q) - 1), r[m] = r[n]
        PROVE  m = n
    BY <2>1, <2>2, <2>3
  <2>. QED
    BY <1>6, <2>3 DEF Lists
<1>. QED
  BY <1>1, <1>2, <1>5, <1>6, <1>7 DEF RemoveAt

-----------------------------------------------------------------------------
(* The export.                                                             *)

Ids == Lists(Exportable)
ErrorLine == [id : Exportable, why : {"failed", "not found"}]
Errors == Seq(ErrorLine)
ExportAsked == [step : {"asked"}, kind : Kinds, ids : Ids]
ExportReading == [step : {"reading"}, kind : Kinds, ids : Ids, queue : Ids,
                  reading : UNION {[1..n -> {<<>>} \cup {<<x>> : x \in Exportable}] : n \in Nat},
                  images : Ids, errors : Errors]
ExportAnswered == [step : {"answered"}, kind : Kinds, ids : Ids, images : Ids, errors : Errors]

FailedOf(errors) == {errors[i].id : i \in DOMAIN errors}
AtLane(e) == {x \in Exportable : \E l \in DOMAIN e.reading : e.reading[l] = <<x>>}

\* Each id is in the queue, at one lane, among the records or among the
\* errors; while the queue has one, every lane is at one.
Shared(e) ==
    /\ \A l, m \in DOMAIN e.reading : e.reading[l] # <<>> /\ e.reading[l] = e.reading[m] => l = m
    /\ e.queue # <<>> => \A l \in DOMAIN e.reading : e.reading[l] # <<>>
    /\ 1 \in DOMAIN e.reading
    /\ ToSet(e.queue) \cap AtLane(e) = {} /\ ToSet(e.queue) \cap ToSet(e.images) = {}
    /\ ToSet(e.queue) \cap FailedOf(e.errors) = {} /\ AtLane(e) \cap ToSet(e.images) = {}
    /\ AtLane(e) \cap FailedOf(e.errors) = {} /\ ToSet(e.images) \cap FailedOf(e.errors) = {}
    /\ ToSet(e.queue) \cup AtLane(e) \cup ToSet(e.images) \cup FailedOf(e.errors) = ToSet(e.ids)

\* The records and the errors of an answer are those of the ids.
Complete(e) ==
    /\ ToSet(e.images) \cap FailedOf(e.errors) = {}
    /\ ToSet(e.images) \cup FailedOf(e.errors) = ToSet(e.ids)

ExportInv ==
    /\ picked \in Ids
    /\ export \in {NoExport, [step |-> "refused"]} \cup ExportAsked \cup ExportReading
                    \cup ExportAnswered
    /\ export.step \in {"asked", "reading"} => export.ids # <<>>
    /\ export.step = "reading" => Shared(export)
    /\ export.step = "answered" => Complete(export)
    /\ ExportAccountsForAll

\* At first nothing is picked and nothing is exported.
LEMMA ExportStarts == ExportInit => ExportInv
<1>. SUFFICES ASSUME ExportInit
              PROVE  ExportInv
  OBVIOUS
<1>1. export.step = "none" /\ export = NoExport
  BY DEF ExportInit, NoExport
<1>2. <<>> \in Ids
  BY DEF Ids, Lists
<1>3. ExportAccountsForAll
  BY DEF ExportInit, ExportAccountsForAll, Silent
<1>. QED
  BY <1>1, <1>2, <1>3 DEF ExportInit, ExportInv

\* The lane is done with x and is at v: at nothing, or at an id of the queue.
LEMMA LaneTurns ==
  ASSUME NEW e \in ExportReading, Shared(e), NEW l \in DOMAIN e.reading,
         NEW x \in Exportable, e.reading[l] = <<x>>,
         NEW v, v = <<>> \/ \E h \in ToSet(e.queue) : v = <<h>>,
         NEW n, DOMAIN n.reading = DOMAIN e.reading, n.reading[l] = v,
         \A k \in DOMAIN e.reading \ {l} : n.reading[k] = e.reading[k]
  PROVE  /\ \A k, m \in DOMAIN n.reading : n.reading[k] # <<>> /\ n.reading[k] = n.reading[m] => k = m
         /\ AtLane(n) = (AtLane(e) \ {x}) \cup {h \in Exportable : v = <<h>>}
<1>2. /\ DOMAIN n.reading = DOMAIN e.reading
      /\ \A k \in DOMAIN e.reading : n.reading[k] = IF k = l THEN v ELSE e.reading[k]
  OBVIOUS
<1>3. \A k, m \in DOMAIN e.reading : e.reading[k] # <<>> /\ e.reading[k] = e.reading[m] => k = m
  BY DEF Shared
<1>4. \A k \in DOMAIN e.reading : v # <<>> => e.reading[k] # v
  <2>1. \A h \in ToSet(e.queue) : h \notin AtLane(e)
    BY DEF Shared
  <2>2. e.queue \in Seq(Exportable)
    BY DEF ExportReading, Ids, Lists
  <2>3. \A h \in ToSet(e.queue) : h \in Exportable
    BY <2>2 DEF ToSet
  <2>. QED
    BY <2>1, <2>3 DEF AtLane
<1>5. \A k, m \in DOMAIN n.reading : n.reading[k] # <<>> /\ n.reading[k] = n.reading[m] => k = m
  BY <1>2, <1>3, <1>4
<1>6. \A h \in Exportable : h \in AtLane(n) <=> (h # x /\ h \in AtLane(e)) \/ v = <<h>>
  <2>1. ASSUME NEW h \in Exportable, h # x, NEW k \in DOMAIN e.reading, e.reading[k] = <<h>>
        PROVE  n.reading[k] = <<h>>
    <3>1. k # l
      BY <2>1
    <3>. QED
      BY <1>2, <2>1, <3>1
  <2>2. ASSUME NEW h \in Exportable, NEW k \in DOMAIN e.reading, n.reading[k] = <<h>>
        PROVE  (h # x /\ e.reading[k] = <<h>>) \/ v = <<h>>
    <3>1. CASE k = l
      BY <1>2, <2>2, <3>1
    <3>2. CASE k # l
      <4>1. e.reading[k] = <<h>> /\ <<h>> # <<>>
        BY <1>2, <2>2, <3>2
      <4>2. h # x
        BY <1>3, <3>2, <4>1
      <4>. QED
        BY <4>1, <4>2
    <3>. QED
      BY <3>1, <3>2
  <2>3. ASSUME NEW h \in Exportable, v = <<h>>
        PROVE  n.reading[l] = <<h>>
    BY <1>2, <2>3
  <2>. QED
    BY <1>2, <2>1, <2>2, <2>3 DEF AtLane
<1>7. AtLane(n) \subseteq Exportable /\ AtLane(e) \subseteq Exportable
  BY DEF AtLane
<1>8. AtLane(n) = (AtLane(e) \ {x}) \cup {h \in Exportable : v = <<h>>}
  BY <1>6, <1>7
<1>. QED
  BY <1>2, <1>5, <1>8

\* A lane that goes on, with x among the records or the errors, leaves the
\* ids shared out.
LEMMA GoesOn ==
  ASSUME NEW e \in ExportReading, Shared(e), NEW l \in DOMAIN e.reading,
         NEW x \in Exportable, e.reading[l] = <<x>>,
         NEW f \in ExportReading, f.queue = e.queue, f.reading = e.reading, f.ids = e.ids,
         \/ ToSet(f.images) = ToSet(e.images) \cup {x} /\ FailedOf(f.errors) = FailedOf(e.errors)
         \/ ToSet(f.images) = ToSet(e.images) /\ FailedOf(f.errors) = FailedOf(e.errors) \cup {x}
  PROVE  Drained(f, l) \in ExportReading /\ Shared(Drained(f, l)) /\ Drained(f, l).ids = e.ids
<1>1. x \in AtLane(e)
  BY DEF AtLane
<1>2. PICK N \in Nat : e.reading \in [1..N -> {<<>>} \cup {<<h>> : h \in Exportable}]
  BY DEF ExportReading
<1>3. CASE e.queue = <<>>
  <2>1. PICK rd : rd = [e.reading EXCEPT ![l] = <<>>]
    OBVIOUS
  <2>2. rd \in [1..N -> {<<>>} \cup {<<h>> : h \in Exportable}]
    BY <1>2, <2>1
  <2>3. PICK n \in ExportReading : n = [f EXCEPT !.reading = rd]
    BY <2>2 DEF ExportReading
  <2>4. /\ n.reading = rd /\ n.queue = e.queue /\ n.images = f.images /\ n.errors = f.errors
        /\ n.ids = e.ids
    BY <2>3 DEF ExportReading
  <2>5. n = Drained(f, l)
    BY <1>3, <2>1, <2>3 DEF Drained
  <2>11. PICK v : v = <<>>
    OBVIOUS
  <2>10. /\ DOMAIN n.reading = DOMAIN e.reading /\ n.reading[l] = v
         /\ \A k \in DOMAIN e.reading \ {l} : n.reading[k] = e.reading[k]
         /\ v = <<>> \/ \E h \in ToSet(e.queue) : v = <<h>>
    BY <1>2, <2>1, <2>4, <2>11
  <2>6. /\ \A k, m \in DOMAIN n.reading : n.reading[k] # <<>> /\ n.reading[k] = n.reading[m] => k = m
        /\ AtLane(n) = (AtLane(e) \ {x}) \cup {h \in Exportable : v = <<h>>}
    BY <2>10, LaneTurns
  <2>7. AtLane(n) = AtLane(e) \ {x}
    BY <2>6, <2>11
  <2>8. ToSet(n.queue) = {}
    BY <1>3, <2>4 DEF ToSet
  <2>9. Shared(n)
    BY <1>1, <1>3, <2>4, <2>6, <2>7, <2>8, <2>10 DEF Shared
  <2>. QED
    BY <2>4, <2>5, <2>9
<1>4. CASE e.queue # <<>>
  <2>1. PICK h : h = Head(e.queue)
    OBVIOUS
  <2>2. PICK q : q = Tail(e.queue)
    OBVIOUS
  <2>3. e.queue \in Lists(Exportable)
    BY DEF ExportReading, Ids
  <2>4. /\ h \in Exportable /\ q \in Ids /\ ToSet(e.queue) = ToSet(q) \cup {h} /\ h \notin ToSet(q)
    BY <1>4, <2>1, <2>2, <2>3, TakenApart DEF Ids
  <2>5. PICK rd : rd = [e.reading EXCEPT ![l] = <<h>>]
    OBVIOUS
  <2>6. rd \in [1..N -> {<<>>} \cup {<<g>> : g \in Exportable}]
    BY <1>2, <2>4, <2>5
  <2>7. PICK n \in ExportReading : n = [f EXCEPT !.reading = rd, !.queue = q]
    BY <2>4, <2>6 DEF ExportReading
  <2>8. /\ n.reading = rd /\ n.queue = q /\ n.images = f.images /\ n.errors = f.errors
        /\ n.ids = e.ids
    BY <2>7 DEF ExportReading
  <2>9. n = Drained(f, l)
    BY <1>4, <2>1, <2>2, <2>5, <2>7 DEF Drained
  <2>15. PICK v : v = <<h>>
    OBVIOUS
  <2>10. /\ DOMAIN n.reading = DOMAIN e.reading /\ n.reading[l] = v
         /\ \A k \in DOMAIN e.reading \ {l} : n.reading[k] = e.reading[k]
         /\ \E g \in ToSet(e.queue) : v = <<g>>
    BY <1>2, <2>4, <2>5, <2>8, <2>15
  <2>11. /\ \A k, m \in DOMAIN n.reading : n.reading[k] # <<>> /\ n.reading[k] = n.reading[m] => k = m
         /\ AtLane(n) = (AtLane(e) \ {x}) \cup {g \in Exportable : v = <<g>>}
    BY <2>10, LaneTurns
  <2>12. AtLane(n) = (AtLane(e) \ {x}) \cup {h}
    BY <2>4, <2>11, <2>15
  <2>13. \A k \in DOMAIN n.reading : n.reading[k] # <<>>
    BY <1>4, <2>10, <2>15 DEF Shared
  <2>14. Shared(n)
    BY <1>1, <2>4, <2>8, <2>10, <2>11, <2>12, <2>13 DEF Shared
  <2>. QED
    BY <2>8, <2>9, <2>14
<1>. QED
  BY <1>3, <1>4

\* The lanes of the route start at the first ids.
LEMMA RouteOpens ==
  ASSUME NEW ids \in Ids, ids # <<>>, NEW k \in Kinds, NEW lanes,
         lanes = Min({LANES, Len(ids)})
  PROVE  LET e == [step |-> "reading", kind |-> k, ids |-> ids,
                   queue |-> SubSeq(ids, lanes + 1, Len(ids)),
                   reading |-> [l \in 1..lanes |-> <<ids[l]>>], images |-> <<>>, errors |-> <<>>]
         IN  e \in ExportReading /\ Shared(e)
<1>1. ids \in Seq(Exportable) /\ Len(ids) \in Nat \ {0} /\ DOMAIN ids = 1..Len(ids)
      /\ \A i, j \in 1..Len(ids) : ids[i] = ids[j] => i = j
  BY DEF Ids, Lists
<1>2. lanes \in 1..Len(ids)
  <2>1. LANES \in Nat \ {0}
    BY ExportAssumption
  <2>2. \E x \in {LANES, Len(ids)} : \A y \in {LANES, Len(ids)} : x =< y
    <3>1. LANES =< Len(ids) \/ Len(ids) =< LANES
      BY <1>1, <2>1
    <3>. QED
      BY <1>1, <2>1, <3>1
  <2>3. lanes \in {LANES, Len(ids)} /\ lanes =< Len(ids)
    BY <2>2 DEF Min
  <2>. QED
    BY <1>1, <2>1, <2>3
<1>3. PICK q : q = SubSeq(ids, lanes + 1, Len(ids))
  OBVIOUS
<1>4. q \in Seq(Exportable) /\ Len(q) = Len(ids) - lanes
      /\ \A i \in 1..(Len(ids) - lanes) : q[i] = ids[lanes + i]
  <2>1. ids \in Seq(Exportable) /\ lanes + 1 \in 1..(Len(ids) + 1) /\ Len(ids) \in Nat
    BY <1>1, <1>2
  <2>6. PICK n : n = lanes + 1
    OBVIOUS
  <2>7. n \in 1..(Len(ids) + 1) /\ \A i \in n..Len(ids) : ids[i] \in Exportable
    <3>1. n \in 1..(Len(ids) + 1)
      BY <1>1, <1>2, <2>6
    <3>2. \A i \in n..Len(ids) : i \in 1..Len(ids)
      BY <1>1, <3>1
    <3>3. \A i \in 1..Len(ids) : ids[i] \in Exportable
      BY <1>1
    <3>. QED
      BY <3>1, <3>2, <3>3
  <2>2. q \in Seq(Exportable) /\ Len(q) = (IF n <= Len(ids) THEN Len(ids) - n + 1 ELSE 0)
    <3>1. n \in Int /\ Len(ids) \in Int
      BY <1>1, <2>7
    <3>2. PICK N \in Int : N = Len(ids)
      BY <3>1
    <3>3. \A i \in n..N : ids[i] \in Exportable
      BY <2>7, <3>2
    <3>4. q = SubSeq(ids, n, N)
      BY <1>3, <2>6, <3>2
    <3>5. SubSeq(ids, n, N) \in Seq(Exportable) /\ Len(SubSeq(ids, n, N)) = (IF n <= N THEN N - n + 1 ELSE 0)
      BY <3>1, <3>2, <3>3, SubSeqProperties
    <3>. QED
      BY <3>2, <3>4, <3>5
  <2>4. Len(q) = Len(ids) - lanes
    BY <1>1, <1>2, <2>2, <2>6
  <2>3. \A i \in 1..Len(q) : q[i] = ids[lanes + 1 + i - 1]
    BY <1>1, <1>3, <2>4, <2>6, <2>7
  <2>5. \A i \in 1..(Len(ids) - lanes) : lanes + 1 + i - 1 = lanes + i
    BY <1>1, <1>2
  <2>. QED
    BY <2>2, <2>3, <2>4, <2>5
<1>5. q \in Ids
  <2>1. DOMAIN q = 1..(Len(ids) - lanes)
    BY <1>4
  <2>2. ASSUME NEW i \in DOMAIN q, NEW j \in DOMAIN q, q[i] = q[j]
        PROVE  i = j
    <3>1. ids[lanes + i] = ids[lanes + j] /\ i \in 1..(Len(ids) - lanes) /\ j \in 1..(Len(ids) - lanes)
      BY <1>4, <2>1, <2>2
    <3>2. lanes + i \in 1..Len(ids) /\ lanes + j \in 1..Len(ids)
      BY <1>1, <1>2, <3>1
    <3>3. lanes + i = lanes + j
      BY <1>1, <3>1, <3>2
    <3>. QED
      BY <1>2, <3>1, <3>3
  <2>. QED
    BY <1>4, <2>2 DEF Ids, Lists
<1>6. PICK rd : rd = [l \in 1..lanes |-> <<ids[l]>>]
  OBVIOUS
<1>7. rd \in [1..lanes -> {<<>>} \cup {<<x>> : x \in Exportable}] /\ lanes \in Nat
  BY <1>1, <1>2, <1>6
<1>8. <<>> \in Ids /\ <<>> \in Errors
  BY DEF Ids, Lists, Errors
<1>9. PICK e \in ExportReading : e = [step |-> "reading", kind |-> k, ids |-> ids,
                   queue |-> q, reading |-> rd, images |-> <<>>, errors |-> <<>>]
  BY <1>5, <1>7, <1>8 DEF ExportReading
<1>10. e.queue = q /\ e.reading = rd /\ e.images = <<>> /\ e.errors = <<>> /\ e.ids = ids
  BY <1>9
<1>11. \A x \in Exportable : x \in AtLane(e) <=> \E l \in 1..lanes : x = ids[l]
  <2>1. DOMAIN e.reading = 1..lanes /\ \A l \in 1..lanes : e.reading[l] = <<ids[l]>>
    BY <1>6, <1>10
  <2>2. ASSUME NEW x \in Exportable, NEW l \in 1..lanes, e.reading[l] = <<x>>
        PROVE  x = ids[l]
    <3>1. <<ids[l]>> = <<x>>
      BY <2>1, <2>2
    <3>. QED
      BY <3>1
  <2>. QED
    BY <2>1, <2>2 DEF AtLane
<1>12. \A x : x \in ToSet(q) <=> \E i \in 1..(Len(ids) - lanes) : x = ids[lanes + i]
  <2>1. DOMAIN q = 1..(Len(ids) - lanes)
    BY <1>4
  <2>. QED
    BY <1>4, <2>1 DEF ToSet
<1>13. ToSet(q) \cap AtLane(e) = {}
  <2>1. ASSUME NEW i \in 1..(Len(ids) - lanes), NEW l \in 1..lanes, ids[lanes + i] = ids[l]
        PROVE  FALSE
    BY <1>1, <1>2, <2>1
  <2>. SUFFICES ASSUME NEW x, x \in ToSet(q), x \in AtLane(e)
                PROVE  FALSE
    OBVIOUS
  <2>2. x \in Exportable
    BY DEF AtLane
  <2>3. PICK l \in 1..lanes : x = ids[l]
    BY <1>11, <2>2
  <2>4. PICK i \in 1..(Len(ids) - lanes) : x = ids[lanes + i]
    BY <1>12
  <2>. QED
    BY <2>1, <2>3, <2>4
<1>14. ToSet(q) \cup AtLane(e) = ToSet(ids)
  <2>1. ASSUME NEW m \in 1..Len(ids)
        PROVE  m \in 1..lanes \/ \E i \in 1..(Len(ids) - lanes) : m = lanes + i
    <3>1. m \in 1..lanes \/ (m - lanes \in 1..(Len(ids) - lanes) /\ m = lanes + (m - lanes))
      BY <1>1, <1>2
    <3>. QED
      BY <3>1
  <2>2. ASSUME NEW x \in ToSet(ids)
        PROVE  x \in ToSet(q) \cup AtLane(e)
    <3>1. PICK m \in 1..Len(ids) : x = ids[m]
      BY <1>1, <2>2 DEF ToSet
    <3>2. x \in Exportable
      BY <1>1, <3>1
    <3>. QED
      BY <1>11, <1>12, <2>1, <3>1, <3>2
  <2>3. ASSUME NEW x \in ToSet(q) \cup AtLane(e)
        PROVE  x \in ToSet(ids)
    <3>1. x \in AtLane(e) => x \in Exportable
      BY DEF AtLane
    <3>2. \E m \in 1..Len(ids) : x = ids[m]
      <4>1. \A i \in 1..(Len(ids) - lanes) : lanes + i \in 1..Len(ids)
        BY <1>1, <1>2
      <4>2. \A l \in 1..lanes : l \in 1..Len(ids)
        BY <1>1, <1>2
      <4>. QED
        BY <1>11, <1>12, <2>3, <3>1, <4>1, <4>2
    <3>. QED
      BY <1>1, <3>2 DEF ToSet
  <2>. QED
    BY <2>2, <2>3
<1>15. \A l, m \in 1..lanes : rd[l] = rd[m] => l = m
  <2>1. ASSUME NEW l \in 1..lanes, NEW m \in 1..lanes, rd[l] = rd[m]
        PROVE  l = m
    <3>1. <<ids[l]>> = <<ids[m]>>
      BY <1>6, <2>1
    <3>2. ids[l] = ids[m] /\ l \in 1..Len(ids) /\ m \in 1..Len(ids)
      BY <1>1, <1>2, <3>1
    <3>. QED
      BY <1>1, <3>2
  <2>. QED
    BY <2>1
<1>16. ToSet(e.images) = {} /\ FailedOf(e.errors) = {}
  BY <1>10 DEF ToSet, FailedOf
<1>17. DOMAIN rd = 1..lanes /\ 1 \in 1..lanes /\ \A l \in 1..lanes : rd[l] # <<>>
  BY <1>2, <1>6
<1>18. Shared(e)
  BY <1>10, <1>13, <1>14, <1>15, <1>16, <1>17 DEF Shared
<1>. QED
  BY <1>3, <1>6, <1>9, <1>18

\* The step of an export tells which record it is.
LEMMA StepTells ==
  ASSUME NEW e \in {NoExport, [step |-> "refused"]} \cup ExportAsked \cup ExportReading
                     \cup ExportAnswered
  PROVE  /\ e.step = "asked" => e \in ExportAsked
         /\ e.step = "reading" => e \in ExportReading
         /\ e.step = "answered" => e \in ExportAnswered
         /\ e \in ExportAsked \cup ExportReading \cup ExportAnswered => e.ids \in Ids /\ e.kind \in Kinds
<1>1. CASE e = NoExport \/ e = [step |-> "refused"]
  <2>1. e.step \in {"none", "refused"}
    BY <1>1 DEF NoExport
  <2>. QED
    BY <2>1 DEF ExportAsked, ExportReading, ExportAnswered
<1>2. CASE e \in ExportAsked
  BY <1>2 DEF ExportAsked
<1>3. CASE e \in ExportReading
  BY <1>3 DEF ExportReading
<1>4. CASE e \in ExportAnswered
  BY <1>4 DEF ExportAnswered
<1>. QED
  BY <1>1, <1>2, <1>3, <1>4

\* A lane that reads is at one of the images.
LEMMA AtAnImage ==
  ASSUME NEW e \in ExportReading, NEW l \in DOMAIN e.reading, e.reading[l] # <<>>
  PROVE  e.reading[l][1] \in Exportable /\ e.reading[l] = <<e.reading[l][1]>>
<1>1. PICK N \in Nat : e.reading \in [1..N -> {<<>>} \cup {<<h>> : h \in Exportable}]
  BY DEF ExportReading
<1>2. PICK v : v = e.reading[l]
  OBVIOUS
<1>3. v \in {<<h>> : h \in Exportable}
  BY <1>1, <1>2
<1>4. PICK h \in Exportable : v = <<h>>
  BY <1>3
<1>5. v[1] = h
  BY <1>4
<1>. QED
  BY <1>2, <1>4, <1>5

\* One more error.
LEMMA OneMoreError ==
  ASSUME NEW S, NEW q \in Seq(S), NEW x \in S
  PROVE  FailedOf(Append(q, x)) = FailedOf(q) \cup {x.id}
<1>1. PICK a : a = Append(q, x)
  OBVIOUS
<1>2. /\ DOMAIN a = 1..(Len(q) + 1) /\ DOMAIN q = 1..Len(q) /\ a[Len(q) + 1] = x
      /\ \A i \in 1..Len(q) : a[i] = q[i]
  BY <1>1
<1>3. \A i \in 1..(Len(q) + 1) : i \in 1..Len(q) \/ i = Len(q) + 1
  OBVIOUS
<1>4. Len(q) + 1 \in 1..(Len(q) + 1) /\ \A i \in 1..Len(q) : i \in 1..(Len(q) + 1)
  OBVIOUS
<1>5. ASSUME NEW y \in FailedOf(a)
      PROVE  y \in FailedOf(q) \cup {x.id}
  <2>1. PICK i \in DOMAIN a : y = a[i].id
    BY <1>5 DEF FailedOf
  <2>2. (i \in 1..Len(q) /\ a[i] = q[i]) \/ a[i] = x
    BY <1>2, <1>3, <2>1
  <2>. QED
    BY <1>2, <2>1, <2>2 DEF FailedOf
<1>6. ASSUME NEW y \in FailedOf(q) \cup {x.id}
      PROVE  y \in FailedOf(a)
  <2>1. y = x.id \/ \E i \in DOMAIN q : y = q[i].id
    BY <1>6 DEF FailedOf
  <2>2. \E i \in DOMAIN a : y = a[i].id
    BY <1>2, <1>4, <2>1
  <2>. QED
    BY <2>2 DEF FailedOf
<1>. QED
  BY <1>1, <1>5, <1>6

\* The record of the image that a lane is at came.
LEMMA RecordComes ==
  ASSUME NEW e \in ExportReading, Shared(e), NEW l \in DOMAIN e.reading,
         NEW x \in Exportable, e.reading[l] = <<x>>,
         NEW f, f = [e EXCEPT !.images = Append(e.images, x)]
  PROVE  Drained(f, l) \in ExportReading /\ Shared(Drained(f, l)) /\ Drained(f, l).ids = e.ids
<1>1. x \in AtLane(e)
  BY DEF AtLane
<1>2. PICK q : q = e.images
  OBVIOUS
<1>3. q \in Lists(Exportable) /\ q \in Seq(Exportable) /\ x \notin ToSet(q)
  BY <1>1, <1>2 DEF Shared, ExportReading, Ids, Lists
<1>4. PICK a : a = Append(q, x)
  OBVIOUS
<1>5. a \in Ids /\ ToSet(a) = ToSet(q) \cup {x}
  BY <1>3, <1>4, Appended DEF Ids
<1>6. /\ f \in ExportReading /\ f.queue = e.queue /\ f.reading = e.reading
      /\ f.ids = e.ids /\ f.images = a /\ f.errors = e.errors
  <2>1. f = [e EXCEPT !.images = a]
    BY <1>2, <1>4
  <2>. QED
    BY <1>5, <2>1 DEF ExportReading
<1>. QED
  BY <1>2, <1>5, <1>6, GoesOn

WithErrors(e, a) == [e EXCEPT !.errors = a]

\* The image that a lane is at could not be read.
LEMMA ErrorComes ==
  ASSUME NEW e \in ExportReading, Shared(e), NEW l \in DOMAIN e.reading,
         NEW x \in Exportable, e.reading[l] = <<x>>,
         NEW line \in ErrorLine, line.id = x,
         NEW a, a = Append(e.errors, line), NEW f, f = WithErrors(e, a)
  PROVE  Drained(f, l) \in ExportReading /\ Shared(Drained(f, l)) /\ Drained(f, l).ids = e.ids
<1>1. PICK q : q = e.errors
  OBVIOUS
<1>2. q \in Seq(ErrorLine) /\ a = Append(q, line)
  BY <1>1 DEF ExportReading, Errors
<1>3. a \in Errors
  BY <1>2, Appended DEF Errors
<1>4. FailedOf(a) = FailedOf(q) \cup {x}
  BY <1>2, OneMoreError
<1>5. /\ f \in ExportReading /\ f.queue = e.queue /\ f.reading = e.reading
      /\ f.ids = e.ids /\ f.images = e.images /\ f.errors = a
  BY <1>3 DEF ExportReading, WithErrors
<1>. QED
  BY <1>1, <1>4, <1>5, GoesOn

\* A download accounts for every id of the answer.
LEMMA DownloadAccounts ==
  ASSUME ExportInv, Downloaded
  PROVE  ExportAccountsForAll'
<1>1. export \in ExportAnswered /\ Complete(export)
  BY StepTells DEF ExportInv, Downloaded
<1>2. export.images \in Ids /\ export.ids \in Ids /\ export.errors \in Errors
  BY <1>1 DEF ExportAnswered
<1>3. export.images \in Seq(Exportable) /\ Len(export.images) \in Nat
      /\ DOMAIN export.images = 1..Len(export.images)
      /\ \A i, j \in DOMAIN export.images : export.images[i] = export.images[j] => i = j
  BY <1>2 DEF Ids, Lists
<1>4. /\ message'.asked = export.ids /\ message'.count = Len(export.images)
      /\ message'.failed = FailedOf(export.errors)
      /\ message'.kind = "notice" => export.errors = <<>>
  BY DEF Downloaded, FailedOf
<1>5. export.images # <<>> => file'.images = export.images
  BY DEF Downloaded, FileOf
<1>6. PICK saved : saved = IF message'.count = 0 THEN <<>> ELSE file'.images
  OBVIOUS
<1>7. saved = export.images
  <2>1. Len(export.images) = 0 <=> export.images = <<>>
    BY <1>3
  <2>. QED
    BY <1>4, <1>5, <1>6, <2>1
<1>8. IsInjective(saved)
  BY <1>3, <1>7 DEF IsInjective
<1>9. /\ ToSet(saved) \cap message'.failed = {}
      /\ ToSet(saved) \cup message'.failed = ToSet(message'.asked)
  BY <1>1, <1>4, <1>7 DEF Complete
<1>10. message'.kind = "notice" => message'.failed = {}
  BY <1>4 DEF FailedOf
<1>. QED
  BY <1>4, <1>6, <1>7, <1>8, <1>9, <1>10 DEF ExportAccountsForAll

\* Each step of the export keeps its invariant.
LEMMA ExportMoves == ExportInv /\ [ExportNext]_exportVars => ExportInv'
<1>. SUFFICES ASSUME ExportInv, [ExportNext]_exportVars
              PROVE  ExportInv'
  OBVIOUS
<1>1. ASSUME UNCHANGED <<export, file, message>>, picked' \in Ids
      PROVE  ExportInv'
  <2>1. ExportAccountsForAll'
    BY <1>1 DEF ExportInv, ExportAccountsForAll
  <2>2. export' = export /\ picked' \in Ids
    BY <1>1
  <2>. QED
    BY <2>1, <2>2 DEF ExportInv
<1>2. CASE PickForExport
  <2>1. picked \in Lists(Exportable) /\ picked \in Seq(Exportable)
    BY DEF ExportInv, Ids, Lists
  <2>2. ASSUME NEW p \in Exportable \ ToSet(picked), picked' = Append(picked, p)
        PROVE  picked' \in Ids
    BY <2>1, <2>2, Appended DEF Ids
  <2>3. ASSUME NEW i \in DOMAIN picked, picked' = RemoveAt(picked, i)
        PROVE  picked' \in Ids
    <3>1. i \in 1..Len(picked)
      BY <2>1
    <3>. QED
      BY <2>1, <2>3, <3>1, OneRemoved DEF Ids
  <2>. QED
    BY <1>1, <1>2, <2>2, <2>3 DEF PickForExport
<1>3. CASE StartExport
  <2>1. PICK k \in Kinds : export' = [step |-> "asked", kind |-> k, ids |-> picked]
    BY <1>3 DEF StartExport
  <2>2. export' \in ExportAsked /\ export'.step = "asked" /\ export'.ids = picked
    BY <2>1 DEF ExportInv, ExportAsked
  <2>3. message'.asked = <<>> /\ picked # <<>> /\ picked' = picked
    BY <1>3 DEF StartExport, Silent
  <2>4. ExportAccountsForAll'
    BY <2>3 DEF ExportAccountsForAll
  <2>. QED
    BY <2>2, <2>3, <2>4 DEF ExportInv
<1>4. CASE Downloaded
  <2>1. ExportAccountsForAll'
    BY <1>4, DownloadAccounts
  <2>2. export' = NoExport /\ export'.step = "none" /\ picked' = picked
    BY <1>4 DEF Downloaded, NoExport
  <2>. QED
    BY <2>1, <2>2 DEF ExportInv
<1>5. CASE ExportThrows
  <2>1. message'.asked = <<>>
    BY <1>5 DEF ExportThrows, Silent
  <2>2. export' = NoExport /\ export'.step = "none" /\ picked' = picked
    BY <1>5 DEF ExportThrows, NoExport
  <2>3. ExportAccountsForAll'
    BY <2>1 DEF ExportAccountsForAll
  <2>. QED
    BY <2>2, <2>3 DEF ExportInv
<1>6. CASE RouteTakes
  <2>0. ExportAccountsForAll' /\ picked' = picked
    BY <1>6 DEF RouteTakes, ExportInv, ExportAccountsForAll
  <2>1. export \in ExportAsked /\ export.ids \in Ids /\ export.ids # <<>> /\ export.kind \in Kinds
    BY <1>6, StepTells DEF ExportInv, RouteTakes
  <2>2. CASE export' = [step |-> "refused"]
    <3>1. export'.step = "refused"
      BY <2>2
    <3>. QED
      BY <2>0, <2>2, <3>1 DEF ExportInv
  <2>3. CASE export' # [step |-> "refused"]
    <3>1. PICK lanes : lanes = Min({LANES, Len(export.ids)})
      OBVIOUS
    <3>2. export' = [step |-> "reading", kind |-> export.kind, ids |-> export.ids,
                     queue |-> SubSeq(export.ids, lanes + 1, Len(export.ids)),
                     reading |-> [l \in 1..lanes |-> <<export.ids[l]>>],
                     images |-> <<>>, errors |-> <<>>]
      BY <1>6, <2>3, <3>1 DEF RouteTakes
    <3>3. export' \in ExportReading /\ Shared(export')
      BY <2>1, <3>1, <3>2, RouteOpens
    <3>4. export'.step = "reading" /\ export'.ids = export.ids
      BY <3>2
    <3>. QED
      BY <2>0, <2>1, <3>3, <3>4 DEF ExportInv, Shared, AtLane
  <2>. QED
    BY <2>2, <2>3
<1>7. CASE ReadOne
  <2>0. ExportAccountsForAll' /\ picked' = picked
    BY <1>7 DEF ReadOne, ExportInv, ExportAccountsForAll
  <2>4. export.step = "reading" /\ export \in ExportReading /\ Shared(export)
    BY <1>7, StepTells DEF ExportInv, ReadOne
  <2>1. PICK l \in DOMAIN export.reading :
          /\ export.reading[l] # <<>>
          /\ \/ export' = Drained([export EXCEPT !.images = Append(@, export.reading[l][1])], l)
             \/ \E why \in {"failed", "not found"} :
                  export' = Drained([export EXCEPT !.errors =
                    Append(@, [id |-> export.reading[l][1], why |-> why])], l)
    BY <1>7 DEF ReadOne, Claim
  <2>2. PICK id \in Exportable : id = export.reading[l][1] /\ export.reading[l] = <<id>>
    BY <2>1, <2>4, AtAnImage
  <2>3. ASSUME export' = Drained([export EXCEPT !.images = Append(export.images, id)], l)
        PROVE  export' \in ExportReading /\ Shared(export') /\ export'.ids = export.ids
    <3>1. PICK f : f = [export EXCEPT !.images = Append(export.images, id)]
      OBVIOUS
    <3>2. Drained(f, l) \in ExportReading /\ Shared(Drained(f, l)) /\ Drained(f, l).ids = export.ids
      BY <2>2, <2>4, <3>1, RecordComes
    <3>3. export' = Drained(f, l)
      BY <2>3, <3>1
    <3>. QED
      BY <3>2, <3>3
  <2>7. ASSUME NEW why \in {"failed", "not found"},
               export' = Drained([export EXCEPT !.errors =
                           Append(export.errors, [id |-> id, why |-> why])], l)
        PROVE  export' \in ExportReading /\ Shared(export') /\ export'.ids = export.ids
    <3>1. PICK line : line = [id |-> id, why |-> why]
      OBVIOUS
    <3>5. line \in ErrorLine /\ line.id = id
      BY <3>1 DEF ErrorLine
    <3>6. PICK a : a = Append(export.errors, line)
      OBVIOUS
    <3>2. PICK f : f = [export EXCEPT !.errors = a]
      OBVIOUS
    <3>3. Drained(f, l) \in ExportReading /\ Shared(Drained(f, l)) /\ Drained(f, l).ids = export.ids
      <4>1. PICK e \in ExportReading : e = export /\ Shared(e)
        BY <2>4
      <4>2. l \in DOMAIN e.reading /\ e.reading[l] = <<id>> /\ a = Append(e.errors, line)
        BY <2>1, <2>2, <3>6, <4>1
      <4>3. f = WithErrors(e, a)
        BY <3>2, <4>1 DEF WithErrors
      <4>4. Drained(f, l) \in ExportReading
        BY <2>2, <3>5, <4>1, <4>2, <4>3, ErrorComes
      <4>5. Shared(Drained(f, l))
        BY <2>2, <3>5, <4>1, <4>2, <4>3, ErrorComes
      <4>6. Drained(f, l).ids = e.ids
        <5>2. "ids" \in DOMAIN e
          BY <4>1 DEF ExportReading
        <5>1. f.ids = e.ids /\ DOMAIN f = DOMAIN e
          BY <4>1, <4>3 DEF WithErrors, ExportReading
        <5>. QED
          BY <5>1, <5>2 DEF Drained
      <4>. QED
        BY <4>1, <4>4, <4>5, <4>6
    <3>4. export' = Drained(f, l)
      BY <2>7, <3>1, <3>2, <3>6
    <3>. QED
      BY <3>3, <3>4
  <2>5. export' \in ExportReading /\ Shared(export') /\ export'.ids = export.ids
    <3>1. \/ export' = Drained([export EXCEPT !.images = Append(export.images, id)], l)
          \/ \E why \in {"failed", "not found"} :
               export' = Drained([export EXCEPT !.errors =
                           Append(export.errors, [id |-> id, why |-> why])], l)
      BY <2>1, <2>2, Zenon
    <3>. QED
      BY <2>3, <2>7, <3>1, Zenon
  <2>6. export'.step = "reading" /\ export.ids # <<>>
    BY <2>4, <2>5 DEF ExportReading, ExportInv
  <2>. QED
    BY <2>0, <2>5, <2>6 DEF ExportInv, Shared, AtLane
<1>8. CASE RouteAnswers
  <2>0. ExportAccountsForAll' /\ picked' = picked
    BY <1>8 DEF RouteAnswers, ExportInv, ExportAccountsForAll
  <2>1. export \in ExportReading /\ Shared(export)
    BY <1>8, StepTells DEF ExportInv, RouteAnswers
  <2>2. AtLane(export) = {} /\ ToSet(export.queue) = {}
    <3>1. \A l \in DOMAIN export.reading : export.reading[l] = <<>>
      BY <1>8 DEF RouteAnswers
    <3>2. export.queue = <<>>
      BY <2>1, <3>1 DEF Shared
    <3>3. ToSet(export.queue) = {}
      BY <3>2 DEF ToSet
    <3>4. \A x \in Exportable : <<x>> # <<>>
      OBVIOUS
    <3>. QED
      BY <3>1, <3>3, <3>4 DEF AtLane
  <2>3. Complete(export)
    BY <2>1, <2>2 DEF Shared, Complete
  <2>4. /\ export'.step = "answered" /\ export'.ids = export.ids /\ export'.images = export.images
        /\ export'.errors = export.errors
    BY <1>8 DEF RouteAnswers
  <2>5. export' \in ExportAnswered
    BY <1>8, <2>1 DEF RouteAnswers, ExportReading, ExportAnswered
  <2>6. Complete(export')
    BY <2>3, <2>4 DEF Complete
  <2>7. Complete(export)'
    BY <2>6 DEF Complete
  <2>. QED
    BY <2>0, <2>4, <2>5, <2>7 DEF ExportInv
<1>9. CASE LeavesTheCatalog
  BY <1>1, <1>9 DEF LeavesTheCatalog, ExportInv
<1>10. CASE UNCHANGED exportVars
  BY <1>1, <1>10 DEF exportVars, ExportInv
<1>. QED
  BY <1>2, <1>3, <1>4, <1>5, <1>6, <1>7, <1>8, <1>9, <1>10 DEF ExportNext

-----------------------------------------------------------------------------
(* The viewer.                                                             *)

PanelRec == [open : BOOLEAN, of : Rows \cup {Nobody}, asked : SUBSET Rows]
ViewerRec == [shown : Rows, id : Rows, playing : BOOLEAN, primed : BOOLEAN,
              primedFor : Rows \cup {Nobody}, deleting : BOOLEAN,
              panel : [Panels -> PanelRec], draft : BOOLEAN, saving : Rows \cup {Nobody},
              saveStep : {"none", "create", "read"}]
RemovingRec == [victim : Rows, neighbour : Rows \cup {Nobody}, live : BOOLEAN]

\* A primed delete is of the image on screen, and so are the details.
Tidy(v) ==
    /\ v.primed => v.primedFor = v.shown
    /\ v.panel["details"].of \in {Nobody, v.shown}

\* The image on screen is the one that the list and the open slot give.
Placed(v, items, at) == IsMounted(items, at) /\ v.shown = items[Index(v, items, at)]

ViewerInv ==
    /\ gallery \in Seq(Rows) /\ openAt \in Nat /\ autoPlay \in BOOLEAN
    /\ viewer \in ViewerRec \cup {Away}
    /\ viewer # Away => Tidy(viewer) /\ Placed(viewer, gallery, openAt)
    /\ removing \subseteq RemovingRec
    /\ \A r \in removing : r.live => viewer # Away

\* A viewer is on screen or away.
LEMMA MountedOrAway ==
  ASSUME NEW v \in ViewerRec \cup {Away}
  PROVE  /\ v.shown # Nobody <=> v # Away
         /\ v # Away => v \in ViewerRec
         /\ v \in ViewerRec => v # Away /\ v.shown # Nobody
<1>1. CASE v \in ViewerRec
  <2>1. v.shown \in Rows
    BY <1>1 DEF ViewerRec
  <2>2. v.shown # Nobody
    BY <2>1, ViewerAssumption DEF Rows, Nobody
  <2>3. Away.shown = Nobody
    BY DEF Away
  <2>. QED
    BY <1>1, <2>2, <2>3
<1>2. CASE v \notin ViewerRec
  <2>1. v = Away
    BY <1>2
  <2>. QED
    BY <1>2, <2>1 DEF Away
<1>. QED
  BY <1>1, <1>2

\* The least number of a set of numbers.
LEMMA LeastIsThere ==
  ASSUME NEW S \in SUBSET Nat, S # {}
  PROVE  Min(S) \in S /\ \A y \in S : Min(S) =< y
<1>1. IsWellFoundedOn(OpToRel(<, Nat), Nat)
  BY NatLessThanWellFounded
<1>2. PICK m \in S : \A y \in S : ~ (<<y, m>> \in OpToRel(<, Nat))
  BY <1>1, WFMin
<1>3. ASSUME NEW y \in S
      PROVE  m =< y
  <2>1. <<y, m>> \in Nat \X Nat
    OBVIOUS
  <2>. QED
    BY <1>2, <2>1 DEF OpToRel
<1>. QED
  BY <1>3 DEF Min

\* Where an image of the list is.
LEMMA FoundInList ==
  ASSUME NEW items \in Seq(Rows), NEW img \in ToSet(items)
  PROVE  IndexOf(items, img) \in 1..Len(items) /\ items[IndexOf(items, img)] = img
<1>1. PICK S : S = {i \in DOMAIN items : items[i] = img}
  OBVIOUS
<1>2. S \in SUBSET Nat /\ S # {} /\ S \subseteq 1..Len(items)
  <2>1. DOMAIN items = 1..Len(items) /\ Len(items) \in Nat
    OBVIOUS
  <2>. QED
    BY <1>1, <2>1 DEF ToSet
<1>3. Min(S) \in S
  BY <1>2, LeastIsThere
<1>. QED
  BY <1>1, <1>2, <1>3 DEF IndexOf

\* The open slot of a mounted list is in it, and so is the row shown.
LEMMA IndexIsInList ==
  ASSUME NEW items \in Seq(Rows), NEW at \in Nat, IsMounted(items, at), NEW v
  PROVE  /\ at \in 1..Len(items) /\ Len(items) \in Nat
         /\ Index(v, items, at) \in 1..Len(items)
         /\ items[Index(v, items, at)] \in Rows
         /\ v.id \in ToSet(items) => items[Index(v, items, at)] = v.id
<1>1. at \in 1..Len(items) /\ Len(items) \in Nat
  BY DEF IsMounted, Nobody
<1>2. CASE v.id \in ToSet(items)
  <2>1. Index(v, items, at) = IndexOf(items, v.id)
    BY <1>2 DEF Index
  <2>. QED
    BY <1>1, <1>2, <2>1, FoundInList
<1>3. CASE v.id \notin ToSet(items)
  <2>1. Index(v, items, at) = Min({at, Len(items)})
    BY <1>3 DEF Index
  <2>2. {at, Len(items)} \in SUBSET Nat /\ {at, Len(items)} # {}
    BY <1>1
  <2>3. Min({at, Len(items)}) \in {at, Len(items)}
    BY <2>2, LeastIsThere
  <2>. QED
    BY <1>1, <1>3, <2>1, <2>3
<1>. QED
  BY <1>2, <1>3

\* What the panels ask for when another image comes.
LEMMA AskedIsTyped ==
  ASSUME NEW p \in PanelRec, NEW img \in Rows
  PROVE  Asked(p, img) \in PanelRec /\ Asked(p, img).of = Nobody
BY DEF PanelRec, Asked

\* Another image comes on screen.
LEMMA TurnedIsTidy ==
  ASSUME NEW v \in ViewerRec, NEW img \in Rows
  PROVE  /\ Turned(v, img) \in ViewerRec /\ Tidy(Turned(v, img))
         /\ Turned(v, img).shown = img /\ Turned(v, img).id = v.id
<1>1. PICK ps : ps = [p \in Panels |-> Asked(v.panel[p], img)]
  OBVIOUS
<1>2. \A p \in Panels : v.panel[p] \in PanelRec
  BY DEF ViewerRec
<1>3. ps \in [Panels -> PanelRec] /\ \A p \in Panels : ps[p].of = Nobody
  BY <1>1, <1>2, AskedIsTyped
<1>4. PICK w : w = [v EXCEPT !.shown = img, !.primed = FALSE, !.draft = FALSE, !.panel = ps]
  OBVIOUS
<1>5. w \in ViewerRec /\ w.shown = img /\ w.id = v.id /\ w.primed = FALSE /\ w.panel = ps
  BY <1>3, <1>4 DEF ViewerRec
<1>6. Turned(v, img) = w
  BY <1>1, <1>4 DEF Turned
<1>7. Tidy(w)
  BY <1>3, <1>5 DEF Tidy, Panels
<1>. QED
  BY <1>5, <1>6, <1>7

\* A viewer that opens.
LEMMA FreshIsTidy ==
  ASSUME NEW items \in Seq(Rows), NEW at \in Nat, IsMounted(items, at), autoPlay \in BOOLEAN
  PROVE  /\ FreshViewer(items, at) \in ViewerRec /\ Tidy(FreshViewer(items, at))
         /\ Placed(FreshViewer(items, at), items, at)
<1>1. at \in 1..Len(items) /\ items[at] \in Rows /\ items[at] \in ToSet(items)
  <2>1. at \in 1..Len(items)
    BY IndexIsInList
  <2>. QED
    BY <2>1 DEF ToSet
<1>2. PICK ps : ps = [p \in Panels |-> Panel]
  OBVIOUS
<1>3. ps \in [Panels -> PanelRec] /\ ps["details"].of = Nobody
  BY <1>2 DEF PanelRec, Panel, Panels
<1>4. PICK w : w = FreshViewer(items, at)
  OBVIOUS
<1>5. /\ w.shown = items[at] /\ w.id = items[at] /\ w.primed = FALSE /\ w.panel = ps
      /\ w \in ViewerRec
  BY <1>1, <1>2, <1>3, <1>4 DEF FreshViewer, ViewerRec
<1>6. Tidy(w)
  BY <1>3, <1>5 DEF Tidy
<1>7. items[Index(w, items, at)] = items[at]
  BY <1>1, <1>5, IndexIsInList
<1>. QED
  BY <1>4, <1>5, <1>6, <1>7 DEF Placed

\* Render keeps the invariant, sends no delete, and keeps the image of a
\* viewer that tracks it while it is in the list.
LEMMA RenderKeeps ==
  ASSUME autoPlay' \in BOOLEAN, autoPlay \in BOOLEAN,
         NEW v \in ViewerRec \cup {Away}, v # Away => Tidy(v),
         NEW items \in Seq(Rows), NEW at \in Nat, NEW rs \in SUBSET RemovingRec,
         RenderWith(v, items, at, rs)
  PROVE  /\ ViewerInv'
         /\ \A r \in removing' : r.live => r \in rs
         /\ viewer' # Away => removing' = rs
         /\ v # Away /\ viewer' # Away /\ v.id = v.shown
              => viewer'.shown = v.shown \/ v.shown \notin ToSet(items)
<1>1. gallery' = items /\ openAt' = at
  BY DEF RenderWith
<1>2. \A r \in rs : [r EXCEPT !.live = @ /\ viewer' # Away] \in RemovingRec
  BY DEF RemovingRec
<1>3. /\ removing' \subseteq RemovingRec
      /\ \A r \in removing' : r.live => viewer' # Away /\ r \in rs
      /\ viewer' # Away => removing' = rs
  <2>1. removing' = {[r EXCEPT !.live = @ /\ viewer' # Away] : r \in rs}
    BY DEF RenderWith
  <2>2. ASSUME viewer' # Away, NEW r \in rs
        PROVE  [r EXCEPT !.live = @ /\ viewer' # Away] = r
    BY <2>2 DEF RemovingRec
  <2>3. ASSUME viewer' = Away, NEW r \in rs
        PROVE  ~[r EXCEPT !.live = @ /\ viewer' # Away].live
    BY <2>3 DEF RemovingRec
  <2>. QED
    BY <1>2, <2>1, <2>2, <2>3
<1>4. CASE ~IsMounted(items, at)
  <2>1. viewer' = Away
    BY <1>4 DEF RenderWith
  <2>. QED
    BY <1>1, <1>3, <2>1 DEF ViewerInv
<1>5. CASE IsMounted(items, at) /\ v = Away
  <2>1. viewer' = FreshViewer(items, at)
    BY <1>5 DEF RenderWith
  <2>2. viewer' \in ViewerRec /\ Tidy(viewer') /\ Placed(viewer', items, at)
    BY <1>5, <2>1, FreshIsTidy
  <2>. QED
    BY <1>1, <1>3, <1>5, <2>2 DEF ViewerInv, Tidy, Placed, Index
<1>6. CASE IsMounted(items, at) /\ v # Away
  <2>0. v \in ViewerRec /\ Tidy(v)
    BY <1>6
  <2>1. PICK img \in Rows : img = items[Index(v, items, at)]
    BY <1>6, IndexIsInList
  <2>2. viewer' = IF img = v.shown THEN v ELSE Turned(v, img)
    BY <1>6, <2>1 DEF RenderWith
  <2>3. viewer' \in ViewerRec /\ Tidy(viewer') /\ viewer'.shown = img /\ viewer'.id = v.id
    BY <2>0, <2>2, TurnedIsTidy
  <2>4. Placed(viewer', items, at)
    BY <1>6, <2>1, <2>3 DEF Placed, Index
  <2>5. v.id \in ToSet(items) => img = v.id
    BY <1>6, <2>1, IndexIsInList
  <2>6. ViewerInv'
    BY <1>1, <1>3, <2>3, <2>4 DEF ViewerInv, Tidy, Placed, Index
  <2>. QED
    BY <1>3, <2>3, <2>5, <2>6
<1>. QED
  BY <1>4, <1>5, <1>6

\* A step that leaves the list and the image alone.
LEMMA StaysPlaced ==
  ASSUME ViewerInv, Mounted, gallery' = gallery, openAt' = openAt, autoPlay' = autoPlay,
         NEW w \in ViewerRec, viewer' = w, w.shown = viewer.shown, w.id = viewer.id, Tidy(w),
         removing' \subseteq RemovingRec
  PROVE  ViewerInv'
<1>1. viewer \in ViewerRec /\ viewer # Away /\ w # Away /\ Placed(viewer, gallery, openAt)
  BY MountedOrAway DEF ViewerInv, Mounted
<1>2. Placed(w, gallery, openAt)
  BY <1>1 DEF Placed, Index
<1>. QED
  BY <1>1, <1>2 DEF ViewerInv, Tidy, Placed, Index

\* The image is kept, and a delete is of the image primed, in a step.
ImageKept ==
    (Mounted /\ Mounted' /\ gallery' # gallery /\ removing' = removing
       /\ viewer.id = viewer.shown)
      => viewer.shown \in {viewer'.shown} \cup (Rows \ ToSet(gallery'))
PrimedSent == \A r \in removing' \ removing : r.live => r.victim = viewer.primedFor
ViewerGood == ViewerInv' /\ ImageKept /\ PrimedSent

\* A render of the viewer as it is over another list, or of another viewer
\* over the list as it is.
LEMMA RenderIsGood ==
  ASSUME ViewerInv, autoPlay' \in BOOLEAN,
         NEW v \in ViewerRec \cup {Away}, v # Away => Tidy(v),
         NEW items \in Seq(Rows), NEW at \in Nat, Render(v, items, at),
         items = gallery \/ v = viewer
  PROVE  ViewerGood
<1>1. removing \in SUBSET RemovingRec /\ autoPlay \in BOOLEAN /\ gallery' = items
  BY DEF ViewerInv, Render, RenderWith
<1>2. RenderWith(v, items, at, removing)
  BY DEF Render
<1>3. /\ ViewerInv'
      /\ \A r \in removing' : r.live => r \in removing
      /\ v # Away /\ viewer' # Away /\ v.id = v.shown
           => viewer'.shown = v.shown \/ v.shown \notin ToSet(items)
  BY <1>1, <1>2, RenderKeeps
<1>4. PrimedSent
  BY <1>3 DEF PrimedSent
<1>5. ImageKept
  <2>. SUFFICES ASSUME Mounted, Mounted', gallery' # gallery, viewer.id = viewer.shown
                PROVE  viewer.shown \in {viewer'.shown} \cup (Rows \ ToSet(gallery'))
    BY DEF ImageKept
  <2>1. v = viewer
    BY <1>1
  <2>2. viewer # Away /\ viewer \in ViewerRec /\ viewer' # Away
    <3>1. viewer \in ViewerRec \cup {Away} /\ viewer' \in ViewerRec \cup {Away}
      BY <1>3 DEF ViewerInv
    <3>2. viewer.shown # Nobody /\ viewer'.shown # Nobody
      BY DEF Mounted
    <3>. QED
      BY <3>1, <3>2, MountedOrAway
  <2>3. viewer.shown \in Rows
    BY <2>2 DEF ViewerRec
  <2>. QED
    BY <1>1, <1>3, <2>1, <2>2, <2>3
<1>. QED
  BY <1>3, <1>4, <1>5 DEF ViewerGood

\* A step that leaves the list, and sends no delete, is good when the
\* invariant is kept.
LEMMA QuietIsGood ==
  ASSUME ViewerInv', gallery' = gallery, removing' \subseteq removing
  PROVE  ViewerGood
BY DEF ViewerGood, ImageKept, PrimedSent

\* A list without one of its rows is a list of rows.
LEMMA LessOneIsAList ==
  ASSUME NEW items \in Seq(Rows), NEW img
  PROVE  LessOne(items, img) \in Seq(Rows)
<1>1. CASE img \in ToSet(items)
  <2>1. PICK i \in 1..Len(items) : i = IndexOf(items, img)
    BY <1>1, FoundInList
  <2>2. RemoveAt(items, i) \in Seq(Rows)
    BY OneRemoved
  <2>. QED
    BY <1>1, <2>1, <2>2 DEF LessOne
<1>2. CASE img \notin ToSet(items)
  BY <1>2 DEF LessOne
<1>. QED
  BY <1>1, <1>2

\* What a mounted viewer is.
LEMMA WhenMounted ==
  ASSUME ViewerInv, Mounted
  PROVE  /\ viewer \in ViewerRec /\ Tidy(viewer) /\ IsMounted(gallery, openAt)
         /\ viewer.shown = gallery[Here] /\ Here \in 1..Len(gallery) /\ Len(gallery) \in Nat
         /\ 1 \in 1..Len(gallery) /\ Len(gallery) \in 1..Len(gallery)
<1>1. viewer \in ViewerRec \cup {Away} /\ viewer.shown # Nobody
  BY DEF ViewerInv, Mounted
<1>2. viewer \in ViewerRec /\ viewer # Away
  BY <1>1, MountedOrAway
<1>3. Tidy(viewer) /\ Placed(viewer, gallery, openAt) /\ gallery \in Seq(Rows) /\ openAt \in Nat
  BY <1>2 DEF ViewerInv
<1>4. IsMounted(gallery, openAt) /\ viewer.shown = gallery[Here]
  BY <1>3 DEF Placed, Here
<1>5. Here \in 1..Len(gallery) /\ Len(gallery) \in Nat
  BY <1>3, <1>4, IndexIsInList DEF Here
<1>6. 1 \in 1..Len(gallery) /\ Len(gallery) \in 1..Len(gallery)
  BY <1>5
<1>. QED
  BY <1>2, <1>3, <1>4, <1>5, <1>6

\* Showing a row of the list, and rendering the viewer again.
LEMMA ShowIsGood ==
  ASSUME ViewerInv, Mounted, autoPlay' \in BOOLEAN, NEW i \in 1..Len(gallery), Show(i)
  PROVE  ViewerGood
<1>1. PICK v : v = [viewer EXCEPT !.id = gallery[i]]
  OBVIOUS
<1>2. gallery \in Seq(Rows) /\ gallery[i] \in Rows /\ openAt \in Nat
  BY DEF ViewerInv
<1>3. viewer \in ViewerRec /\ Tidy(viewer)
  BY WhenMounted
<1>4. /\ v \in ViewerRec /\ v.shown = viewer.shown /\ v.primed = viewer.primed
      /\ v.primedFor = viewer.primedFor /\ v.panel = viewer.panel
  BY <1>1, <1>2, <1>3 DEF ViewerRec
<1>5. Tidy(v)
  BY <1>3, <1>4 DEF Tidy
<1>6. Render(v, gallery, openAt)
  BY <1>1 DEF Show, RenderViewer
<1>. QED
  BY <1>2, <1>4, <1>5, <1>6, RenderIsGood

\* A render of the viewer as it was.
LEMMA AgainIsGood ==
  ASSUME ViewerInv, autoPlay' \in BOOLEAN, NEW v \in ViewerRec, Tidy(v), RenderViewer(v)
  PROVE  ViewerGood
<1>1. gallery \in Seq(Rows) /\ openAt \in Nat /\ Render(v, gallery, openAt)
  BY DEF ViewerInv, RenderViewer
<1>. QED
  BY <1>1, RenderIsGood

\* go(1).
LEMMA ForwardIsGood ==
  ASSUME ViewerInv, Mounted, autoPlay' \in BOOLEAN, Forward
  PROVE  ViewerGood
<1>1. viewer \in ViewerRec /\ Tidy(viewer) /\ Here \in 1..Len(gallery) /\ Len(gallery) \in Nat
      /\ 1 \in 1..Len(gallery)
  BY WhenMounted
<1>2. ASSUME NEW i \in DOMAIN gallery, Show(i)
      PROVE  ViewerGood
  <2>1. i \in 1..Len(gallery)
    BY DEF ViewerInv
  <2>. QED
    BY <1>2, <2>1, ShowIsGood
<1>3. CASE Here < Len(gallery) /\ Show(Here + 1)
  <2>1. PICK i \in 1..Len(gallery) : i = Here + 1
    BY <1>1, <1>3
  <2>. QED
    BY <1>3, <2>1, ShowIsGood
<1>4. CASE RenderViewer(viewer)
  BY <1>1, <1>4, AgainIsGood
<1>5. CASE Show(1)
  BY <1>1, <1>5, ShowIsGood
<1>6. CASE RenderViewer([viewer EXCEPT !.playing = FALSE])
  <2>1. PICK v : v = [viewer EXCEPT !.playing = FALSE]
    OBVIOUS
  <2>2. /\ v \in ViewerRec /\ v.shown = viewer.shown /\ v.primed = viewer.primed
        /\ v.primedFor = viewer.primedFor /\ v.panel = viewer.panel
    BY <1>1, <2>1 DEF ViewerRec
  <2>3. Tidy(v)
    BY <1>1, <2>2 DEF Tidy
  <2>. QED
    BY <1>6, <2>1, <2>2, <2>3, AgainIsGood
<1>. QED
  BY <1>2, <1>3, <1>4, <1>5, <1>6 DEF Forward

\* The first and the last row, and the film strip, are in the list.
LEMMA StripIsInList ==
  ASSUME ViewerInv, Mounted
  PROVE  StripWindow \cup {1, Len(gallery)} \subseteq 1..Len(gallery)
<1>1. Here \in 1..Len(gallery) /\ Len(gallery) \in Nat /\ 1 \in 1..Len(gallery)
  BY WhenMounted
<1>2. STRIP_HALF \in Nat
  BY ViewerAssumption
<1>3. Max({1, Here - STRIP_HALF}) \in Int /\ Max({1, Here - STRIP_HALF}) >= 1
  <2>1. PICK b \in Int : b = Here - STRIP_HALF
    BY <1>1, <1>2
  <2>2. \E x \in {1, b} : \A y \in {1, b} : x >= y
    <3>1. 1 >= b \/ b >= 1
      BY <2>1
    <3>. QED
      BY <3>1
  <2>3. Max({1, b}) \in {1, b} /\ Max({1, b}) >= 1
    BY <2>2 DEF Max
  <2>. QED
    BY <2>1, <2>3
<1>4. Min({Len(gallery), Here + STRIP_HALF - 1}) \in Int
      /\ Min({Len(gallery), Here + STRIP_HALF - 1}) =< Len(gallery)
  <2>1. PICK a \in Int : a = Len(gallery)
    BY <1>1
  <2>2. PICK b \in Int : b = Here + STRIP_HALF - 1
    BY <1>1, <1>2
  <2>3. \E x \in {a, b} : \A y \in {a, b} : x =< y
    <3>1. a =< b \/ b =< a
      OBVIOUS
    <3>. QED
      BY <3>1
  <2>4. Min({a, b}) \in {a, b} /\ Min({a, b}) =< a
    BY <2>3 DEF Min
  <2>. QED
    BY <2>1, <2>2, <2>4
<1>5. PICK m \in Int : m = Max({1, Here - STRIP_HALF}) /\ m >= 1
  BY <1>3
<1>6. PICK n \in Int : n = Min({Len(gallery), Here + STRIP_HALF - 1}) /\ n =< Len(gallery)
  BY <1>4
<1>7. StripWindow = m..n
  BY <1>5, <1>6 DEF StripWindow
<1>8. m..n \subseteq 1..Len(gallery)
  BY <1>1, <1>5, <1>6
<1>. QED
  BY <1>1, <1>7, <1>8

\* Opening, closing and moving.
LEMMA MovingIsGood ==
  ASSUME ViewerInv,
         \/ OpenCard \/ ConsumeView \/ Close \/ FindSimilarHere \/ ToggleFullscreen
         \/ GoForward \/ GoBack \/ Tick \/ Jump \/ PlayPause
  PROVE  ViewerGood
<1>0. /\ gallery \in Seq(Rows) /\ openAt \in Nat /\ autoPlay \in BOOLEAN
      /\ viewer \in ViewerRec \cup {Away} /\ removing \subseteq RemovingRec
      /\ viewer # Away => Tidy(viewer)
  BY DEF ViewerInv
<1>1. CASE OpenCard
  <2>1. PICK at \in DOMAIN gallery, auto \in BOOLEAN :
          /\ autoPlay' = auto /\ gallery' = gallery /\ openAt' = at
          /\ viewer' = [FreshViewer(gallery, at) EXCEPT !.playing = auto]
    BY <1>1 DEF OpenCard
  <2>2. at \in Nat /\ IsMounted(gallery, at)
    BY <1>0 DEF IsMounted, Nobody
  <2>3. PICK w : w = FreshViewer(gallery, at)
    OBVIOUS
  <2>4. w \in ViewerRec /\ Tidy(w) /\ Placed(w, gallery, at)
    BY <1>0, <2>2, <2>3, FreshIsTidy
  <2>5. PICK v : v = [w EXCEPT !.playing = auto]
    OBVIOUS
  <2>6. /\ v \in ViewerRec /\ v.shown = w.shown /\ v.primed = w.primed /\ v.id = w.id
        /\ v.primedFor = w.primedFor /\ v.panel = w.panel
    BY <2>4, <2>5 DEF ViewerRec
  <2>7. Tidy(v) /\ Placed(v, gallery, at) /\ viewer' = v /\ v # Away
    <3>1. v # Away
      BY <2>6, MountedOrAway
    <3>. QED
      BY <2>1, <2>3, <2>4, <2>5, <2>6, <3>1 DEF Tidy, Placed, Index
  <2>8. removing' = removing
    BY <1>1 DEF OpenCard
  <2>9. ViewerInv'
    BY <1>0, <2>1, <2>2, <2>6, <2>7, <2>8 DEF ViewerInv, Tidy, Placed, Index
  <2>. QED
    BY <2>1, <2>8, <2>9, QuietIsGood
<1>2. CASE ConsumeView
  <2>1. CASE pendingView \in ToSet(gallery)
    <3>1. autoPlay' = FALSE
          /\ Render(IF Mounted THEN viewer ELSE Away, gallery, IndexOf(gallery, pendingView))
      BY <1>2, <2>1 DEF ConsumeView
    <3>2. (IF Mounted THEN viewer ELSE Away) = viewer
      BY <1>0, MountedOrAway DEF Mounted
    <3>3. PICK at \in Nat : at = IndexOf(gallery, pendingView)
      BY <1>0, <2>1, FoundInList
    <3>4. Render(viewer, gallery, at)
      BY <3>1, <3>2, <3>3
    <3>. QED
      BY <1>0, <3>1, <3>4, RenderIsGood
  <2>2. CASE pendingView \notin ToSet(gallery)
    <3>1. UNCHANGED <<gallery, openAt, autoPlay, viewer, removing>>
      BY <1>2, <2>2 DEF ConsumeView
    <3>2. ViewerInv'
      BY <3>1 DEF ViewerInv, Placed, Tidy, Index
    <3>. QED
      BY <3>1, <3>2, QuietIsGood
  <2>. QED
    BY <2>1, <2>2
<1>3. CASE Close
  <2>1. autoPlay' = autoPlay
    BY <1>3 DEF Close, PageKeeps
  <2>2. CASE CloseViewer
    <3>1. Render(Away, gallery, Nobody) /\ Nobody \in Nat
      BY <2>2 DEF CloseViewer, Nobody
    <3>. QED
      BY <1>0, <2>1, <3>1, RenderIsGood
  <2>3. CASE UNCHANGED <<gallery, openAt, viewer, removing>>
    <3>1. ViewerInv'
      BY <2>1, <2>3 DEF ViewerInv, Placed, Tidy, Index
    <3>. QED
      BY <2>3, <3>1, QuietIsGood
  <2>. QED
    BY <1>3, <2>2, <2>3 DEF Close
<1>4. CASE FindSimilarHere
  <2>1. autoPlay' = autoPlay /\ Render(Away, gallery, Nobody) /\ Nobody \in Nat
    BY <1>4 DEF FindSimilarHere, CloseViewer, Nobody
  <2>. QED
    BY <1>0, <2>1, RenderIsGood
<1>5. CASE ToggleFullscreen
  <2>1. UNCHANGED <<gallery, openAt, autoPlay, viewer, removing>>
    BY <1>5 DEF ToggleFullscreen, PageKeeps
  <2>2. ViewerInv'
    BY <2>1 DEF ViewerInv, Placed, Tidy, Index
  <2>. QED
    BY <2>1, <2>2, QuietIsGood
<1>6. CASE GoForward
  BY <1>0, <1>6, ForwardIsGood DEF GoForward
<1>7. CASE GoBack
  <2>1. PICK i : i = IF Here > 1 THEN Here - 1 ELSE IF slideshow.loop THEN Len(gallery) ELSE 1
    OBVIOUS
  <2>2. Mounted /\ Show(i) /\ autoPlay' = autoPlay
    BY <1>7, <2>1 DEF GoBack, Back, PageKeeps
  <2>3. i \in 1..Len(gallery)
    BY <2>1, <2>2, WhenMounted
  <2>. QED
    BY <1>0, <2>2, <2>3, ShowIsGood
<1>8. CASE Tick
  BY <1>0, <1>8, ForwardIsGood DEF Tick
<1>9. CASE Jump
  <2>1. Mounted /\ autoPlay' = autoPlay
    BY <1>9 DEF Jump, PageKeeps
  <2>2. PICK i \in StripWindow \cup {1, Len(gallery)} : Show(i)
    BY <1>9 DEF Jump
  <2>3. i \in 1..Len(gallery)
    BY <2>1, <2>2, StripIsInList
  <2>. QED
    BY <1>0, <2>1, <2>2, <2>3, ShowIsGood
<1>10. CASE PlayPause
  <2>1. Mounted /\ autoPlay' = autoPlay
    BY <1>10 DEF PlayPause, PageKeeps
  <2>2. viewer \in ViewerRec /\ Tidy(viewer)
    BY <2>1, WhenMounted
  <2>3. PICK v : v = [viewer EXCEPT !.playing = ~@]
    OBVIOUS
  <2>4. /\ v \in ViewerRec /\ v.shown = viewer.shown /\ v.primed = viewer.primed
        /\ v.primedFor = viewer.primedFor /\ v.panel = viewer.panel
    BY <2>2, <2>3 DEF ViewerRec
  <2>5. Tidy(v) /\ RenderViewer(v)
    BY <1>10, <2>2, <2>3, <2>4 DEF Tidy, PlayPause
  <2>. QED
    BY <1>0, <2>1, <2>4, <2>5, AgainIsGood
<1>. QED
  BY <1>1, <1>2, <1>3, <1>4, <1>5, <1>6, <1>7, <1>8, <1>9, <1>10

\* The page under the viewer.
LEMMA ListStepIsGood ==
  ASSUME ViewerInv,
         Autoload \/ AskMore \/ PageArrives \/ ListArrives \/ PageCallFails \/ RowLeaves
  PROVE  ViewerGood
<1>0. /\ gallery \in Seq(Rows) /\ openAt \in Nat /\ autoPlay \in BOOLEAN
      /\ viewer \in ViewerRec \cup {Away}
      /\ viewer # Away => Tidy(viewer)
  BY DEF ViewerInv
<1>1. ASSUME UNCHANGED <<gallery, openAt, autoPlay, viewer, removing>>
      PROVE  ViewerGood
  <2>1. ViewerInv'
    BY <1>1 DEF ViewerInv, Placed, Tidy, Index
  <2>. QED
    BY <1>1, <2>1, QuietIsGood
<1>2. CASE Autoload \/ AskMore \/ PageCallFails
  BY <1>1, <1>2 DEF Autoload, AskMore, PageCallFails
<1>3. CASE PageArrives
  <2>1. autoPlay' = autoPlay
    BY <1>3 DEF PageArrives
  <2>2. CASE Missing = {}
    <3>1. Render(viewer, gallery, openAt)
      BY <1>3, <2>2 DEF PageArrives, RenderViewer
    <3>. QED
      BY <1>0, <2>1, <3>1, RenderIsGood
  <2>3. CASE Missing # {}
    <3>1. Missing \in SUBSET Nat /\ Missing \subseteq Rows
      BY ViewerAssumption DEF Missing, Rows
    <3>5. Min(Missing) \in Rows
      BY <2>3, <3>1, LeastIsThere
    <3>2. PICK row \in Rows : row = Min(Missing)
      BY <3>5
    <3>6. Append(gallery, row) \in Seq(Rows)
      BY <1>0, <3>2
    <3>3. PICK items \in Seq(Rows) : items = Append(gallery, row)
      BY <3>6
    <3>4. Render(viewer, items, openAt)
      BY <1>3, <2>3, <3>2, <3>3 DEF PageArrives
    <3>. QED
      BY <1>0, <2>1, <3>4, RenderIsGood
  <2>. QED
    BY <2>2, <2>3
<1>4. CASE ListArrives
  <2>1. PICK items \in Searches : Render(viewer, items, openAt)
    BY <1>4 DEF ListArrives
  <2>2. items \in Seq(Rows) /\ autoPlay' = autoPlay
    BY <1>4, ViewerAssumption DEF ListArrives
  <2>. QED
    BY <1>0, <2>1, <2>2, RenderIsGood
<1>5. CASE RowLeaves
  <2>1. PICK img \in ToSet(gallery) : Render(viewer, LessOne(gallery, img), openAt)
    BY <1>5 DEF RowLeaves
  <2>2. PICK items \in Seq(Rows) : items = LessOne(gallery, img)
    BY <1>0, LessOneIsAList
  <2>3. Render(viewer, items, openAt) /\ autoPlay' = autoPlay
    BY <1>5, <2>1, <2>2 DEF RowLeaves, PageKeeps
  <2>. QED
    BY <1>0, <2>3, RenderIsGood
<1>. QED
  BY <1>2, <1>3, <1>4, <1>5

\* Deleting the image on screen.
LEMMA DeleteStepIsGood ==
  ASSUME ViewerInv,
         PrimeDelete \/ CancelDelete \/ HandleDelete \/ DeleteDone \/ DeleteFails
  PROVE  ViewerGood
<1>0. /\ gallery \in Seq(Rows) /\ openAt \in Nat /\ autoPlay \in BOOLEAN
      /\ viewer \in ViewerRec \cup {Away} /\ removing \subseteq RemovingRec
      /\ viewer # Away => Tidy(viewer)
      /\ \A r \in removing : r.live => viewer # Away
  BY DEF ViewerInv
<1>1. CASE PrimeDelete
  <2>1. Mounted /\ autoPlay' = autoPlay
    BY <1>1 DEF PrimeDelete, PageKeeps
  <2>2. viewer \in ViewerRec /\ Tidy(viewer)
    BY <2>1, WhenMounted
  <2>3. PICK v : v = [viewer EXCEPT !.primed = TRUE, !.primedFor = viewer.shown]
    OBVIOUS
  <2>4. /\ v \in ViewerRec /\ v.shown = viewer.shown /\ v.primedFor = viewer.shown
        /\ v.panel = viewer.panel
    BY <2>2, <2>3 DEF ViewerRec
  <2>5. Tidy(v) /\ RenderViewer(v)
    BY <1>1, <2>2, <2>3, <2>4 DEF Tidy, PrimeDelete
  <2>. QED
    BY <1>0, <2>1, <2>4, <2>5, AgainIsGood
<1>2. CASE CancelDelete
  <2>1. Mounted /\ autoPlay' = autoPlay
    BY <1>2 DEF CancelDelete, PageKeeps
  <2>2. viewer \in ViewerRec /\ Tidy(viewer)
    BY <2>1, WhenMounted
  <2>3. PICK v : v = [viewer EXCEPT !.primed = FALSE]
    OBVIOUS
  <2>4. v \in ViewerRec /\ v.shown = viewer.shown /\ v.primed = FALSE /\ v.panel = viewer.panel
    BY <2>2, <2>3 DEF ViewerRec
  <2>5. Tidy(v) /\ RenderViewer(v)
    BY <1>2, <2>2, <2>3, <2>4 DEF Tidy, CancelDelete
  <2>. QED
    BY <1>0, <2>1, <2>4, <2>5, AgainIsGood
<1>3. CASE HandleDelete
  <2>1. Mounted /\ autoPlay' = autoPlay /\ gallery' = gallery /\ openAt' = openAt /\ viewer.primed
    BY <1>3 DEF HandleDelete, PageKeeps
  <2>2. /\ viewer \in ViewerRec /\ Tidy(viewer) /\ viewer.shown = gallery[Here]
        /\ Here \in 1..Len(gallery) /\ Len(gallery) \in Nat
    BY <2>1, WhenMounted
  <2>3. PICK r : r = [victim |-> gallery[Here], neighbour |-> Neighbour, live |-> TRUE]
    OBVIOUS
  <2>4. r \in RemovingRec /\ r.victim = viewer.primedFor
    <3>1. gallery[Here] \in Rows
      BY <1>0, <2>2
    <3>2. Here < Len(gallery) => gallery[Here + 1] \in Rows
      BY <1>0, <2>2
    <3>3. Here > 1 => gallery[Here - 1] \in Rows
      BY <1>0, <2>2
    <3>4. Neighbour \in Rows \cup {Nobody}
      BY <3>2, <3>3 DEF Neighbour
    <3>. QED
      BY <2>1, <2>2, <2>3, <3>1, <3>4 DEF RemovingRec, Tidy
  <2>5. PICK v : v = [viewer EXCEPT !.deleting = TRUE]
    OBVIOUS
  <2>6. /\ v \in ViewerRec /\ v.shown = viewer.shown /\ v.primed = viewer.primed /\ v.id = viewer.id
        /\ v.primedFor = viewer.primedFor /\ v.panel = viewer.panel
    BY <2>2, <2>5 DEF ViewerRec
  <2>7. Tidy(v) /\ viewer' = v /\ removing' = removing \cup {r}
    BY <1>3, <2>2, <2>3, <2>5, <2>6 DEF Tidy, HandleDelete
  <2>8. ViewerInv'
    BY <1>0, <2>1, <2>4, <2>6, <2>7, StaysPlaced
  <2>. QED
    BY <2>1, <2>4, <2>7, <2>8 DEF ViewerGood, ImageKept, PrimedSent
<1>4. CASE DeleteDone
  <2>1. PICK r \in removing :
          RenderWith(IF ~r.live THEN viewer
                    ELSE [viewer EXCEPT !.deleting = FALSE, !.primed = FALSE,
                            !.id = IF r.neighbour = Nobody THEN @ ELSE r.neighbour],
                    LessOne(gallery, r.victim),
                    IF r.neighbour = Nobody THEN Nobody ELSE openAt,
                    removing \ {r})
    BY <1>4 DEF DeleteDone
  <2>2. autoPlay' = autoPlay
    BY <1>4 DEF DeleteDone, PageKeeps
  <2>3. PICK items \in Seq(Rows) : items = LessOne(gallery, r.victim)
    BY <1>0, LessOneIsAList
  <2>4. PICK at \in Nat : at = IF r.neighbour = Nobody THEN Nobody ELSE openAt
    BY <1>0 DEF Nobody
  <2>5. PICK v : v = IF ~r.live THEN viewer
                     ELSE [viewer EXCEPT !.deleting = FALSE, !.primed = FALSE,
                             !.id = IF r.neighbour = Nobody THEN @ ELSE r.neighbour]
    OBVIOUS
  <2>6. PICK rs \in SUBSET RemovingRec : rs = removing \ {r}
    BY <1>0
  <2>7. RenderWith(v, items, at, rs)
    BY <2>1, <2>3, <2>4, <2>5, <2>6
  <2>8. v \in ViewerRec \cup {Away} /\ (v # Away => Tidy(v))
    <3>1. CASE ~r.live
      BY <1>0, <2>5, <3>1
    <3>2. CASE r.live
      <4>1. viewer \in ViewerRec /\ Tidy(viewer)
        BY <1>0, <3>2
      <4>2. PICK i : i = IF r.neighbour = Nobody THEN viewer.id ELSE r.neighbour
        OBVIOUS
      <4>3. i \in Rows
        <5>1. r.neighbour \in Rows \cup {Nobody}
          BY <1>0 DEF RemovingRec
        <5>2. viewer.id \in Rows
          BY <4>1 DEF ViewerRec
        <5>. QED
          BY <4>2, <5>1, <5>2
      <4>4. v = [viewer EXCEPT !.deleting = FALSE, !.primed = FALSE, !.id = i]
        BY <2>5, <3>2, <4>2
      <4>5. v \in ViewerRec /\ v.shown = viewer.shown /\ v.primed = FALSE /\ v.panel = viewer.panel
        BY <4>1, <4>3, <4>4 DEF ViewerRec
      <4>. QED
        BY <4>1, <4>5 DEF Tidy
    <3>. QED
      BY <3>1, <3>2
  <2>9. /\ ViewerInv'
        /\ \A q \in removing' : q.live => q \in rs
        /\ viewer' # Away => removing' = rs
    BY <1>0, <2>2, <2>7, <2>8, RenderKeeps
  <2>10. PrimedSent
    BY <2>6, <2>9 DEF PrimedSent
  <2>11. ImageKept
    <3>1. ASSUME Mounted', removing' = removing
          PROVE  FALSE
      <4>1. viewer' \in ViewerRec \cup {Away} /\ viewer'.shown # Nobody
        BY <2>9, <3>1 DEF ViewerInv, Mounted
      <4>2. viewer' # Away
        BY <4>1, MountedOrAway
      <4>. QED
        BY <2>6, <2>9, <3>1, <4>2
    <3>. QED
      BY <3>1 DEF ImageKept
  <2>. QED
    BY <2>9, <2>10, <2>11 DEF ViewerGood
<1>5. CASE DeleteFails
  <2>1. PICK r \in removing :
          /\ removing' = removing \ {r}
          /\ viewer' = IF r.live THEN [viewer EXCEPT !.deleting = FALSE] ELSE viewer
    BY <1>5 DEF DeleteFails
  <2>2. UNCHANGED <<gallery, openAt, autoPlay>>
    BY <1>5 DEF DeleteFails, PageKeeps
  <2>3. CASE ~r.live
    <3>1. viewer' = viewer
      BY <2>1, <2>3
    <3>2. ViewerInv'
      BY <2>1, <2>2, <3>1 DEF ViewerInv, Placed, Tidy, Index
    <3>. QED
      BY <2>1, <2>2, <3>2, QuietIsGood
  <2>4. CASE r.live
    <3>1. Mounted
      BY <1>0, <2>4, MountedOrAway DEF Mounted
    <3>2. viewer \in ViewerRec /\ Tidy(viewer)
      BY <3>1, WhenMounted
    <3>3. PICK v : v = [viewer EXCEPT !.deleting = FALSE]
      OBVIOUS
    <3>4. /\ v \in ViewerRec /\ v.shown = viewer.shown /\ v.primed = viewer.primed
          /\ v.id = viewer.id /\ v.primedFor = viewer.primedFor /\ v.panel = viewer.panel
      BY <3>2, <3>3 DEF ViewerRec
    <3>5. Tidy(v) /\ viewer' = v
      BY <2>1, <2>4, <3>2, <3>3, <3>4 DEF Tidy
    <3>6. ViewerInv'
      BY <1>0, <2>1, <2>2, <3>1, <3>4, <3>5, StaysPlaced
    <3>. QED
      BY <2>1, <2>2, <3>6, QuietIsGood
  <2>. QED
    BY <2>3, <2>4
<1>. QED
  BY <1>1, <1>2, <1>3, <1>4, <1>5

\* Notes and details.
LEMMA PanelStepIsGood ==
  ASSUME ViewerInv,
         TogglePanel \/ PanelAnswers \/ TypeNote \/ AddNote \/ NoteStored \/ NoteFails
  PROVE  ViewerGood
<1>0. Mounted /\ UNCHANGED <<gallery, openAt, autoPlay, removing>> /\ removing \subseteq RemovingRec
  BY DEF ViewerInv, TogglePanel, PanelAnswers, TypeNote, AddNote, NoteStored, NoteFails, PageKeeps
<1>1. viewer \in ViewerRec /\ Tidy(viewer)
  BY <1>0, WhenMounted
<1>2. ASSUME NEW v \in ViewerRec, viewer' = v, v.shown = viewer.shown, v.id = viewer.id, Tidy(v)
      PROVE  ViewerGood
  <2>1. ViewerInv'
    BY <1>0, <1>2, StaysPlaced
  <2>. QED
    BY <1>0, <2>1, QuietIsGood
<1>3. ASSUME NEW p \in Panels, NEW q \in PanelRec, viewer' = [viewer EXCEPT !.panel[p] = q],
             p = "details" => q.of \in {Nobody, viewer.shown}
      PROVE  ViewerGood
  <2>1. PICK ps : ps = [viewer.panel EXCEPT ![p] = q]
    OBVIOUS
  <2>2. ps \in [Panels -> PanelRec] /\ ps["details"].of \in {Nobody, viewer.shown}
    <3>1. viewer.panel \in [Panels -> PanelRec] /\ "details" \in Panels
      BY <1>1 DEF ViewerRec, Panels
    <3>2. ps \in [Panels -> PanelRec] /\ (ps["details"] = viewer.panel["details"] \/ (p = "details" /\ ps["details"] = q))
      BY <1>3, <2>1, <3>1
    <3>. QED
      BY <1>1, <1>3, <3>2 DEF Tidy
  <2>3. PICK v : v = [viewer EXCEPT !.panel = ps]
    OBVIOUS
  <2>4. /\ v \in ViewerRec /\ v.shown = viewer.shown /\ v.primed = viewer.primed
        /\ v.id = viewer.id /\ v.primedFor = viewer.primedFor /\ v.panel = ps
    BY <1>1, <2>2, <2>3 DEF ViewerRec
  <2>5. Tidy(v) /\ viewer' = v
    BY <1>1, <1>3, <2>1, <2>2, <2>3, <2>4 DEF Tidy
  <2>. QED
    BY <1>2, <2>4, <2>5
<1>4. CASE TogglePanel
  <2>1. PICK p \in Panels :
          LET q == [viewer.panel[p] EXCEPT !.open = ~@]
          IN  viewer' = [viewer EXCEPT !.panel[p] = IF q.open THEN Asked(q, viewer.shown) ELSE q]
    BY <1>4 DEF TogglePanel
  <2>2. PICK q : q = [viewer.panel[p] EXCEPT !.open = ~@]
    OBVIOUS
  <2>3. viewer.panel[p] \in PanelRec /\ viewer.shown \in Rows
    BY <1>1 DEF ViewerRec
  <2>4. q \in PanelRec /\ q.of = viewer.panel[p].of
    BY <2>2, <2>3 DEF PanelRec
  <2>5. PICK n : n = IF q.open THEN Asked(q, viewer.shown) ELSE q
    OBVIOUS
  <2>6. n \in PanelRec /\ n.of \in {Nobody, viewer.panel[p].of}
    BY <2>3, <2>4, <2>5, AskedIsTyped
  <2>7. viewer' = [viewer EXCEPT !.panel[p] = n]
    BY <2>1, <2>2, <2>5
  <2>8. p = "details" => n.of \in {Nobody, viewer.shown}
    BY <1>1, <2>6 DEF Tidy
  <2>. QED
    BY <1>3, <2>6, <2>7, <2>8
<1>5. CASE PanelAnswers
  <2>7. PICK p \in Panels : \E img \in viewer.panel[p].asked :
          viewer' = [viewer EXCEPT !.panel[p] =
                      [viewer.panel[p] EXCEPT !.asked = @ \ {img},
                         !.of = IF StillWanted(viewer.panel[p], img) THEN img ELSE @]]
    BY <1>5 DEF PanelAnswers
  <2>1. PICK img \in viewer.panel[p].asked :
          viewer' = [viewer EXCEPT !.panel[p] =
                      [viewer.panel[p] EXCEPT !.asked = @ \ {img},
                         !.of = IF StillWanted(viewer.panel[p], img) THEN img ELSE @]]
    BY <2>7
  <2>2. PICK q : q = [viewer.panel[p] EXCEPT !.asked = @ \ {img},
                         !.of = IF StillWanted(viewer.panel[p], img) THEN img ELSE @]
    OBVIOUS
  <2>3. viewer.panel[p] \in PanelRec
    BY <1>1 DEF ViewerRec
  <2>4. img \in Rows
    BY <2>3 DEF PanelRec
  <2>5. q \in PanelRec /\ (q.of = viewer.panel[p].of \/ q.of = viewer.shown)
    BY <2>2, <2>3, <2>4 DEF PanelRec, StillWanted
  <2>6. p = "details" => q.of \in {Nobody, viewer.shown}
    BY <1>1, <2>5 DEF Tidy
  <2>. QED
    BY <1>3, <2>1, <2>2, <2>5, <2>6
<1>6. CASE TypeNote
  <2>1. PICK v : v = [viewer EXCEPT !.draft = TRUE]
    OBVIOUS
  <2>2. /\ v \in ViewerRec /\ v.shown = viewer.shown /\ v.primed = viewer.primed
        /\ v.id = viewer.id /\ v.primedFor = viewer.primedFor /\ v.panel = viewer.panel
    BY <1>1, <2>1 DEF ViewerRec
  <2>3. Tidy(v) /\ viewer' = v
    BY <1>1, <1>6, <2>1, <2>2 DEF Tidy, TypeNote
  <2>. QED
    BY <1>2, <2>2, <2>3
<1>7. CASE AddNote
  <2>1. PICK v : v = [viewer EXCEPT !.saving = viewer.shown, !.saveStep = "create"]
    OBVIOUS
  <2>2. /\ v \in ViewerRec /\ v.shown = viewer.shown /\ v.primed = viewer.primed
        /\ v.id = viewer.id /\ v.primedFor = viewer.primedFor /\ v.panel = viewer.panel
    BY <1>1, <2>1 DEF ViewerRec
  <2>3. Tidy(v) /\ viewer' = v
    BY <1>1, <1>7, <2>1, <2>2 DEF Tidy, AddNote
  <2>. QED
    BY <1>2, <2>2, <2>3
<1>8. CASE NoteFails
  <2>1. PICK v : v = [viewer EXCEPT !.saving = Nobody, !.saveStep = "none"]
    OBVIOUS
  <2>2. /\ v \in ViewerRec /\ v.shown = viewer.shown /\ v.primed = viewer.primed
        /\ v.id = viewer.id /\ v.primedFor = viewer.primedFor /\ v.panel = viewer.panel
    BY <1>1, <2>1 DEF ViewerRec
  <2>3. Tidy(v) /\ viewer' = v
    BY <1>1, <1>8, <2>1, <2>2 DEF Tidy, NoteFails
  <2>. QED
    BY <1>2, <2>2, <2>3
<1>9. CASE NoteStored
  <2>1. CASE viewer.saveStep = "create"
    <3>1. PICK v : v = [viewer EXCEPT !.draft = FALSE, !.saveStep = "read"]
      OBVIOUS
    <3>2. /\ v \in ViewerRec /\ v.shown = viewer.shown /\ v.primed = viewer.primed
          /\ v.id = viewer.id /\ v.primedFor = viewer.primedFor /\ v.panel = viewer.panel
      BY <1>1, <3>1 DEF ViewerRec
    <3>3. Tidy(v) /\ viewer' = v
      BY <1>1, <1>9, <2>1, <3>1, <3>2 DEF Tidy, NoteStored
    <3>. QED
      BY <1>2, <3>2, <3>3
  <2>2. CASE viewer.saveStep # "create"
    <3>1. viewer' = [viewer EXCEPT !.panel["notes"].of = viewer.saving,
                                   !.saving = Nobody, !.saveStep = "none"]
      BY <1>9, <2>2 DEF NoteStored
    <3>2. viewer.panel \in [Panels -> PanelRec] /\ viewer.saving \in Rows \cup {Nobody}
          /\ "notes" \in Panels /\ "details" \in Panels
      BY <1>1 DEF ViewerRec, Panels
    <3>3. PICK q : q = [viewer.panel["notes"] EXCEPT !.of = viewer.saving]
      OBVIOUS
    <3>4. q \in PanelRec
      BY <3>2, <3>3 DEF PanelRec
    <3>5. PICK ps : ps = [viewer.panel EXCEPT !["notes"] = q]
      OBVIOUS
    <3>6. ps \in [Panels -> PanelRec] /\ ps["details"] = viewer.panel["details"]
      BY <3>2, <3>4, <3>5
    <3>7. PICK v : v = [viewer EXCEPT !.panel = ps, !.saving = Nobody, !.saveStep = "none"]
      OBVIOUS
    <3>8. /\ v \in ViewerRec /\ v.shown = viewer.shown /\ v.primed = viewer.primed
          /\ v.id = viewer.id /\ v.primedFor = viewer.primedFor /\ v.panel = ps
      BY <1>1, <3>6, <3>7 DEF ViewerRec
    <3>9. Tidy(v)
      BY <1>1, <3>6, <3>8 DEF Tidy
    <3>10. viewer' = v
      BY <3>1, <3>3, <3>5, <3>7
    <3>. QED
      BY <1>2, <3>8, <3>9, <3>10
  <2>. QED
    BY <2>1, <2>2
<1>. QED
  BY <1>4, <1>5, <1>6, <1>7, <1>8, <1>9

\* Each step keeps the invariant, the image on screen and the primed delete.
LEMMA ViewerMoves == ViewerInv /\ [ViewerNext]_viewerVars => ViewerGood
<1>. SUFFICES ASSUME ViewerInv, [ViewerNext]_viewerVars
              PROVE  ViewerGood
  OBVIOUS
<1>1. CASE UNCHANGED viewerVars
  <2>1. UNCHANGED <<gallery, openAt, autoPlay, viewer, removing>>
    BY <1>1 DEF viewerVars
  <2>2. ViewerInv'
    BY <2>1 DEF ViewerInv, Placed, Tidy, Index
  <2>. QED
    BY <2>1, <2>2, QuietIsGood
<1>2. CASE ViewerNext
  BY <1>2, MovingIsGood, ListStepIsGood, DeleteStepIsGood, PanelStepIsGood DEF ViewerNext
<1>. QED
  BY <1>1, <1>2

\* At first there is no viewer.
LEMMA ViewerStarts == ViewerInit => ViewerInv
<1>. SUFFICES ASSUME ViewerInit
              PROVE  ViewerInv
  OBVIOUS
<1>1. gallery \in Seq(Rows)
  BY ViewerAssumption DEF ViewerInit, Rows
<1>. QED
  BY <1>1 DEF ViewerInit, ViewerInv, Nobody

\* The details on screen are those of the image on screen.
LEMMA DetailsFit == ViewerInv => DetailIsOfShown
<1>. SUFFICES ASSUME ViewerInv, Mounted
              PROVE  viewer.panel["details"].of \in {Nobody, viewer.shown}
  BY DEF DetailIsOfShown
<1>. QED
  BY WhenMounted DEF Tidy

-----------------------------------------------------------------------------
(* Bulk edits.                                                             *)

Card == [rating : Ratings, tags : SUBSET TagNames]
\* A part of the pictures, with a card each.
Shelf == UNION {[s -> Card] : s \in SUBSET Pictures}
OpRec == [kind : {"favorite", "rating", "tags", "move", "delete"}, at : Nat,
          ids : SUBSET Pictures, write : Shelf, queue : SUBSET Pictures,
          sent : SUBSET Pictures, taken : SUBSET Pictures, updated : SUBSET Pictures,
          failed : SUBSET Pictures]
CallRec == [of : Pictures, at : Nat, value : Ratings, taken : BOOLEAN]

CardFields == {"rating", "tags"}
FieldOf(rec, f) == IF f = "rating" THEN rec.rating ELSE rec.tags
OpOn(o, p, f) == o.kind = f /\ p \in o.ids
CallOn(c, p, f) == f = "rating" /\ c.of = p
Taken(o, p) == p \in o.taken \cup o.updated

\* The record of p in the catalog has the value v in the field f.
Holds(p, f, v) == p \in DOMAIN stored => FieldOf(stored[p], f) = v
Settled(p, f) == p \in DOMAIN cards => Holds(p, f, FieldOf(cards[p], f))

\* At most one edit of the field is under way.  Until the catalog takes it
\* the card is right, then the catalog holds what the edit writes.
Clear(p, f) ==
    /\ \A x, y \in ops : OpOn(x, p, f) /\ OpOn(y, p, f) => x = y
    /\ \A x, y \in ratingCalls : CallOn(x, p, f) /\ CallOn(y, p, f) => x = y
    /\ \A x \in ops : \A y \in ratingCalls : ~(OpOn(x, p, f) /\ CallOn(y, p, f))
    /\ Underway(p, f) \/ Settled(p, f)
    /\ \A x \in ops : OpOn(x, p, f) /\ Taken(x, p) => Holds(p, f, FieldOf(x.write[p], f))
    /\ \A x \in ops : OpOn(x, p, f) /\ ~Taken(x, p) => Settled(p, f)
    /\ \A y \in ratingCalls : CallOn(y, p, f) /\ y.taken => Holds(p, f, y.value)
    /\ \A y \in ratingCalls : CallOn(y, p, f) /\ ~y.taken => Settled(p, f)
    /\ \A g \in refetch : \A a \in g.answer : p \in DOMAIN a => Holds(p, f, FieldOf(a[p], f))

\* Each image of a patching edit is at one place.
Parted(o) ==
    /\ o.queue \cup o.sent \cup o.taken \cup o.updated \cup o.failed = o.ids
    /\ o.queue \cap o.sent = {} /\ o.queue \cap o.taken = {} /\ o.queue \cap o.updated = {}
    /\ o.queue \cap o.failed = {} /\ o.sent \cap o.taken = {} /\ o.sent \cap o.updated = {}
    /\ o.sent \cap o.failed = {} /\ o.taken \cap o.updated = {} /\ o.taken \cap o.failed = {}
    /\ o.updated \cap o.failed = {}

OpFits(o) ==
    /\ DOMAIN o.write = o.ids
    /\ Patching(o) => Parted(o)
    /\ o.kind = "delete" => o.updated \cap DOMAIN stored = {}

BulkTyped ==
    /\ stored \in Shelf /\ cards \in Shelf /\ selected \subseteq Pictures /\ clicks \in Nat
    /\ ops \subseteq OpRec /\ ratingCalls \subseteq CallRec
    /\ \A g \in refetch : g.answer \subseteq Shelf

BulkInv ==
    /\ BulkTyped
    /\ \A o \in ops : OpFits(o)
    /\ \A p \in Pictures : \A f \in CardFields : <<p, f>> \notin blurred => Clear(p, f)

-----------------------------------------------------------------------------
(* Cards.                                                                  *)

\* What is on a shelf is a card, of a picture.
LEMMA ShelfIs ==
  ASSUME NEW h \in Shelf
  PROVE  /\ DOMAIN h \subseteq Pictures /\ h = [p \in DOMAIN h |-> h[p]]
         /\ \A p \in DOMAIN h : h[p] \in Card
<1>1. PICK s \in SUBSET Pictures : h \in [s -> Card]
  BY DEF Shelf
<1>. QED
  BY <1>1

\* Cards of some of the pictures are a shelf.
LEMMA IsShelf ==
  ASSUME NEW s \in SUBSET Pictures, NEW h \in [s -> Card]
  PROVE  h \in Shelf
BY DEF Shelf

\* The record that every image starts with is a card.
LEMMA BlankIsACard == Blank \in Card /\ FieldOf(Blank, "rating") = 0
BY BulkAssumption DEF Blank, Card, FieldOf

\* What a request writes, field by field.
LEMMA WrittenFields ==
  ASSUME NEW rec \in Card, NEW v \in Card, NEW k
  PROVE  /\ Written(rec, k, v) \in Card
         /\ \A f \in CardFields : FieldOf(Written(rec, k, v), f)
                                = IF k = f THEN FieldOf(v, f) ELSE FieldOf(rec, f)
<1>1. CASE k = "rating"
  <2>1. PICK w : w = [rec EXCEPT !.rating = v.rating]
    OBVIOUS
  <2>2. w \in Card /\ w.rating = v.rating /\ w.tags = rec.tags
    BY <2>1 DEF Card
  <2>3. Written(rec, k, v) = w
    BY <1>1, <2>1 DEF Written
  <2>. QED
    BY <1>1, <2>2, <2>3 DEF FieldOf, CardFields
<1>2. CASE k = "tags"
  <2>1. PICK w : w = [rec EXCEPT !.tags = v.tags]
    OBVIOUS
  <2>2. w \in Card /\ w.rating = rec.rating /\ w.tags = v.tags
    BY <2>1 DEF Card
  <2>3. Written(rec, k, v) = w
    BY <1>2, <2>1 DEF Written
  <2>. QED
    BY <1>2, <2>2, <2>3 DEF FieldOf, CardFields
<1>3. CASE k \notin {"rating", "tags"}
  <2>1. Written(rec, k, v) = rec
    BY <1>3 DEF Written
  <2>. QED
    BY <1>3, <2>1 DEF CardFields
<1>. QED
  BY <1>1, <1>2, <1>3

\* Cards that leave take nothing else with them.
LEMMA SomeDropped ==
  ASSUME NEW h \in Shelf, NEW s
  PROVE  /\ Drop(h, s) \in Shelf /\ DOMAIN Drop(h, s) = DOMAIN h \ s
         /\ \A q \in DOMAIN h \ s : Drop(h, s)[q] = h[q]
<1>1. DOMAIN h \subseteq Pictures /\ \A q \in DOMAIN h : h[q] \in Card
  BY ShelfIs
<1>2. Drop(h, s) \in [DOMAIN h \ s -> Card] /\ DOMAIN h \ s \in SUBSET Pictures
  BY <1>1 DEF Drop
<1>3. Drop(h, s) \in Shelf
  BY <1>2, IsShelf
<1>. QED
  BY <1>3 DEF Drop

-----------------------------------------------------------------------------
(* Fields that are clear stay so.                                          *)

\* Nothing new comes to the field, and the card changes to what is right.
LEMMA ClearKeeps ==
  ASSUME NEW p, NEW f, Clear(p, f),
         p \in DOMAIN stored' => p \in DOMAIN stored
                                 /\ FieldOf(stored'[p], f) = FieldOf(stored[p], f),
         Settled(p, f)' \/ (p \in DOMAIN cards' => p \in DOMAIN cards
                                 /\ FieldOf(cards'[p], f) = FieldOf(cards[p], f)),
         \A x, y \in ops' : OpOn(x, p, f) /\ OpOn(y, p, f) => x = y,
         \A x \in ops' : OpOn(x, p, f) =>
            \E o \in ops : OpOn(o, p, f) /\ o.write = x.write /\ (Taken(o, p) <=> Taken(x, p)),
         \A y \in ratingCalls' : CallOn(y, p, f) => y \in ratingCalls,
         Underway(p, f) => Underway(p, f)' \/ Settled(p, f)',
         \A g \in refetch' : g \in refetch
            \/ \A a \in g.answer : p \in DOMAIN a => Holds(p, f, FieldOf(a[p], f))'
  PROVE  Clear(p, f)'
<1>1. \A v : Holds(p, f, v) => Holds(p, f, v)'
  BY DEF Holds
<1>2. Settled(p, f) => Settled(p, f)'
  BY DEF Settled, Holds
<1>3. \A x \in ops' : OpOn(x, p, f) /\ Taken(x, p) => Holds(p, f, FieldOf(x.write[p], f))'
  BY <1>1 DEF Clear
<1>4. \A x \in ops' : OpOn(x, p, f) /\ ~Taken(x, p) => Settled(p, f)'
  BY <1>2 DEF Clear
<1>5. \A x \in ops' : \A y \in ratingCalls' : ~(OpOn(x, p, f) /\ CallOn(y, p, f))
  BY DEF Clear
<1>6. \A y \in ratingCalls' : CallOn(y, p, f) /\ y.taken => Holds(p, f, y.value)'
  BY <1>1 DEF Clear
<1>7. \A y \in ratingCalls' : CallOn(y, p, f) /\ ~y.taken => Settled(p, f)'
  BY <1>2 DEF Clear
<1>8. \A g \in refetch' : \A a \in g.answer : p \in DOMAIN a => Holds(p, f, FieldOf(a[p], f))'
  BY <1>1 DEF Clear
<1>9. \A x, y \in ratingCalls' : CallOn(x, p, f) /\ CallOn(y, p, f) => x = y
  BY DEF Clear
<1>10. Underway(p, f)' \/ Settled(p, f)'
  BY <1>2 DEF Clear
<1>. QED
  BY <1>3, <1>4, <1>5, <1>6, <1>7, <1>8, <1>9, <1>10 DEF Clear, OpOn, CallOn, Taken

\* The field has no edit under way any more.
LEMMA ClearAtLast ==
  ASSUME NEW p, NEW f, Settled(p, f)', \A x \in ops' : ~OpOn(x, p, f),
         \A y \in ratingCalls' : ~CallOn(y, p, f),
         \A g \in refetch' : \A a \in g.answer : p \in DOMAIN a => Holds(p, f, FieldOf(a[p], f))'
  PROVE  Clear(p, f)'
BY DEF Clear, OpOn, CallOn, Taken

\* Underway is an edit or a rating that is on the field.
LEMMA UnderwayIs ==
  ASSUME NEW p, NEW f
  PROVE  /\ Underway(p, f) <=> (\E o \in ops : OpOn(o, p, f)) \/ (\E c \in ratingCalls : CallOn(c, p, f))
         /\ Underway(p, f)' <=> (\E o \in ops' : OpOn(o, p, f)) \/ (\E c \in ratingCalls' : CallOn(c, p, f))
BY DEF Underway, OpOn, CallOn

-----------------------------------------------------------------------------
(* The bar, and the start of an edit.                                      *)

\* A step of the bar alone.
LEMMA BarStep ==
  ASSUME BulkInv, UNCHANGED <<stored, cards, ops, ratingCalls, refetch, blurred>>,
         selected' \subseteq Pictures, clicks' \in Nat
  PROVE  BulkInv'
<1>1. BulkTyped'
  BY DEF BulkInv, BulkTyped
<1>2. \A o \in ops' : OpFits(o)'
  BY DEF BulkInv, OpFits
<1>3. ASSUME NEW p \in Pictures, NEW f \in CardFields, <<p, f>> \notin blurred'
      PROVE  Clear(p, f)'
  <2>1. Clear(p, f)
    BY <1>3 DEF BulkInv
  <2>. QED
    BY <2>1 DEF Clear, Underway, Settled, Holds
<1>. QED
  BY <1>1, <1>2, <1>3 DEF BulkInv

\* An edit starts: the fields that it shares with another are blurred.
LEMMA StartStep ==
  ASSUME BulkInv, clicks' \in Nat,
         NEW kind \in {"favorite", "rating", "tags", "move", "delete"},
         NEW ids \in SUBSET Pictures, NEW write \in Shelf, DOMAIN write = ids,
         Start(kind, ids, write)
  PROVE  BulkInv'
<1>0. BulkTyped /\ clicks \in Nat
  BY DEF BulkInv, BulkTyped
<1>1. PICK n : n = Op(kind, ids, write)
  OBVIOUS
<1>2. /\ n \in OpRec /\ n.kind = kind /\ n.ids = ids /\ n.write = write /\ n.queue = ids
      /\ n.sent = {} /\ n.taken = {} /\ n.updated = {} /\ n.failed = {}
  BY <1>0, <1>1 DEF Op, OpRec
<1>3. /\ ops' = ops \cup {n} /\ blurred' = Raced(ids, kind)
      /\ UNCHANGED <<stored, cards, selected, ratingCalls, refetch>>
  BY <1>1 DEF Start, BarRests
<1>4. BulkTyped'
  BY <1>0, <1>2, <1>3 DEF BulkTyped
<1>5. \A o \in ops' : OpFits(o)'
  <2>1. OpFits(n)'
    BY <1>2 DEF OpFits, Parted
  <2>2. \A o \in ops : OpFits(o)'
    BY <1>3 DEF BulkInv, OpFits
  <2>. QED
    BY <1>3, <2>1, <2>2
<1>6. ASSUME NEW p \in Pictures, NEW f \in CardFields, <<p, f>> \notin blurred'
      PROVE  Clear(p, f)'
  <2>1. <<p, f>> \notin blurred /\ (f = kind /\ p \in ids => ~Underway(p, f))
    BY <1>3, <1>6 DEF Raced
  <2>2. Clear(p, f)
    BY <2>1 DEF BulkInv
  <2>3. CASE f = kind /\ p \in ids
    <3>1. /\ \A x \in ops : ~OpOn(x, p, f)
          /\ \A y \in ratingCalls : ~CallOn(y, p, f)
      BY <2>1, <2>3, UnderwayIs
    <3>2. Settled(p, f)'
      BY <1>3, <2>1, <2>2, <2>3 DEF Clear, Settled, Holds
    <3>3. ~Taken(n, p) /\ OpOn(n, p, f)
      BY <1>2, <2>3 DEF Taken, OpOn
    <3>4. \A x \in ops' : OpOn(x, p, f) => x = n
      BY <1>3, <3>1
    <3>5. \A g \in refetch' : \A a \in g.answer : p \in DOMAIN a => Holds(p, f, FieldOf(a[p], f))'
      BY <1>3, <2>2 DEF Clear, Holds
    <3>. QED
      BY <1>3, <3>1, <3>2, <3>3, <3>4, <3>5 DEF Clear, OpOn, CallOn, Taken
  <2>4. CASE ~(f = kind /\ p \in ids)
    <3>1. ~OpOn(n, p, f)
      BY <1>2, <2>4 DEF OpOn
    <3>2. \A x \in ops' : OpOn(x, p, f) => x \in ops
      BY <1>3, <3>1
    <3>3. Underway(p, f) => Underway(p, f)'
      BY <1>3, UnderwayIs
    <3>4. \A x, y \in ops' : OpOn(x, p, f) /\ OpOn(y, p, f) => x = y
      BY <2>2, <3>2 DEF Clear
    <3>. QED
      BY <1>3, <2>2, <3>2, <3>3, <3>4, ClearKeeps
  <2>. QED
    BY <2>3, <2>4
<1>. QED
  BY <1>4, <1>5, <1>6 DEF BulkInv

\* What the items of the bar write.
LEMMA BarWrites ==
  ASSUME BulkInv, ToggleSelect \/ SelectAll \/ ClearSelection \/ ToggleMenu
                    \/ BulkFavorite \/ BulkRating \/ BulkTags \/ BulkMove
                    \/ RequestDelete \/ CancelBulkDelete \/ ConfirmDelete
  PROVE  BulkInv'
<1>0. BulkTyped /\ clicks \in Nat /\ selected \subseteq Pictures /\ cards \in Shelf
      /\ DOMAIN cards \subseteq Pictures
  BY ShelfIs DEF BulkInv, BulkTyped
<1>1. clicks' \in Nat
  <2>1. clicks' = clicks + 1
    BY DEF ToggleSelect, SelectAll, ClearSelection, ToggleMenu, BulkFavorite, BulkRating,
           BulkTags, BulkMove, RequestDelete, CancelBulkDelete, ConfirmDelete, Click
  <2>. QED
    BY <1>0, <2>1
<1>2. SelectedCards \in SUBSET Pictures /\ SelectedCards \subseteq DOMAIN cards
  BY <1>0 DEF SelectedCards
<1>3. CASE ToggleSelect \/ SelectAll \/ ClearSelection \/ ToggleMenu
             \/ RequestDelete \/ CancelBulkDelete
  <2>1. selected' \subseteq Pictures
    BY <1>0, <1>3 DEF ToggleSelect, SelectAll, ClearSelection, ToggleMenu, RequestDelete,
                      CancelBulkDelete, BarRests
  <2>2. UNCHANGED <<stored, cards, ops, ratingCalls, refetch, blurred>>
    BY <1>3 DEF ToggleSelect, SelectAll, ClearSelection, ToggleMenu, RequestDelete,
                CancelBulkDelete
  <2>. QED
    BY <1>1, <2>1, <2>2, BarStep
<1>4. ASSUME NEW k \in {"favorite", "rating", "tags", "move", "delete"},
             NEW ids \in SUBSET Pictures, NEW c \in [ids -> Card], Start(k, ids, c)
      PROVE  BulkInv'
  <2>1. c \in Shelf /\ DOMAIN c = ids
    BY <1>4, IsShelf
  <2>. QED
    BY <1>1, <1>4, <2>1, StartStep
<1>5. ASSUME NEW ids \in SUBSET Pictures
      PROVE  [p \in ids |-> Blank] \in [ids -> Card]
  BY BlankIsACard
<1>6. CASE BulkFavorite
  <2>1. Start("favorite", SelectedCards, [p \in SelectedCards |-> Blank])
    BY <1>6 DEF BulkFavorite
  <2>. QED
    BY <1>2, <1>4, <1>5, <2>1
<1>7. CASE BulkRating
  <2>1. PICK n \in Ratings :
          Start("rating", SelectedCards, [p \in SelectedCards |-> [rating |-> n, tags |-> {}]])
    BY <1>7 DEF BulkRating
  <2>2. PICK c : c = [p \in SelectedCards |-> [rating |-> n, tags |-> {}]]
    OBVIOUS
  <2>3. c \in [SelectedCards -> Card]
    BY <2>2 DEF Card
  <2>. QED
    BY <1>2, <1>4, <2>1, <2>2, <2>3
<1>8. CASE BulkTags
  <2>1. PICK t \in TagNames, add \in BOOLEAN :
          Start("tags", SelectedCards,
               [p \in SelectedCards |-> [rating |-> 0,
                  tags |-> IF add THEN cards[p].tags \cup {t} ELSE cards[p].tags \ {t}]])
    BY <1>8 DEF BulkTags
  <2>2. PICK c : c = [p \in SelectedCards |-> [rating |-> 0,
                  tags |-> IF add THEN cards[p].tags \cup {t} ELSE cards[p].tags \ {t}]]
    OBVIOUS
  <2>3. \A p \in SelectedCards : cards[p] \in Card
    BY <1>0, <1>2, ShelfIs
  <2>4. \A p \in SelectedCards : cards[p].tags \subseteq TagNames
    BY <2>3 DEF Card
  <2>5. c \in [SelectedCards -> Card]
    BY <2>2, <2>4, BulkAssumption DEF Card
  <2>. QED
    BY <1>2, <1>4, <2>1, <2>2, <2>5
<1>9. CASE BulkMove
  <2>1. Start("move", selected, [p \in selected |-> Blank])
    BY <1>9 DEF BulkMove
  <2>. QED
    BY <1>0, <1>4, <1>5, <2>1
<1>10. CASE ConfirmDelete
  <2>1. Start("delete", selected, [p \in selected |-> Blank])
    BY <1>10 DEF ConfirmDelete
  <2>. QED
    BY <1>0, <1>4, <1>5, <2>1
<1>. QED
  BY <1>3, <1>6, <1>7, <1>8, <1>9, <1>10

-----------------------------------------------------------------------------
(* The lanes of an edit.                                                   *)

\* An edit goes on to n, which is of the same images, and nothing else comes.
LEMMA OpsGoOn ==
  ASSUME BulkInv, NEW o \in ops, NEW n \in OpRec, n.ids = o.ids, n.kind = o.kind,
         n.write = o.write, ops' = (ops \ {o}) \cup {n}, UNCHANGED ratingCalls,
         NEW p, NEW f
  PROVE  /\ Underway(p, f)' <=> Underway(p, f)
         /\ OpOn(n, p, f) <=> OpOn(o, p, f)
         /\ Clear(p, f) => \A x, y \in ops' : OpOn(x, p, f) /\ OpOn(y, p, f) => x = y
         /\ Clear(p, f) /\ OpOn(o, p, f) => \A x \in ops' : OpOn(x, p, f) => x = n
<1>1. OpOn(n, p, f) <=> OpOn(o, p, f)
  BY DEF OpOn
<1>2. (\E x \in ops' : OpOn(x, p, f)) <=> (\E x \in ops : OpOn(x, p, f))
  BY <1>1
<1>3. Underway(p, f)' <=> Underway(p, f)
  BY <1>2, UnderwayIs
<1>4. ASSUME Clear(p, f), OpOn(o, p, f)
      PROVE  \A x \in ops' : OpOn(x, p, f) => x = n
  BY <1>4 DEF Clear
<1>5. ASSUME Clear(p, f)
      PROVE  \A x, y \in ops' : OpOn(x, p, f) /\ OpOn(y, p, f) => x = y
  BY <1>1, <1>4, <1>5 DEF Clear
<1>. QED
  BY <1>1, <1>3, <1>4, <1>5

\* The catalog and the cards stay as they are.
LEMMA LaneStep ==
  ASSUME BulkInv, NEW o \in ops, Patching(o), NEW n \in OpRec, n.ids = o.ids, n.kind = o.kind,
         n.write = o.write, Parted(n), ops' = (ops \ {o}) \cup {n},
         UNCHANGED <<stored, cards, selected, ratingCalls, refetch, clicks>>,
         \A p \in Pictures : \A f \in CardFields : <<p, f>> \notin blurred' =>
           <<p, f>> \notin blurred /\ (OpOn(o, p, f) => (Taken(n, p) <=> Taken(o, p)))
  PROVE  BulkInv'
<1>1. BulkTyped'
  BY DEF BulkInv, BulkTyped
<1>2. \A x \in ops' : OpFits(x)'
  <2>1. OpFits(n)'
    BY DEF BulkInv, OpFits, Patching
  <2>2. \A x \in ops : OpFits(x)'
    BY DEF BulkInv, OpFits
  <2>. QED
    BY <2>1, <2>2
<1>3. ASSUME NEW p \in Pictures, NEW f \in CardFields, <<p, f>> \notin blurred'
      PROVE  Clear(p, f)'
  <2>1. Clear(p, f) /\ (OpOn(o, p, f) => (Taken(n, p) <=> Taken(o, p)))
    BY <1>3 DEF BulkInv
  <2>2. /\ Underway(p, f)' <=> Underway(p, f)
        /\ OpOn(n, p, f) <=> OpOn(o, p, f)
        /\ \A x, y \in ops' : OpOn(x, p, f) /\ OpOn(y, p, f) => x = y
    BY <2>1, OpsGoOn
  <2>3. \A x \in ops' : OpOn(x, p, f) =>
            \E q \in ops : OpOn(q, p, f) /\ q.write = x.write /\ (Taken(q, p) <=> Taken(x, p))
    BY <2>1, <2>2
  <2>. QED
    BY <2>1, <2>2, <2>3, ClearKeeps
<1>. QED
  BY <1>1, <1>2, <1>3 DEF BulkInv

\* An edit of many images: what holds of it.
LEMMA PatchingOp ==
  ASSUME BulkInv, NEW o \in ops, Patching(o)
  PROVE  /\ o \in OpRec /\ Parted(o) /\ DOMAIN o.write = o.ids
         /\ o.queue \cup o.sent \cup o.taken \cup o.updated \cup o.failed = o.ids
         /\ \A p \in o.ids : o.write[p] \in Card
<1>1. o \in OpRec /\ OpFits(o)
  BY DEF BulkInv, BulkTyped
<1>2. o.write \in Shelf
  BY <1>1 DEF OpRec
<1>. QED
  BY <1>1, <1>2, ShelfIs DEF OpFits, Parted

\* A lane takes an image from the queue and sends it.
LEMMA LaneSendsKeeps == ASSUME BulkInv, LaneSends PROVE BulkInv'
<1>1. PICK o \in ops : Patching(o) /\ \E p \in o.queue : Replace(o, Shifted(o, p))
  BY DEF LaneSends
<1>2. PICK p \in o.queue : Replace(o, Shifted(o, p))
  BY <1>1
<1>3. o \in OpRec /\ Parted(o)
  BY <1>1, PatchingOp
<1>4. PICK q : q = o.queue \ {p}
  OBVIOUS
<1>5. PICK s : s = o.sent \cup {p}
  OBVIOUS
<1>6. q \subseteq Pictures /\ s \subseteq Pictures
  BY <1>2, <1>3, <1>4, <1>5 DEF OpRec
<1>7. PICK n \in OpRec : n = [o EXCEPT !.queue = q, !.sent = s]
  BY <1>3, <1>6 DEF OpRec
<1>8. /\ n.queue = q /\ n.sent = s /\ n.taken = o.taken /\ n.updated = o.updated
      /\ n.failed = o.failed /\ n.ids = o.ids /\ n.kind = o.kind /\ n.write = o.write
  BY <1>3, <1>7 DEF OpRec
<1>9. Parted(n)
  BY <1>2, <1>3, <1>4, <1>5, <1>8 DEF Parted
<1>10. ops' = (ops \ {o}) \cup {n}
  BY <1>2, <1>4, <1>5, <1>7 DEF Replace, Shifted
<1>11. UNCHANGED <<stored, cards, selected, ratingCalls, refetch, clicks, blurred>>
  BY DEF LaneSends, BarRests
<1>12. \A r, f : OpOn(o, r, f) => (Taken(n, r) <=> Taken(o, r))
  BY <1>8 DEF Taken
<1>. QED
  BY <1>1, <1>8, <1>9, <1>10, <1>11, <1>12, LaneStep

\* An answer takes the image from its lane to those updated.
LEMMA LaneAnsweredKeeps == ASSUME BulkInv, LaneAnswered PROVE BulkInv'
<1>1. PICK o \in ops : Patching(o) /\ \E p \in o.taken :
         Replace(o, [o EXCEPT !.taken = @ \ {p}, !.queue = @ \ {p}, !.updated = @ \cup {p}])
  BY DEF LaneAnswered
<1>2. PICK p \in o.taken :
         Replace(o, [o EXCEPT !.taken = @ \ {p}, !.queue = @ \ {p}, !.updated = @ \cup {p}])
  BY <1>1
<1>3. o \in OpRec /\ Parted(o)
  BY <1>1, PatchingOp
<1>4. PICK q : q = o.queue \ {p}
  OBVIOUS
<1>5. PICK t : t = o.taken \ {p}
  OBVIOUS
<1>6. PICK u : u = o.updated \cup {p}
  OBVIOUS
<1>7. q \subseteq Pictures /\ t \subseteq Pictures /\ u \subseteq Pictures
  BY <1>2, <1>3, <1>4, <1>5, <1>6 DEF OpRec
<1>8. PICK n \in OpRec : n = [o EXCEPT !.taken = t, !.queue = q, !.updated = u]
  BY <1>3, <1>7 DEF OpRec
<1>9. /\ n.queue = q /\ n.sent = o.sent /\ n.taken = t /\ n.updated = u
      /\ n.failed = o.failed /\ n.ids = o.ids /\ n.kind = o.kind /\ n.write = o.write
  BY <1>3, <1>8 DEF OpRec
<1>10. Parted(n)
  BY <1>2, <1>3, <1>4, <1>5, <1>6, <1>9 DEF Parted
<1>11. ops' = (ops \ {o}) \cup {n}
  BY <1>2, <1>4, <1>5, <1>6, <1>8 DEF Replace
<1>12. UNCHANGED <<stored, cards, selected, ratingCalls, refetch, clicks, blurred>>
  BY DEF LaneAnswered, BarRests
<1>13. \A r, f : OpOn(o, r, f) => (Taken(n, r) <=> Taken(o, r))
  BY <1>2, <1>5, <1>6, <1>9 DEF Taken
<1>. QED
  BY <1>1, <1>9, <1>10, <1>11, <1>12, <1>13, LaneStep

\* A failure takes it to those that failed, and blurs what the catalog had taken.
LEMMA LaneFailsKeeps == ASSUME BulkInv, LaneFails PROVE BulkInv'
<1>1. PICK o \in ops : Patching(o) /\ \E p \in InFlight(o) :
         /\ Replace(o, [o EXCEPT !.sent = @ \ {p}, !.taken = @ \ {p}, !.queue = @ \ {p},
                                 !.failed = @ \cup {p}])
         /\ blurred' = IF p \in o.taken THEN blurred \cup {<<p, o.kind>>} ELSE blurred
  BY DEF LaneFails
<1>2. PICK p \in InFlight(o) :
         /\ Replace(o, [o EXCEPT !.sent = @ \ {p}, !.taken = @ \ {p}, !.queue = @ \ {p},
                                 !.failed = @ \cup {p}])
         /\ blurred' = IF p \in o.taken THEN blurred \cup {<<p, o.kind>>} ELSE blurred
  BY <1>1
<1>3. o \in OpRec /\ Parted(o) /\ p \in o.sent \cup o.taken
  BY <1>1, <1>2, PatchingOp DEF InFlight
<1>4. PICK q : q = o.queue \ {p}
  OBVIOUS
<1>5. PICK t : t = o.taken \ {p}
  OBVIOUS
<1>6. PICK s : s = o.sent \ {p}
  OBVIOUS
<1>7. PICK b : b = o.failed \cup {p}
  OBVIOUS
<1>8. q \subseteq Pictures /\ t \subseteq Pictures /\ s \subseteq Pictures /\ b \subseteq Pictures
  BY <1>3, <1>4, <1>5, <1>6, <1>7 DEF OpRec
<1>9. PICK n \in OpRec : n = [o EXCEPT !.sent = s, !.taken = t, !.queue = q, !.failed = b]
  BY <1>3, <1>8 DEF OpRec
<1>10. /\ n.queue = q /\ n.sent = s /\ n.taken = t /\ n.updated = o.updated
       /\ n.failed = b /\ n.ids = o.ids /\ n.kind = o.kind /\ n.write = o.write
  BY <1>3, <1>9 DEF OpRec
<1>11. Parted(n)
  BY <1>3, <1>4, <1>5, <1>6, <1>7, <1>10 DEF Parted
<1>12. ops' = (ops \ {o}) \cup {n}
  BY <1>2, <1>4, <1>5, <1>6, <1>7, <1>9 DEF Replace
<1>13. UNCHANGED <<stored, cards, selected, ratingCalls, refetch, clicks>>
  BY DEF LaneFails, BarRests
<1>14. ASSUME NEW r \in Pictures, NEW f \in CardFields, <<r, f>> \notin blurred'
       PROVE  <<r, f>> \notin blurred /\ (OpOn(o, r, f) => (Taken(n, r) <=> Taken(o, r)))
  <2>1. <<r, f>> \notin blurred /\ (p \in o.taken => <<r, f>> # <<p, o.kind>>)
    BY <1>2, <1>14
  <2>2. OpOn(o, r, f) /\ r = p => p \notin o.taken
    BY <2>1 DEF OpOn
  <2>. QED
    BY <1>5, <1>10, <2>1, <2>2 DEF Taken
<1>. QED
  BY <1>1, <1>10, <1>11, <1>12, <1>13, <1>14, LaneStep

-----------------------------------------------------------------------------
(* The catalog.                                                            *)

Put(h, p, c) == [h EXCEPT ![p] = c]

\* The catalog writes v in the field k of p, and nothing else.
LEMMA StoredElsewhere ==
  ASSUME BulkInv, NEW p \in DOMAIN stored, NEW k, NEW v \in Card,
         stored' = Put(stored, p, Written(stored[p], k, v))
  PROVE  /\ stored' \in Shelf /\ DOMAIN stored' = DOMAIN stored
         /\ \A q \in DOMAIN stored : \A f \in CardFields :
              FieldOf(stored'[q], f) = IF q = p /\ f = k THEN FieldOf(v, f)
                                       ELSE FieldOf(stored[q], f)
<1>1. stored \in Shelf /\ stored[p] \in Card
  BY ShelfIs DEF BulkInv, BulkTyped
<1>2. PICK c \in Card : /\ c = Written(stored[p], k, v)
                        /\ \A f \in CardFields : FieldOf(c, f)
                                = IF k = f THEN FieldOf(v, f) ELSE FieldOf(stored[p], f)
  BY <1>1, WrittenFields
<1>3. stored' = [stored EXCEPT ![p] = c]
  BY <1>2 DEF Put
<1>4. /\ stored' \in Shelf /\ DOMAIN stored' = DOMAIN stored /\ stored'[p] = c
      /\ \A q \in DOMAIN stored \ {p} : stored'[q] = stored[q]
  <2>1. PICK s \in SUBSET Pictures : stored \in [s -> Card]
    BY <1>1 DEF Shelf
  <2>2. stored' \in [s -> Card]
    BY <1>2, <1>3, <2>1
  <2>3. stored' \in Shelf
    BY <2>2, IsShelf
  <2>. QED
    BY <1>2, <1>3, <2>1, <2>3
<1>. QED
  BY <1>2, <1>4

\* A field that was written while no answer of a search was on its way.
LEMMA NoAnswerYet ==
  ASSUME NEW p, NEW k, <<p, k>> \notin BlurAnswers(p, k)
  PROVE  <<p, k>> \notin blurred /\ \A g \in refetch : g.answer = {}
BY DEF BlurAnswers

\* What is not blurred after a write was not blurred before.
LEMMA OthersAreNotBlurred ==
  ASSUME NEW p, NEW k, NEW q, NEW f, <<q, f>> \notin BlurAnswers(p, k)
  PROVE  <<q, f>> \notin blurred
BY DEF BlurAnswers

\* The catalog takes the request of one image: it holds what the edit writes,
\* and no answer of a search may have been read before.
LEMMA CatalogTakesKeeps == ASSUME BulkInv, CatalogTakes PROVE BulkInv'
<1>1. PICK o \in ops : Patching(o) /\ \E p \in o.sent :
         IF p \in DOMAIN stored
         THEN /\ stored' = [stored EXCEPT ![p] = Written(stored[p], o.kind, o.write[p])]
              /\ Replace(o, [o EXCEPT !.sent = @ \ {p}, !.taken = @ \cup {p}])
              /\ blurred' = BlurAnswers(p, o.kind)
         ELSE /\ Replace(o, [o EXCEPT !.sent = @ \ {p}, !.failed = @ \cup {p}])
              /\ UNCHANGED <<stored, blurred>>
  BY DEF CatalogTakes
<1>2. PICK p \in o.sent :
         IF p \in DOMAIN stored
         THEN /\ stored' = [stored EXCEPT ![p] = Written(stored[p], o.kind, o.write[p])]
              /\ Replace(o, [o EXCEPT !.sent = @ \ {p}, !.taken = @ \cup {p}])
              /\ blurred' = BlurAnswers(p, o.kind)
         ELSE /\ Replace(o, [o EXCEPT !.sent = @ \ {p}, !.failed = @ \cup {p}])
              /\ UNCHANGED <<stored, blurred>>
  BY <1>1
<1>3. /\ o \in OpRec /\ Parted(o) /\ p \in o.ids /\ DOMAIN o.write = o.ids
      /\ o.write[p] \in Card
  <2>1. o \in OpRec /\ Parted(o) /\ DOMAIN o.write = o.ids /\ \A r \in o.ids : o.write[r] \in Card
    BY <1>1, PatchingOp
  <2>2. p \in o.ids
    BY <1>2, <2>1 DEF Parted
  <2>. QED
    BY <2>1, <2>2
<1>4. UNCHANGED <<cards, selected, ratingCalls, refetch, clicks>>
  BY DEF CatalogTakes, BarRests
<1>5. PICK s : s = o.sent \ {p}
  OBVIOUS
<1>6. CASE p \notin DOMAIN stored
  <2>1. PICK b : b = o.failed \cup {p}
    OBVIOUS
  <2>2. s \subseteq Pictures /\ b \subseteq Pictures
    BY <1>2, <1>3, <1>5, <2>1 DEF OpRec
  <2>3. PICK n \in OpRec : n = [o EXCEPT !.sent = s, !.failed = b]
    BY <1>3, <2>2 DEF OpRec
  <2>4. /\ n.queue = o.queue /\ n.sent = s /\ n.taken = o.taken /\ n.updated = o.updated
        /\ n.failed = b /\ n.ids = o.ids /\ n.kind = o.kind /\ n.write = o.write
    BY <1>3, <2>3 DEF OpRec
  <2>5. Parted(n)
    BY <1>2, <1>3, <1>5, <2>1, <2>4 DEF Parted
  <2>6. ops' = (ops \ {o}) \cup {n} /\ UNCHANGED <<stored, blurred>>
    BY <1>2, <1>5, <1>6, <2>1, <2>3 DEF Replace
  <2>7. \A r, f : OpOn(o, r, f) => (Taken(n, r) <=> Taken(o, r))
    BY <2>4 DEF Taken
  <2>. QED
    BY <1>1, <1>4, <2>4, <2>5, <2>6, <2>7, LaneStep
<1>7. CASE p \in DOMAIN stored
  <2>1. PICK t : t = o.taken \cup {p}
    OBVIOUS
  <2>2. s \subseteq Pictures /\ t \subseteq Pictures
    BY <1>2, <1>3, <1>5, <2>1 DEF OpRec
  <2>3. PICK n \in OpRec : n = [o EXCEPT !.sent = s, !.taken = t]
    BY <1>3, <2>2 DEF OpRec
  <2>4. /\ n.queue = o.queue /\ n.sent = s /\ n.taken = t /\ n.updated = o.updated
        /\ n.failed = o.failed /\ n.ids = o.ids /\ n.kind = o.kind /\ n.write = o.write
    BY <1>3, <2>3 DEF OpRec
  <2>5. Parted(n)
    BY <1>2, <1>3, <1>5, <2>1, <2>4 DEF Parted
  <2>6. /\ ops' = (ops \ {o}) \cup {n} /\ blurred' = BlurAnswers(p, o.kind)
        /\ stored' = [stored EXCEPT ![p] = Written(stored[p], o.kind, o.write[p])]
    BY <1>2, <1>5, <1>7, <2>1, <2>3 DEF Replace
  <2>7. /\ stored' \in Shelf /\ DOMAIN stored' = DOMAIN stored
        /\ \A q \in DOMAIN stored : \A f \in CardFields :
             FieldOf(stored'[q], f) = IF q = p /\ f = o.kind THEN FieldOf(o.write[p], f)
                                      ELSE FieldOf(stored[q], f)
    <3>1. PICK v \in Card : v = o.write[p]
      BY <1>3
    <3>2. PICK k : k = o.kind
      OBVIOUS
    <3>3. stored' = Put(stored, p, Written(stored[p], k, v))
      BY <2>6, <3>1, <3>2 DEF Put
    <3>4. /\ stored' \in Shelf /\ DOMAIN stored' = DOMAIN stored
          /\ \A q \in DOMAIN stored : \A f \in CardFields :
               FieldOf(stored'[q], f) = IF q = p /\ f = k THEN FieldOf(v, f)
                                        ELSE FieldOf(stored[q], f)
      BY <1>7, <3>1, <3>3, StoredElsewhere
    <3>. QED
      BY <3>1, <3>2, <3>4
  <2>8. BulkTyped'
    BY <1>4, <2>6, <2>7 DEF BulkInv, BulkTyped
  <2>9. \A x \in ops' : OpFits(x)'
    <3>1. OpFits(n)'
      BY <1>1, <1>3, <2>4, <2>5 DEF OpFits, Patching
    <3>2. \A x \in ops : OpFits(x)'
      BY <2>7 DEF BulkInv, OpFits
    <3>. QED
      BY <2>6, <3>1, <3>2
  <2>10. ASSUME NEW q \in Pictures, NEW f \in CardFields, <<q, f>> \notin blurred'
         PROVE  Clear(q, f)'
    <3>1. Clear(q, f)
      BY <2>6, <2>10, OthersAreNotBlurred DEF BulkInv
    <3>2. /\ Underway(q, f)' <=> Underway(q, f)
          /\ OpOn(n, q, f) <=> OpOn(o, q, f)
          /\ \A x, y \in ops' : OpOn(x, q, f) /\ OpOn(y, q, f) => x = y
          /\ OpOn(o, q, f) => \A x \in ops' : OpOn(x, q, f) => x = n
      BY <1>4, <2>4, <2>6, <3>1, OpsGoOn
    <3>3. CASE q = p /\ f = o.kind
      <4>1. OpOn(o, q, f) /\ OpOn(n, q, f) /\ Taken(n, q)
        BY <1>3, <2>1, <2>4, <3>3 DEF OpOn, Taken
      <4>2. Holds(q, f, FieldOf(n.write[q], f))'
        BY <2>4, <2>7, <3>3 DEF Holds
      <4>3. \A g \in refetch' : g.answer = {}
        BY <1>4, <2>6, <2>10, <3>3, NoAnswerYet
      <4>4. \A y \in ratingCalls' : ~CallOn(y, q, f)
        BY <1>4, <3>1, <4>1 DEF Clear
      <4>5. Underway(q, f)'
        BY <2>6, <4>1, UnderwayIs
      <4>. QED
        BY <3>2, <4>1, <4>2, <4>3, <4>4, <4>5 DEF Clear, OpOn, CallOn, Taken
    <3>4. CASE ~(q = p /\ f = o.kind)
      <4>1. q \in DOMAIN stored => FieldOf(stored'[q], f) = FieldOf(stored[q], f)
        BY <2>7, <3>4
      <4>2. OpOn(o, q, f) => (Taken(n, q) <=> Taken(o, q))
        BY <2>1, <2>4, <3>4 DEF OpOn, Taken
      <4>3. \A x \in ops' : OpOn(x, q, f) =>
              \E z \in ops : OpOn(z, q, f) /\ z.write = x.write /\ (Taken(z, q) <=> Taken(x, q))
        BY <2>4, <2>6, <3>2, <4>2
      <4>. QED
        BY <1>4, <2>7, <3>1, <3>2, <4>1, <4>3, ClearKeeps
    <3>. QED
      BY <3>3, <3>4
  <2>. QED
    BY <2>8, <2>9, <2>10 DEF BulkInv
<1>. QED
  BY <1>6, <1>7

\* The edit ends: the cards that were updated show what was written.
LEMMA PatchEndsKeeps == ASSUME BulkInv, PatchEnds PROVE BulkInv'
<1>1. PICK o \in ops :
         /\ Patching(o) /\ o.queue = {} /\ InFlight(o) = {}
         /\ cards' = [p \in DOMAIN cards |->
                        IF p \in o.updated THEN Written(cards[p], o.kind, o.write[p])
                        ELSE cards[p]]
         /\ ops' = ops \ {o}
  BY DEF PatchEnds, Mirrored
<1>2. UNCHANGED <<stored, selected, ratingCalls, refetch, blurred, clicks>>
  BY DEF PatchEnds, BarRests
<1>3. /\ o \in OpRec /\ Parted(o) /\ DOMAIN o.write = o.ids
      /\ \A p \in o.ids : o.write[p] \in Card
  BY <1>1, PatchingOp
<1>4. cards \in Shelf /\ DOMAIN cards \subseteq Pictures /\ \A p \in DOMAIN cards : cards[p] \in Card
  BY ShelfIs DEF BulkInv, BulkTyped
<1>5. o.updated \subseteq o.ids
  BY <1>3 DEF Parted
<1>6. \A p \in DOMAIN cards : p \in o.updated =>
        /\ Written(cards[p], o.kind, o.write[p]) \in Card
        /\ \A f \in CardFields : FieldOf(Written(cards[p], o.kind, o.write[p]), f)
              = IF o.kind = f THEN FieldOf(o.write[p], f) ELSE FieldOf(cards[p], f)
  BY <1>3, <1>4, <1>5, WrittenFields
<1>7. cards' \in [DOMAIN cards -> Card]
  BY <1>1, <1>4, <1>6
<1>8. cards' \in Shelf
  BY <1>4, <1>7, IsShelf
<1>9. BulkTyped'
  BY <1>1, <1>2, <1>8 DEF BulkInv, BulkTyped
<1>10. \A x \in ops' : OpFits(x)'
  BY <1>1, <1>2 DEF BulkInv, OpFits
<1>11. ASSUME NEW p \in Pictures, NEW f \in CardFields, <<p, f>> \notin blurred'
       PROVE  Clear(p, f)'
  <2>1. Clear(p, f)
    BY <1>2, <1>11 DEF BulkInv
  <2>2. CASE OpOn(o, p, f)
    <3>1. /\ \A x \in ops' : ~OpOn(x, p, f)
          /\ \A y \in ratingCalls' : ~CallOn(y, p, f)
      BY <1>1, <1>2, <2>1, <2>2 DEF Clear
    <3>2. Settled(p, f)'
      <4>1. CASE p \in o.updated
        <5>1. Taken(o, p)
          BY <4>1 DEF Taken
        <5>2. Holds(p, f, FieldOf(o.write[p], f))
          BY <2>1, <2>2, <5>1 DEF Clear
        <5>3. p \in DOMAIN cards => FieldOf(cards'[p], f) = FieldOf(o.write[p], f)
          BY <1>1, <1>6, <2>2, <4>1 DEF OpOn
        <5>. QED
          BY <1>2, <1>7, <5>2, <5>3 DEF Settled, Holds
      <4>2. CASE p \notin o.updated
        <5>1. ~Taken(o, p)
          BY <1>1, <4>2 DEF Taken, InFlight
        <5>2. Settled(p, f)
          BY <2>1, <2>2, <5>1 DEF Clear
        <5>3. p \in DOMAIN cards => cards'[p] = cards[p]
          BY <1>1, <4>2
        <5>. QED
          BY <1>2, <1>7, <5>2, <5>3 DEF Settled, Holds
      <4>. QED
        BY <4>1, <4>2
    <3>3. \A g \in refetch' : \A a \in g.answer : p \in DOMAIN a => Holds(p, f, FieldOf(a[p], f))'
      BY <1>2, <2>1 DEF Clear, Holds
    <3>. QED
      BY <3>1, <3>2, <3>3, ClearAtLast
  <2>3. CASE ~OpOn(o, p, f)
    <3>1. p \in DOMAIN cards => FieldOf(cards'[p], f) = FieldOf(cards[p], f)
      <4>1. CASE p \in o.updated
        <5>1. o.kind # f
          BY <1>5, <2>3, <4>1 DEF OpOn
        <5>. QED
          BY <1>1, <1>6, <4>1, <5>1
      <4>2. CASE p \notin o.updated
        BY <1>1, <4>2
      <4>. QED
        BY <4>1, <4>2
    <3>2. Underway(p, f) => Underway(p, f)'
      BY <1>1, <1>2, <2>3, UnderwayIs
    <3>3. \A x, y \in ops' : OpOn(x, p, f) /\ OpOn(y, p, f) => x = y
      BY <1>1, <2>1 DEF Clear
    <3>. QED
      BY <1>1, <1>2, <1>7, <2>1, <3>1, <3>2, <3>3, ClearKeeps
  <2>. QED
    BY <2>2, <2>3
<1>. QED
  BY <1>9, <1>10, <1>11 DEF BulkInv

\* Move and delete are no edits of a field.
LEMMA NoFieldOp ==
  ASSUME NEW o, o.kind \in {"move", "delete"}, NEW p, NEW f \in CardFields
  PROVE  ~OpOn(o, p, f)
BY DEF OpOn, CardFields

\* An action other than an edit ends; cards may leave the page with it.
LEMMA OtherOpEnds ==
  ASSUME BulkInv, NEW o \in ops, o.kind \in {"move", "delete"}, ops' = ops \ {o},
         cards' \in Shelf, DOMAIN cards' \subseteq DOMAIN cards,
         \A p \in DOMAIN cards' : cards'[p] = cards[p],
         selected' \subseteq Pictures, UNCHANGED <<stored, ratingCalls, refetch, blurred, clicks>>
  PROVE  BulkInv'
<1>1. BulkTyped'
  BY DEF BulkInv, BulkTyped
<1>2. \A x \in ops' : OpFits(x)'
  BY DEF BulkInv, OpFits
<1>3. ASSUME NEW p \in Pictures, NEW f \in CardFields, <<p, f>> \notin blurred'
      PROVE  Clear(p, f)'
  <2>1. Clear(p, f)
    BY <1>3 DEF BulkInv
  <2>2. ~OpOn(o, p, f)
    BY NoFieldOp
  <2>3. Underway(p, f) => Underway(p, f)'
    BY <2>2, UnderwayIs
  <2>4. \A x, y \in ops' : OpOn(x, p, f) /\ OpOn(y, p, f) => x = y
    BY <2>1 DEF Clear
  <2>. QED
    BY <2>1, <2>3, <2>4, ClearKeeps
<1>. QED
  BY <1>1, <1>2, <1>3 DEF BulkInv

\* A move or a delete ends, answered or not.
LEMMA OthersEndKeeps ==
  ASSUME BulkInv, MoveEnds \/ DeleteEnds \/ DeleteAnswerLost
  PROVE  BulkInv'
<1>0. cards \in Shelf /\ selected \subseteq Pictures
  BY DEF BulkInv, BulkTyped
<1>1. CASE MoveEnds
  <2>1. PICK o \in ops : o.kind = "move" /\ ops' = ops \ {o}
    BY <1>1 DEF MoveEnds
  <2>2. UNCHANGED <<stored, cards, selected, ratingCalls, refetch, blurred, clicks>>
    BY <1>1 DEF MoveEnds, BarRests
  <2>. QED
    BY <1>0, <2>1, <2>2, OtherOpEnds
<1>2. CASE DeleteAnswerLost
  <2>1. PICK o \in ops : o.kind = "delete" /\ ops' = ops \ {o}
    BY <1>2 DEF DeleteAnswerLost
  <2>2. UNCHANGED <<stored, cards, selected, ratingCalls, refetch, blurred, clicks>>
    BY <1>2 DEF DeleteAnswerLost
  <2>. QED
    BY <1>0, <2>1, <2>2, OtherOpEnds
<1>3. CASE DeleteEnds
  <2>1. PICK o \in ops :
         /\ o.kind = "delete" /\ cards' = Drop(cards, Pruned(o))
         /\ IF o.failed = {} THEN selected' = {} /\ selectMode' = FALSE
            ELSE selected' = selected \ Pruned(o) /\ UNCHANGED selectMode
         /\ ops' = ops \ {o}
    BY <1>3 DEF DeleteEnds
  <2>2. UNCHANGED <<stored, ratingCalls, refetch, blurred, clicks>>
    BY <1>3 DEF DeleteEnds
  <2>3. /\ cards' \in Shelf /\ DOMAIN cards' \subseteq DOMAIN cards
        /\ \A p \in DOMAIN cards' : cards'[p] = cards[p]
    <3>1. PICK s : s = Pruned(o)
      OBVIOUS
    <3>2. cards' = Drop(cards, s)
      BY <2>1, <3>1
    <3>3. /\ Drop(cards, s) \in Shelf /\ DOMAIN Drop(cards, s) = DOMAIN cards \ s
          /\ \A q \in DOMAIN cards \ s : Drop(cards, s)[q] = cards[q]
      BY <1>0, SomeDropped
    <3>. QED
      BY <3>2, <3>3
  <2>4. selected' \subseteq Pictures
    BY <1>0, <2>1
  <2>. QED
    BY <2>1, <2>2, <2>3, <2>4, OtherOpEnds
<1>. QED
  BY <1>1, <1>2, <1>3

\* The gateway deletes: what it updated is gone.
LEMMA CatalogDeletesKeeps == ASSUME BulkInv, CatalogDeletes PROVE BulkInv'
<1>1. PICK o \in ops : o.kind = "delete" /\ o.queue # {} /\
         \E kept \in SUBSET (o.queue \cap DOMAIN stored) :
           /\ stored' = Drop(stored, o.queue \ kept)
           /\ Replace(o, [o EXCEPT !.queue = {}, !.updated = o.queue \ kept, !.failed = kept])
  BY DEF CatalogDeletes
<1>2. PICK kept \in SUBSET (o.queue \cap DOMAIN stored) :
           /\ stored' = Drop(stored, o.queue \ kept)
           /\ Replace(o, [o EXCEPT !.queue = {}, !.updated = o.queue \ kept, !.failed = kept])
  BY <1>1
<1>3. UNCHANGED <<cards, selected, ratingCalls, refetch, blurred, clicks>>
  BY DEF CatalogDeletes, BarRests
<1>4. o \in OpRec /\ stored \in Shelf /\ DOMAIN o.write = o.ids
  BY DEF BulkInv, BulkTyped, OpFits
<1>5. PICK u : u = o.queue \ kept
  OBVIOUS
<1>6. u \subseteq Pictures /\ kept \subseteq Pictures
  BY <1>2, <1>4, <1>5 DEF OpRec
<1>7. PICK n \in OpRec : n = [o EXCEPT !.queue = {}, !.updated = u, !.failed = kept]
  BY <1>4, <1>6 DEF OpRec
<1>8. n.updated = u /\ n.ids = o.ids /\ n.kind = "delete" /\ n.write = o.write
  BY <1>1, <1>4, <1>7 DEF OpRec
<1>9. /\ stored' \in Shelf /\ DOMAIN stored' = DOMAIN stored \ u
      /\ \A q \in DOMAIN stored \ u : stored'[q] = stored[q]
  <2>1. stored' = Drop(stored, u)
    BY <1>2, <1>5
  <2>2. /\ Drop(stored, u) \in Shelf /\ DOMAIN Drop(stored, u) = DOMAIN stored \ u
        /\ \A q \in DOMAIN stored \ u : Drop(stored, u)[q] = stored[q]
    BY <1>4, SomeDropped
  <2>. QED
    BY <2>1, <2>2
<1>10. ops' = (ops \ {o}) \cup {n}
  BY <1>2, <1>5, <1>7 DEF Replace
<1>11. BulkTyped'
  BY <1>3, <1>9, <1>10 DEF BulkInv, BulkTyped
<1>12. \A x \in ops' : OpFits(x)'
  <2>1. OpFits(n)'
    BY <1>4, <1>8, <1>9 DEF OpFits, Patching
  <2>2. \A x \in ops : OpFits(x)'
    BY <1>9 DEF BulkInv, OpFits
  <2>. QED
    BY <1>10, <2>1, <2>2
<1>13. ASSUME NEW p \in Pictures, NEW f \in CardFields, <<p, f>> \notin blurred'
       PROVE  Clear(p, f)'
  <2>1. Clear(p, f)
    BY <1>3, <1>13 DEF BulkInv
  <2>2. ~OpOn(n, p, f)
    BY <1>8, NoFieldOp
  <2>3. /\ Underway(p, f)' <=> Underway(p, f)
        /\ \A x, y \in ops' : OpOn(x, p, f) /\ OpOn(y, p, f) => x = y
    BY <1>1, <1>3, <1>8, <1>10, <2>1, OpsGoOn
  <2>4. \A x \in ops' : OpOn(x, p, f) => x \in ops
    BY <1>10, <2>2
  <2>. QED
    BY <1>3, <1>9, <2>1, <2>3, <2>4, ClearKeeps
<1>. QED
  BY <1>11, <1>12, <1>13 DEF BulkInv

-----------------------------------------------------------------------------
(* Ratings of the viewer, and a fresh search.                              *)

\* A rating of the viewer is sent; one that meets another edit is blurred.
LEMMA RateImageKeeps == ASSUME BulkInv, RateImage PROVE BulkInv'
<1>1. PICK p \in DOMAIN cards, n \in Ratings :
         /\ ratingCalls' = ratingCalls \cup
              {[of |-> p, at |-> clicks, value |-> n, taken |-> FALSE]}
         /\ blurred' = Raced({p}, "rating")
  BY DEF RateImage
<1>2. UNCHANGED <<stored, cards, selected, ops, refetch>> /\ clicks' = clicks + 1
  BY DEF RateImage, BarRests, Click
<1>3. p \in Pictures /\ clicks \in Nat
  BY ShelfIs DEF BulkInv, BulkTyped
<1>4. PICK c \in CallRec : c = [of |-> p, at |-> clicks, value |-> n, taken |-> FALSE]
  BY <1>3 DEF CallRec
<1>5. c.of = p /\ c.taken = FALSE /\ ratingCalls' = ratingCalls \cup {c}
  BY <1>1, <1>4
<1>6. BulkTyped'
  BY <1>2, <1>3, <1>5 DEF BulkInv, BulkTyped
<1>7. \A x \in ops' : OpFits(x)'
  BY <1>2 DEF BulkInv, OpFits
<1>8. ASSUME NEW q \in Pictures, NEW f \in CardFields, <<q, f>> \notin blurred'
      PROVE  Clear(q, f)'
  <2>1. <<q, f>> \notin blurred /\ (f = "rating" /\ q = p => ~Underway(q, f))
    BY <1>1, <1>8 DEF Raced
  <2>2. Clear(q, f)
    BY <2>1 DEF BulkInv
  <2>3. CASE f = "rating" /\ q = p
    <3>1. /\ \A x \in ops' : ~OpOn(x, q, f)
          /\ \A y \in ratingCalls : ~CallOn(y, q, f)
      BY <1>2, <2>1, <2>3, UnderwayIs
    <3>2. Settled(q, f)'
      BY <1>2, <2>1, <2>2, <2>3 DEF Clear, Settled, Holds
    <3>3. \A y \in ratingCalls' : CallOn(y, q, f) => y = c
      BY <1>5, <3>1
    <3>4. \A g \in refetch' : \A a \in g.answer : q \in DOMAIN a => Holds(q, f, FieldOf(a[q], f))'
      BY <1>2, <2>2 DEF Clear, Holds
    <3>. QED
      BY <1>5, <3>1, <3>2, <3>3, <3>4 DEF Clear, OpOn, CallOn, Taken
  <2>4. CASE ~(f = "rating" /\ q = p)
    <3>1. \A y \in ratingCalls' : CallOn(y, q, f) => y \in ratingCalls
      BY <1>5, <2>4 DEF CallOn
    <3>2. Underway(q, f) => Underway(q, f)'
      BY <1>2, <1>5, UnderwayIs
    <3>3. \A x, y \in ops' : OpOn(x, q, f) /\ OpOn(y, q, f) => x = y
      BY <1>2, <2>2 DEF Clear
    <3>. QED
      BY <1>2, <2>2, <3>1, <3>2, <3>3, ClearKeeps
  <2>. QED
    BY <2>3, <2>4
<1>. QED
  BY <1>6, <1>7, <1>8 DEF BulkInv

\* The catalog takes a rating of the viewer.
LEMMA RatingTakenKeeps == ASSUME BulkInv, RatingTaken PROVE BulkInv'
<1>1. PICK c \in ratingCalls :
         /\ ~c.taken
         /\ IF c.of \in DOMAIN stored
            THEN /\ stored' = [stored EXCEPT ![c.of].rating = c.value]
                 /\ ratingCalls' = (ratingCalls \ {c}) \cup {[c EXCEPT !.taken = TRUE]}
                 /\ blurred' = BlurAnswers(c.of, "rating")
            ELSE ratingCalls' = ratingCalls \ {c} /\ UNCHANGED <<stored, blurred>>
  BY DEF RatingTaken
<1>2. UNCHANGED <<cards, selected, ops, refetch, clicks>>
  BY DEF RatingTaken, BarRests
<1>3. c \in CallRec /\ c.of \in Pictures /\ c.value \in Ratings
  BY <1>1 DEF BulkInv, BulkTyped, CallRec
<1>4. CASE c.of \notin DOMAIN stored
  <2>1. ratingCalls' = ratingCalls \ {c} /\ UNCHANGED <<stored, blurred>>
    BY <1>1, <1>4
  <2>2. BulkTyped'
    BY <1>2, <2>1 DEF BulkInv, BulkTyped
  <2>3. \A x \in ops' : OpFits(x)'
    BY <1>2, <2>1 DEF BulkInv, OpFits
  <2>4. ASSUME NEW q \in Pictures, NEW f \in CardFields, <<q, f>> \notin blurred'
        PROVE  Clear(q, f)'
    <3>1. Clear(q, f)
      BY <2>1, <2>4 DEF BulkInv
    <3>2. Settled(q, f)' \/ q # c.of
      BY <1>4, <2>1 DEF Settled, Holds
    <3>3. Underway(q, f) => Underway(q, f)' \/ Settled(q, f)'
      BY <1>2, <2>1, <3>2, UnderwayIs DEF CallOn
    <3>4. \A x, y \in ops' : OpOn(x, q, f) /\ OpOn(y, q, f) => x = y
      BY <1>2, <3>1 DEF Clear
    <3>. QED
      BY <1>2, <2>1, <3>1, <3>3, <3>4, ClearKeeps
  <2>. QED
    BY <2>2, <2>3, <2>4 DEF BulkInv
<1>5. CASE c.of \in DOMAIN stored
  <2>1. PICK v \in Card : v = [rating |-> c.value, tags |-> {}]
    BY <1>3 DEF Card
  <2>2. FieldOf(v, "rating") = c.value /\ v.rating = c.value
    BY <2>1 DEF FieldOf
  <2>3. stored[c.of] \in Card
    BY <1>5, ShelfIs DEF BulkInv, BulkTyped
  <2>4. stored' = Put(stored, c.of, Written(stored[c.of], "rating", v))
    <3>1. Written(stored[c.of], "rating", v) = [stored[c.of] EXCEPT !.rating = c.value]
      BY <2>2 DEF Written
    <3>2. stored' = [stored EXCEPT ![c.of] = [stored[c.of] EXCEPT !.rating = c.value]]
      BY <1>1, <1>5
    <3>. QED
      BY <3>1, <3>2 DEF Put
  <2>5. /\ stored' \in Shelf /\ DOMAIN stored' = DOMAIN stored
        /\ \A q \in DOMAIN stored : \A f \in CardFields :
             FieldOf(stored'[q], f) = IF q = c.of /\ f = "rating" THEN c.value
                                      ELSE FieldOf(stored[q], f)
    <3>1. /\ stored' \in Shelf /\ DOMAIN stored' = DOMAIN stored
          /\ \A q \in DOMAIN stored : \A f \in CardFields :
               FieldOf(stored'[q], f) = IF q = c.of /\ f = "rating" THEN FieldOf(v, f)
                                        ELSE FieldOf(stored[q], f)
      BY <1>5, <2>4, StoredElsewhere
    <3>. QED
      BY <2>2, <3>1
  <2>6. PICK d \in CallRec : d = [c EXCEPT !.taken = TRUE]
    BY <1>3 DEF CallRec
  <2>7. d.of = c.of /\ d.value = c.value /\ d.taken = TRUE
    BY <1>3, <2>6 DEF CallRec
  <2>8. ratingCalls' = (ratingCalls \ {c}) \cup {d} /\ blurred' = BlurAnswers(c.of, "rating")
    BY <1>1, <1>5, <2>6
  <2>9. BulkTyped'
    BY <1>2, <2>5, <2>8 DEF BulkInv, BulkTyped
  <2>10. \A x \in ops' : OpFits(x)'
    BY <1>2, <2>5 DEF BulkInv, OpFits
  <2>11. ASSUME NEW q \in Pictures, NEW f \in CardFields, <<q, f>> \notin blurred'
         PROVE  Clear(q, f)'
    <3>1. Clear(q, f)
      BY <2>8, <2>11, OthersAreNotBlurred DEF BulkInv
    <3>2. CASE q = c.of /\ f = "rating"
      <4>1. CallOn(c, q, f) /\ CallOn(d, q, f)
        BY <2>7, <3>2 DEF CallOn
      <4>2. \A y \in ratingCalls' : CallOn(y, q, f) => y = d
        BY <1>1, <2>8, <3>1, <4>1 DEF Clear
      <4>3. \A x \in ops' : ~OpOn(x, q, f)
        BY <1>1, <1>2, <3>1, <4>1 DEF Clear
      <4>4. Underway(q, f)'
        BY <2>8, <4>1, UnderwayIs
      <4>5. Holds(q, f, d.value)'
        BY <2>5, <2>7, <3>2 DEF Holds
      <4>6. \A g \in refetch' : g.answer = {}
        BY <1>2, <2>8, <2>11, <3>2, NoAnswerYet
      <4>. QED
        BY <2>7, <4>2, <4>3, <4>4, <4>5, <4>6 DEF Clear, OpOn, CallOn, Taken
    <3>3. CASE ~(q = c.of /\ f = "rating")
      <4>1. ~CallOn(c, q, f) /\ ~CallOn(d, q, f)
        BY <2>7, <3>3 DEF CallOn
      <4>2. \A y \in ratingCalls' : CallOn(y, q, f) => y \in ratingCalls
        BY <2>8, <4>1
      <4>3. Underway(q, f) => Underway(q, f)'
        BY <1>2, <2>8, <4>1, UnderwayIs
      <4>4. q \in DOMAIN stored' => q \in DOMAIN stored
                                 /\ FieldOf(stored'[q], f) = FieldOf(stored[q], f)
        BY <2>5, <3>3
      <4>5. \A x, y \in ops' : OpOn(x, q, f) /\ OpOn(y, q, f) => x = y
        BY <1>2, <3>1 DEF Clear
      <4>. QED
        BY <1>2, <3>1, <4>2, <4>3, <4>4, <4>5, ClearKeeps
    <3>. QED
      BY <3>2, <3>3
  <2>. QED
    BY <2>9, <2>10, <2>11 DEF BulkInv
<1>. QED
  BY <1>4, <1>5

\* The rating is answered, and shown on the card.
LEMMA RatingAnsweredKeeps == ASSUME BulkInv, RatingAnswered PROVE BulkInv'
<1>1. PICK c \in ratingCalls :
         /\ c.taken
         /\ ratingCalls' = ratingCalls \ {c}
         /\ cards' = [p \in DOMAIN cards |-> IF p = c.of
                        THEN [cards[p] EXCEPT !.rating = c.value] ELSE cards[p]]
  BY DEF RatingAnswered
<1>2. UNCHANGED <<stored, selected, ops, refetch, blurred, clicks>>
  BY DEF RatingAnswered, BarRests
<1>3. c \in CallRec /\ c.of \in Pictures /\ c.value \in Ratings
  BY <1>1 DEF BulkInv, BulkTyped, CallRec
<1>4. cards \in Shelf /\ DOMAIN cards \subseteq Pictures /\ \A p \in DOMAIN cards : cards[p] \in Card
  BY ShelfIs DEF BulkInv, BulkTyped
<1>5. \A p \in DOMAIN cards :
        /\ [cards[p] EXCEPT !.rating = c.value] \in Card
        /\ [cards[p] EXCEPT !.rating = c.value].rating = c.value
        /\ [cards[p] EXCEPT !.rating = c.value].tags = cards[p].tags
  BY <1>3, <1>4 DEF Card
<1>6. cards' \in [DOMAIN cards -> Card]
  BY <1>1, <1>4, <1>5
<1>7. cards' \in Shelf /\ DOMAIN cards' = DOMAIN cards
  BY <1>4, <1>6, IsShelf
<1>8. \A p \in DOMAIN cards : \A f \in CardFields :
        FieldOf(cards'[p], f) = IF p = c.of /\ f = "rating" THEN c.value
                                ELSE FieldOf(cards[p], f)
  BY <1>1, <1>5 DEF FieldOf, CardFields
<1>9. BulkTyped'
  BY <1>1, <1>2, <1>7 DEF BulkInv, BulkTyped
<1>10. \A x \in ops' : OpFits(x)'
  BY <1>2 DEF BulkInv, OpFits
<1>11. ASSUME NEW p \in Pictures, NEW f \in CardFields, <<p, f>> \notin blurred'
       PROVE  Clear(p, f)'
  <2>1. Clear(p, f)
    BY <1>2, <1>11 DEF BulkInv
  <2>2. CASE p = c.of /\ f = "rating"
    <3>1. CallOn(c, p, f)
      BY <2>2 DEF CallOn
    <3>2. /\ \A x \in ops' : ~OpOn(x, p, f)
          /\ \A y \in ratingCalls' : ~CallOn(y, p, f)
      BY <1>1, <1>2, <2>1, <3>1 DEF Clear
    <3>3. Holds(p, f, c.value)
      BY <1>1, <2>1, <3>1 DEF Clear
    <3>4. Settled(p, f)'
      BY <1>2, <1>7, <1>8, <2>2, <3>3 DEF Settled, Holds
    <3>5. \A g \in refetch' : \A a \in g.answer : p \in DOMAIN a => Holds(p, f, FieldOf(a[p], f))'
      BY <1>2, <2>1 DEF Clear, Holds
    <3>. QED
      BY <3>2, <3>4, <3>5, ClearAtLast
  <2>3. CASE ~(p = c.of /\ f = "rating")
    <3>1. ~CallOn(c, p, f)
      BY <2>3 DEF CallOn
    <3>2. Underway(p, f) => Underway(p, f)'
      BY <1>1, <1>2, <3>1, UnderwayIs
    <3>3. p \in DOMAIN cards' => p \in DOMAIN cards
                                 /\ FieldOf(cards'[p], f) = FieldOf(cards[p], f)
      BY <1>7, <1>8, <2>3
    <3>4. \A x, y \in ops' : OpOn(x, p, f) /\ OpOn(y, p, f) => x = y
      BY <1>2, <2>1 DEF Clear
    <3>5. \A y \in ratingCalls' : CallOn(y, p, f) => y \in ratingCalls
      BY <1>1
    <3>. QED
      BY <1>2, <2>1, <3>2, <3>3, <3>4, <3>5, ClearKeeps
  <2>. QED
    BY <2>2, <2>3
<1>. QED
  BY <1>9, <1>10, <1>11 DEF BulkInv

\* A fresh search is sent, served with what is stored, and replaces the cards.
LEMMA SearchKeeps ==
  ASSUME BulkInv, FreshSearch \/ SearchServed \/ SearchLands
  PROVE  BulkInv'
<1>1. UNCHANGED <<stored, ops, ratingCalls, blurred>>
  BY DEF FreshSearch, SearchServed, SearchLands
<1>2. \A x \in ops' : OpFits(x)'
  BY <1>1 DEF BulkInv, OpFits
<1>3. BulkTyped
  BY DEF BulkInv
<1>4. CASE FreshSearch
  <2>1. PICK g : g = [answer |-> {}]
    OBVIOUS
  <2>2. g.answer = {} /\ refetch' = {g}
    BY <1>4, <2>1 DEF FreshSearch
  <2>3. clicks' = clicks + 1 /\ selected' = {} /\ UNCHANGED cards
    BY <1>4 DEF FreshSearch, Click
  <2>4. BulkTyped'
    BY <1>1, <1>3, <2>2, <2>3 DEF BulkTyped
  <2>5. ASSUME NEW p \in Pictures, NEW f \in CardFields, <<p, f>> \notin blurred'
        PROVE  Clear(p, f)'
    <3>1. Clear(p, f)
      BY <1>1, <2>5 DEF BulkInv
    <3>2. \A x, y \in ops' : OpOn(x, p, f) /\ OpOn(y, p, f) => x = y
      BY <1>1, <3>1 DEF Clear
    <3>3. Underway(p, f) => Underway(p, f)'
      BY <1>1, UnderwayIs
    <3>. QED
      BY <1>1, <2>2, <2>3, <3>1, <3>2, <3>3, ClearKeeps
  <2>. QED
    BY <1>2, <2>4, <2>5 DEF BulkInv
<1>5. CASE SearchServed
  <2>1. PICK shown \in SUBSET DOMAIN stored :
              refetch' = {[answer |-> {[p \in shown |-> stored[p]]}]}
    BY <1>5 DEF SearchServed
  <2>2. UNCHANGED <<cards, selected, clicks>>
    BY <1>5 DEF SearchServed, BarRests
  <2>3. PICK b : b = [p \in shown |-> stored[p]]
    OBVIOUS
  <2>4. b \in Shelf
    <3>1. DOMAIN stored \subseteq Pictures /\ \A p \in DOMAIN stored : stored[p] \in Card
      BY <1>3, ShelfIs DEF BulkTyped
    <3>2. b \in [shown -> Card] /\ shown \in SUBSET Pictures
      BY <2>3, <3>1
    <3>. QED
      BY <3>2, IsShelf
  <2>5. PICK g : g = [answer |-> {b}]
    OBVIOUS
  <2>6. g.answer = {b} /\ refetch' = {g}
    BY <2>1, <2>3, <2>5
  <2>7. BulkTyped'
    BY <1>1, <1>3, <2>2, <2>4, <2>6 DEF BulkTyped
  <2>8. ASSUME NEW p \in Pictures, NEW f \in CardFields, <<p, f>> \notin blurred'
        PROVE  Clear(p, f)'
    <3>1. Clear(p, f)
      BY <1>1, <2>8 DEF BulkInv
    <3>2. \A x, y \in ops' : OpOn(x, p, f) /\ OpOn(y, p, f) => x = y
      BY <1>1, <3>1 DEF Clear
    <3>3. Underway(p, f) => Underway(p, f)'
      BY <1>1, UnderwayIs
    <3>4. p \in DOMAIN b => Holds(p, f, FieldOf(b[p], f))'
      BY <1>1, <2>3 DEF Holds
    <3>. QED
      BY <1>1, <2>2, <2>6, <3>1, <3>2, <3>3, <3>4, ClearKeeps
  <2>. QED
    BY <1>2, <2>7, <2>8 DEF BulkInv
<1>6. CASE SearchLands
  <2>1. PICK g \in refetch : cards' \in g.answer
    BY <1>6 DEF SearchLands
  <2>2. refetch' = {} /\ UNCHANGED <<selected, clicks>>
    BY <1>6 DEF SearchLands, BarRests
  <2>3. BulkTyped'
    BY <1>1, <1>3, <2>1, <2>2 DEF BulkTyped
  <2>4. ASSUME NEW p \in Pictures, NEW f \in CardFields, <<p, f>> \notin blurred'
        PROVE  Clear(p, f)'
    <3>1. Clear(p, f)
      BY <1>1, <2>4 DEF BulkInv
    <3>2. p \in DOMAIN cards' => Holds(p, f, FieldOf(cards'[p], f))
      BY <2>1, <3>1 DEF Clear
    <3>3. Settled(p, f)'
      BY <1>1, <3>2 DEF Settled, Holds
    <3>4. \A x, y \in ops' : OpOn(x, p, f) /\ OpOn(y, p, f) => x = y
      BY <1>1, <3>1 DEF Clear
    <3>. QED
      BY <1>1, <2>2, <3>1, <3>3, <3>4, ClearKeeps
  <2>. QED
    BY <1>2, <2>3, <2>4 DEF BulkInv
<1>. QED
  BY <1>4, <1>5, <1>6

-----------------------------------------------------------------------------
(* The steps together.                                                     *)

\* At first each card shows what the catalog has.
LEMMA BulkStarts == BulkInit => BulkInv
<1>. SUFFICES ASSUME BulkInit PROVE BulkInv
  OBVIOUS
<1>1. /\ stored = [p \in Pictures |-> Blank] /\ cards = [p \in FirstCards |-> Blank]
      /\ selected = {} /\ ops = {} /\ ratingCalls = {} /\ refetch = {} /\ clicks = 0
  BY DEF BulkInit
<1>2. stored \in [Pictures -> Card] /\ cards \in [FirstCards -> Card] /\ FirstCards \in SUBSET Pictures
  BY <1>1, BlankIsACard, BulkAssumption
<1>3. BulkTyped
  BY <1>1, <1>2, IsShelf DEF BulkTyped
<1>4. ASSUME NEW p \in Pictures, NEW f \in CardFields
      PROVE  Clear(p, f)
  <2>1. Settled(p, f)
    BY <1>1 DEF Settled, Holds
  <2>. QED
    BY <1>1, <2>1 DEF Clear
<1>. QED
  BY <1>1, <1>3, <1>4 DEF BulkInv

\* Each step of the bulk edits keeps their invariant.
LEMMA BulkMoves == BulkInv /\ [BulkNext]_bulkVars => BulkInv'
<1>. SUFFICES ASSUME BulkInv, [BulkNext]_bulkVars PROVE BulkInv'
  OBVIOUS
<1>1. CASE UNCHANGED bulkVars
  <2>1. UNCHANGED <<stored, cards, ops, ratingCalls, refetch, blurred, selected, clicks>>
    BY <1>1 DEF bulkVars
  <2>. QED
    BY <2>1, BarStep DEF BulkInv, BulkTyped
<1>2. CASE BulkNext
  BY <1>2, BarWrites, LaneSendsKeeps, CatalogTakesKeeps, LaneAnsweredKeeps, LaneFailsKeeps,
     PatchEndsKeeps, OthersEndKeeps, CatalogDeletesKeeps, RateImageKeeps, RatingTakenKeeps,
     RatingAnsweredKeeps, SearchKeeps DEF BulkNext
<1>. QED
  BY <1>1, <1>2

\* The invariant says what the cards may show.
LEMMA CardsAreRight == BulkInv => CardsShowWhatIsStored
<1>. SUFFICES ASSUME BulkInv, NEW p \in DOMAIN cards \cap DOMAIN stored
              PROVE  /\ (<<p, "rating">> \in blurred \/ Underway(p, "rating")
                           \/ cards[p].rating = stored[p].rating)
                     /\ (<<p, "tags">> \in blurred \/ Underway(p, "tags")
                           \/ cards[p].tags = stored[p].tags)
  BY DEF CardsShowWhatIsStored
<1>1. p \in Pictures
  BY ShelfIs DEF BulkInv, BulkTyped
<1>2. ASSUME NEW f \in CardFields, <<p, f>> \notin blurred, ~Underway(p, f)
      PROVE  FieldOf(stored[p], f) = FieldOf(cards[p], f)
  <2>1. Clear(p, f)
    BY <1>1, <1>2 DEF BulkInv
  <2>. QED
    BY <1>2, <2>1 DEF Clear, Settled, Holds
<1>3. "rating" \in CardFields /\ "tags" \in CardFields
  BY DEF CardFields
<1>. QED
  BY <1>2, <1>3 DEF FieldOf

\* Two sets with nothing in common are counted one after the other.
LEMMA DisjointCounted ==
  ASSUME NEW S, IsFiniteSet(S), NEW T, IsFiniteSet(T), S \cap T = {}
  PROVE  Cardinality(S \cup T) = Cardinality(S) + Cardinality(T)
<1>1. Cardinality(S \cup T) = Cardinality(S) + Cardinality(T) - Cardinality(S \cap T)
  BY FS_Union
<1>2. Cardinality(S \cap T) = 0
  BY FS_EmptySet
<1>. QED
  BY <1>1, <1>2, FS_CardinalityType

\* The parts of an edit are counted one by one.
LEMMA EditsAreCounted == BulkInv => OneRequestPerImage
<1>. SUFFICES ASSUME BulkInv, NEW o \in ops, Patching(o)
              PROVE  /\ o.queue \cup InFlight(o) \cup o.updated \cup o.failed = o.ids
                     /\ Cardinality(o.queue) + Cardinality(InFlight(o))
                          + Cardinality(o.updated \cup o.failed) = Cardinality(o.ids)
  BY DEF OneRequestPerImage
<1>1. o \in OpRec /\ Parted(o)
  BY PatchingOp
<1>2. PICK q : q = o.queue
  OBVIOUS
<1>3. PICK i : i = InFlight(o)
  OBVIOUS
<1>4. PICK e : e = o.updated \cup o.failed
  OBVIOUS
<1>5. PICK r : r = q \cup i
  OBVIOUS
<1>6. r \cup e = o.ids /\ q \cap i = {} /\ r \cap e = {} /\ o.ids \subseteq Pictures
  BY <1>1, <1>2, <1>3, <1>4, <1>5 DEF Parted, InFlight, OpRec
<1>7. IsFiniteSet(o.ids)
  BY <1>6, FS_Subset, BulkAssumption
<1>8. IsFiniteSet(q) /\ IsFiniteSet(i) /\ IsFiniteSet(e) /\ IsFiniteSet(r)
  BY <1>5, <1>6, <1>7, FS_Subset
<1>9. Cardinality(r) = Cardinality(q) + Cardinality(i)
  BY <1>5, <1>6, <1>8, DisjointCounted
<1>10. Cardinality(o.ids) = Cardinality(r) + Cardinality(e)
  BY <1>6, <1>8, DisjointCounted
<1>11. o.queue \cup InFlight(o) \cup o.updated \cup o.failed = o.ids
  BY <1>2, <1>3, <1>4, <1>5, <1>6
<1>. QED
  BY <1>2, <1>3, <1>4, <1>9, <1>10, <1>11

\* The body of CardsLeaveWhenGone.
GoneCardsLeft == refetch' = refetch => \A p \in DOMAIN cards \ DOMAIN cards' : p \notin DOMAIN stored

\* A card leaves with a search, or when its image has gone.
LEMMA CardsStayUntilGone == BulkInv /\ [BulkNext]_bulkVars => GoneCardsLeft
<1>. SUFFICES ASSUME BulkInv, [BulkNext]_bulkVars, refetch' = refetch,
                     NEW p \in DOMAIN cards, p \notin DOMAIN cards'
              PROVE  p \notin DOMAIN stored
  BY DEF GoneCardsLeft
<1>1. CASE DeleteEnds
  <2>1. PICK o \in ops : o.kind = "delete" /\ cards' = Drop(cards, Pruned(o))
    BY <1>1 DEF DeleteEnds
  <2>2. DOMAIN cards' = DOMAIN cards \ o.updated
    BY <2>1 DEF Drop, Pruned
  <2>3. o.updated \cap DOMAIN stored = {}
    BY <2>1 DEF BulkInv, OpFits
  <2>. QED
    BY <2>2, <2>3
<1>2. CASE PatchEnds
  <2>1. DOMAIN cards' = DOMAIN cards
    BY <1>2 DEF PatchEnds
  <2>. QED
    BY <2>1
<1>3. CASE RatingAnswered
  <2>1. DOMAIN cards' = DOMAIN cards
    BY <1>3 DEF RatingAnswered
  <2>. QED
    BY <2>1
<1>4. CASE SearchLands
  BY <1>4 DEF SearchLands
<1>5. ASSUME UNCHANGED cards PROVE FALSE
  BY <1>5
<1>6. CASE BulkNext /\ ~DeleteEnds /\ ~PatchEnds /\ ~RatingAnswered /\ ~SearchLands
  <2>1. UNCHANGED cards
    BY <1>6 DEF BulkNext, ToggleSelect, SelectAll, ClearSelection, ToggleMenu, BulkFavorite,
                BulkRating, BulkTags, BulkMove, RequestDelete, CancelBulkDelete, ConfirmDelete,
                Start, LaneSends, CatalogTakes, LaneAnswered, LaneFails, MoveEnds,
                CatalogDeletes, DeleteAnswerLost, RateImage, RatingTaken, FreshSearch,
                SearchServed
  <2>. QED
    BY <1>5, <2>1
<1>7. CASE UNCHANGED bulkVars
  BY <1>5, <1>7 DEF bulkVars
<1>. QED
  BY <1>1, <1>2, <1>3, <1>4, <1>6, <1>7

-----------------------------------------------------------------------------
(* The tag box.                                                            *)

TagTexts == Texts \cup {EmptyText}
TagsAsked == [id : Nat, of : TagTexts, alive : BOOLEAN]

\* What the timer will ask for, and what is asked for and not dropped, is the
\* text that is there.
AskedFor(text) == \A r \in lookups : r.alive => r.of = text
TagsInv ==
    /\ draft \in TagTexts /\ tagKeys \in Nat /\ lookups \subseteq TagsAsked
    /\ debounce \in {NoText, draft} /\ AskedFor(draft)

\* At first the box is empty and asks for nothing.
LEMMA TagsStart == TagInit => TagsInv
BY DEF TagInit, TagsInv, AskedFor, TagTexts

\* The effect leaves a timer and requests for the text it ran for alone.
LEMMA LookupIsOfText ==
  ASSUME TagsInv, NEW text \in TagTexts, NEW shows, NEW local,
         Lookup(text, shows, local)
  PROVE  debounce' \in {NoText, text} /\ lookups' \subseteq TagsAsked /\ AskedFor(text)'
<1>1. CASE <<text, shows, local>> = <<draft, open, localList>>
  BY <1>1 DEF Lookup, TagsInv, AskedFor
<1>2. CASE <<text, shows, local>> # <<draft, open, localList>>
  <2>1. debounce' \in {NoText, text} /\ lookups' = Dropped(lookups)
    BY <1>2 DEF Lookup
  <2>2. ASSUME NEW r \in lookups'
        PROVE  r \in TagsAsked /\ ~r.alive
    <3>1. PICK q \in lookups : r = [q EXCEPT !.alive = FALSE]
      BY <2>1, <2>2 DEF Dropped
    <3>. QED
      BY <3>1 DEF TagsInv, TagsAsked
  <2>. QED
    BY <2>1, <2>2 DEF AskedFor
<1>. QED
  BY <1>1, <1>2

\* No step of the tag box leaves a request for another text alive.
LEMMA TagsMove == TagsInv /\ [TagNext]_tagVars => TagsInv'
<1>. SUFFICES ASSUME TagsInv, [TagNext]_tagVars
              PROVE  TagsInv'
  OBVIOUS
<1>0. draft \in TagTexts /\ EmptyText \in TagTexts /\ tagKeys \in Nat
  BY DEF TagsInv, TagTexts
<1>1. ASSUME NEW text \in TagTexts, NEW shows, NEW local, Lookup(text, shows, local),
             draft' = text, tagKeys' \in Nat
      PROVE  TagsInv'
  BY <1>1, LookupIsOfText DEF TagsInv, AskedFor
<1>2. ASSUME UNCHANGED <<draft, debounce, lookups>>, tagKeys' \in Nat
      PROVE  TagsInv'
  BY <1>2 DEF TagsInv, AskedFor
<1>3. TagKey => tagKeys' \in Nat
  BY <1>0 DEF TagKey
<1>4. ASSUME NEW tag, AddTag(tag), TagKey
      PROVE  TagsInv'
  BY <1>0, <1>1, <1>3, <1>4 DEF AddTag
<1>5. CASE TypeTag
  BY <1>1, <1>3, <1>5 DEF TypeTag, TagTexts
<1>6. CASE FocusTags
  BY <1>0, <1>1, <1>3, <1>6 DEF FocusTags
<1>7. CASE LeaveTags
  BY <1>2, <1>3, <1>7 DEF LeaveTags
<1>8. CASE BlurTimerFires
  BY <1>0, <1>1, <1>8 DEF BlurTimerFires
<1>9. CASE EnterTag
  BY <1>4, <1>9 DEF EnterTag
<1>10. CASE ClickSuggestion
  BY <1>4, <1>10 DEF ClickSuggestion
<1>11. CASE RemoveTag
  BY <1>2, <1>3, <1>11 DEF RemoveTag
<1>12. CASE MoveHighlight
  BY <1>0, <1>1, <1>2, <1>3, <1>12 DEF MoveHighlight
<1>13. CASE CloseSuggestions
  BY <1>0, <1>1, <1>3, <1>13 DEF CloseSuggestions
<1>14. CASE AskForTags
  <2>1. debounce = draft
    BY <1>14 DEF AskForTags, TagsInv
  <2>2. PICK r \in TagsAsked : r = [id |-> tagKeys, of |-> draft, alive |-> TRUE]
    BY <1>0 DEF TagsAsked
  <2>3. r.of = draft /\ lookups' = lookups \cup {r}
    BY <1>14, <2>1, <2>2 DEF AskForTags
  <2>. QED
    BY <1>14, <2>3 DEF AskForTags, TagsInv, AskedFor
<1>15. CASE TagsAnswered
  BY <1>15 DEF TagsAnswered, TagsInv, AskedFor
<1>16. CASE CatalogArrives
  BY <1>0, <1>1, <1>16 DEF CatalogArrives
<1>17. CASE UNCHANGED tagVars
  BY <1>0, <1>2, <1>17 DEF tagVars
<1>. QED
  BY <1>5, <1>6, <1>7, <1>8, <1>9, <1>10, <1>11, <1>12, <1>13, <1>14, <1>15, <1>16, <1>17
     DEF TagNext

\* The suggestions change to those for the text that is there.
LEMMA LatestTextStep == TagsInv /\ [TagNext]_tagVars => (remote' # remote => remote'.of = draft)
<1>. SUFFICES ASSUME TagsInv, [TagNext]_tagVars, remote' # remote
              PROVE  remote'.of = draft
  OBVIOUS
<1>1. TagsAnswered
  BY DEF TagNext, tagVars, TypeTag, FocusTags, LeaveTags, BlurTimerFires, EnterTag,
         ClickSuggestion, RemoveTag, MoveHighlight, CloseSuggestions, AskForTags,
         CatalogArrives, AddTag
<1>2. PICK r \in lookups : \E list : remote' = IF r.alive THEN [of |-> r.of, list |-> list] ELSE remote
  BY <1>1 DEF TagsAnswered
<1>. QED
  BY <1>2 DEF TagsInv, AskedFor

-----------------------------------------------------------------------------
(* The page of one image: its notes.                                       *)

NoteCalls == [step : {"post", "list"}, by : NoteIds \cup {0}, first : BOOLEAN,
              read : BOOLEAN, rows : SUBSET NoteIds]

\* One note is saved at a time. Until one was written beside the first list,
\* a list that was read is what is stored, and so is the one on screen when
\* no list is on its way.
NotesInv ==
    /\ noteCalls \subseteq NoteCalls /\ storedNotes \subseteq NoteIds
    /\ \A c \in noteCalls : c.step = "post" => ~c.first /\ ~c.read
    /\ \A c \in noteCalls : ~c.first => noteSaving = {c.by} /\ c.by \in NoteIds
    /\ \A c, d \in noteCalls : (c.first <=> d.first) => c = d
    /\ overtook \in BOOLEAN
    /\ ~overtook =>
         /\ \A c, d \in noteCalls : c = d
         /\ \A c \in noteCalls : c.read => c.rows = storedNotes
         /\ (\A c \in noteCalls : c.step = "post") => notes = storedNotes

\* The page opens with one list of the notes under way.
LEMMA NotesStart == DetailInit => NotesInv
<1>. SUFFICES ASSUME DetailInit
              PROVE  NotesInv
  OBVIOUS
<1>1. PICK c \in NoteCalls : c = [step |-> "list", by |-> 0, first |-> TRUE, read |-> FALSE, rows |-> {}]
  BY DEF NoteCalls
<1>2. c.step = "list" /\ c.first /\ ~c.read
  BY <1>1
<1>3. noteCalls = {c}
  BY <1>1 DEF DetailInit
<1>. QED
  BY <1>2, <1>3 DEF DetailInit, NotesInv

\* Each step of the detail page keeps the invariant of its notes.
LEMMA NotesMove == NotesInv /\ [DetailNext]_detailVars => NotesInv'
<1>. SUFFICES ASSUME NotesInv, [DetailNext]_detailVars
              PROVE  NotesInv'
  OBVIOUS
<1>1. CASE UNCHANGED noteVars
  BY <1>1 DEF NotesInv, noteVars
<1>2. CASE NotesServed
  <2>1. PICK c \in noteCalls : /\ c.step = "list" /\ ~c.read
                               /\ noteCalls' = (noteCalls \ {c}) \cup
                                    {[c EXCEPT !.read = TRUE, !.rows = storedNotes]}
    BY <1>2 DEF NotesServed
  <2>6. c \in NoteCalls /\ storedNotes \in SUBSET NoteIds
    BY <2>1 DEF NotesInv
  <2>2. PICK n \in NoteCalls : n = [c EXCEPT !.read = TRUE, !.rows = storedNotes]
    BY <2>6 DEF NoteCalls
  <2>3. n.step = "list" /\ n.by = c.by /\ n.first = c.first /\ n.read /\ n.rows = storedNotes
    BY <2>1, <2>2, <2>6 DEF NoteCalls
  <2>4. noteCalls' = (noteCalls \ {c}) \cup {n}
    BY <2>1, <2>2
  <2>5. UNCHANGED <<storedNotes, notes, noteSaving, overtook>>
    BY <1>2 DEF NotesServed
  <2>. QED
    BY <2>1, <2>3, <2>4, <2>5 DEF NotesInv
<1>3. CASE NotesArrive
  <2>1. PICK c \in noteCalls : /\ c.read /\ noteCalls' = noteCalls \ {c} /\ notes' = c.rows
                               /\ noteSaving' = IF c.first THEN noteSaving ELSE noteSaving \ {c.by}
    BY <1>3 DEF NotesArrive
  <2>2. UNCHANGED <<storedNotes, overtook>>
    BY <1>3 DEF NotesArrive
  <2>3. \A d \in noteCalls' : ~d.first => noteSaving' = {d.by}
    BY <2>1 DEF NotesInv, NoteCalls
  <2>. QED
    BY <2>1, <2>2, <2>3 DEF NotesInv
<1>4. CASE AddDetailNote
  <2>1. PICK n \in NoteIds : /\ noteSaving' = noteSaving \cup {n}
                             /\ noteCalls' = noteCalls \cup {[step |-> "post", by |-> n,
                                  first |-> FALSE, read |-> FALSE, rows |-> {}]}
    BY <1>4 DEF AddDetailNote
  <2>2. noteSaving = {} /\ UNCHANGED <<storedNotes, notes>>
        /\ overtook' = (overtook \/ \E c \in noteCalls : c.first)
    BY <1>4 DEF AddDetailNote, MayAdd
  <2>3. PICK m \in NoteCalls : m = [step |-> "post", by |-> n, first |-> FALSE, read |-> FALSE, rows |-> {}]
    BY <2>1 DEF NoteCalls
  <2>4. m.step = "post" /\ m.by = n /\ m.first = FALSE /\ m.read = FALSE
    BY <2>3
  <2>5. \A c \in noteCalls : c.first
    BY <2>2 DEF NotesInv
  <2>6. noteCalls' = noteCalls \cup {m}
    BY <2>1, <2>3
  <2>7. ~overtook' => noteCalls = {} /\ ~overtook
    BY <2>2, <2>5
  <2>8. noteCalls' \subseteq NoteCalls /\ \A c, d \in noteCalls' : (c.first <=> d.first) => c = d
    BY <2>4, <2>5, <2>6 DEF NotesInv, NoteCalls
  <2>. QED
    BY <2>1, <2>2, <2>4, <2>5, <2>6, <2>7, <2>8 DEF NotesInv
<1>5. CASE DetailNoteStored
  <2>1. PICK c \in noteCalls : /\ c.step = "post"
                               /\ storedNotes' = storedNotes \cup {c.by}
                               /\ noteCalls' = (noteCalls \ {c}) \cup {[c EXCEPT !.step = "list"]}
    BY <1>5 DEF DetailNoteStored
  <2>6. c \in NoteCalls /\ ~c.first /\ ~c.read
    BY <2>1 DEF NotesInv
  <2>2. PICK n \in NoteCalls : n = [c EXCEPT !.step = "list"]
    BY <2>6 DEF NoteCalls
  <2>3. n.step = "list" /\ n.by = c.by /\ ~n.first /\ ~n.read
    BY <2>2, <2>6 DEF NoteCalls
  <2>4. noteCalls' = (noteCalls \ {c}) \cup {n} /\ UNCHANGED <<notes, noteSaving, overtook>>
    BY <1>5, <2>1, <2>2 DEF DetailNoteStored
  <2>5. c.by \in NoteIds
    BY <2>1, <2>6 DEF NotesInv
  <2>. QED
    BY <2>1, <2>3, <2>4, <2>5 DEF NotesInv
<1>6. CASE NoteCallFails
  <2>1. PICK c \in noteCalls :
          /\ noteCalls' = noteCalls \ {c}
          /\ notes' \in IF c.first THEN {notes, {}} ELSE {notes}
          /\ noteSaving' = IF c.first THEN noteSaving ELSE noteSaving \ {c.by}
          /\ storedNotes' \in {storedNotes} \cup
               IF c.step = "post" THEN {storedNotes \cup {c.by}} ELSE {}
          /\ overtook' = (overtook \/ c.step = "list" \/ storedNotes' # storedNotes)
    BY <1>6 DEF NoteCallFails
  <2>2. CASE c.step = "list"
    <3>1. storedNotes' = storedNotes /\ overtook' = TRUE
      BY <2>1, <2>2
    <3>2. \A d \in noteCalls' : ~d.first => noteSaving' = {d.by} /\ d.by \in NoteIds
      BY <2>1 DEF NotesInv
    <3>. QED
      BY <2>1, <3>1, <3>2 DEF NotesInv
  <2>3. CASE c.step = "post"
    <3>1. ~c.first /\ noteSaving = {c.by} /\ c.by \in NoteIds
      BY <2>1, <2>3 DEF NotesInv
    <3>2. notes' = notes /\ storedNotes' \subseteq NoteIds
      BY <2>1, <2>3, <3>1 DEF NotesInv
    <3>3. \A d \in noteCalls' : d.first
      BY <2>1, <3>1 DEF NotesInv
    <3>4. overtook' \in BOOLEAN /\ (~overtook' => ~overtook /\ storedNotes' = storedNotes)
      BY <2>1 DEF NotesInv
    <3>5. ~overtook' => noteCalls' = {} /\ notes' = storedNotes'
      BY <2>1, <2>3, <3>2, <3>4 DEF NotesInv
    <3>. QED
      BY <2>1, <3>2, <3>3, <3>4, <3>5 DEF NotesInv
  <2>4. c.step \in {"list", "post"}
    BY <2>1 DEF NotesInv, NoteCalls
  <2>. QED
    BY <2>2, <2>3, <2>4
<1>. QED
  BY <1>1, <1>2, <1>3, <1>4, <1>5, <1>6
     DEF DetailNext, detailVars, DetailArrives, DetailFails, RateDetail, ToggleFavorite,
         EditTaken, EditAnswered, EditRefused, SettingsRead, LoadSimilar, LoadDebug,
         PanelAnswered, ConfirmRemoval, RemoveFromLibrary, Removed, RemovalFails,
         RemovedByOthers

-----------------------------------------------------------------------------
(* The grid and the viewer.                                                *)

\* What holds for the first and passes from each to the next holds for all.
LEMMA StepByStep ==
  ASSUME NEW n \in Nat, NEW T, \A k \in 1..n : (k = 1 \/ k - 1 \in T) => k \in T
  PROVE  \A k \in 1..n : k \in T
<1>1. PICK bad : bad = (1..n) \ T
  OBVIOUS
<1>2. SUFFICES ASSUME bad # {}
               PROVE  FALSE
  BY <1>1
<1>3. bad \in SUBSET Nat
  BY <1>1
<1>4. PICK m : m \in bad /\ \A y \in bad : m =< y
  BY <1>2, <1>3, LeastIsThere
<1>5. m \in 1..n /\ m \notin T
  BY <1>1, <1>4
<1>6. m # 1
  BY <1>5
<1>7. m - 1 \in 1..n /\ m - 1 \notin bad
  BY <1>3, <1>4, <1>5, <1>6
<1>. QED
  BY <1>1, <1>5, <1>7

\* Lists laid end to end, one more each time.
IsFlat(f, seqs, n) == f = [i \in 1..n |-> IF i = 1 THEN seqs[i] ELSE f[i - 1] \o seqs[i]]

\* One list more is laid behind the others.
LEMMA FlatStep ==
  ASSUME NEW n, NEW seqs, NEW f, IsFlat(f, seqs, n), NEW i \in 1..n
  PROVE  f[i] = IF i = 1 THEN seqs[i] ELSE f[i - 1] \o seqs[i]
BY DEF IsFlat

\* There is such a function.
LEMMA FlatExists ==
  ASSUME NEW n \in Nat, NEW seqs
  PROVE  \E f : IsFlat(f, seqs, n)
<1>1. IsFlat([i \in 1..0 |-> 0], seqs, 0)
  BY DEF IsFlat
<1>2. PICK T : T = {k \in 1..n : \E f : IsFlat(f, seqs, k)}
  OBVIOUS
<1>3. ASSUME NEW m \in 1..n, m = 1 \/ m - 1 \in T
      PROVE  m \in T
  <2>1. \E g : m = 1 \/ IsFlat(g, seqs, m - 1)
    BY <1>2, <1>3
  <2>2. PICK g : m = 1 \/ IsFlat(g, seqs, m - 1)
    BY <2>1
  <2>. DEFINE h == [i \in 1..m |-> IF i < m THEN g[i]
                                   ELSE IF i = 1 THEN seqs[i] ELSE g[i - 1] \o seqs[i]]
  <2>3. ASSUME NEW i \in 1..m
        PROVE  h[i] = IF i = 1 THEN seqs[i] ELSE h[i - 1] \o seqs[i]
    <3>1. CASE i < m
      <4>1. i \in 1..(m - 1) /\ h[i] = g[i]
        BY <3>1
      <4>2. g[i] = IF i = 1 THEN seqs[i] ELSE g[i - 1] \o seqs[i]
        <5>1. m # 1
          BY <3>1
        <5>. QED
          BY <2>2, <4>1, <5>1, FlatStep
      <4>3. i # 1 => h[i - 1] = g[i - 1]
        BY <3>1
      <4>. QED
        BY <4>1, <4>2, <4>3
    <3>2. CASE i = m
      <4>1. i # 1 => h[i - 1] = g[i - 1]
        BY <3>2
      <4>2. h[i] = IF i = 1 THEN seqs[i] ELSE g[i - 1] \o seqs[i]
        BY <3>2
      <4>. QED
        BY <4>1, <4>2
    <3>. QED
      BY <3>1, <3>2
  <2>4. IsFlat(h, seqs, m)
    <3>1. h = [i \in 1..m |-> h[i]]
      OBVIOUS
    <3>. HIDE DEF h
    <3>. QED
      BY <2>3, <3>1 DEF IsFlat
  <2>. QED
    BY <1>2, <2>4
<1>4. \A k \in 1..n : k \in T
  BY <1>3, StepByStep
<1>5. n = 0 \/ n \in 1..n
  OBVIOUS
<1>. QED
  BY <1>1, <1>2, <1>4, <1>5

AllLists(seqs, n, S) == \A k \in 1..n : seqs[k] \in Seq(S)

\* Lists laid end to end are a list.
LEMMA FlatIsAList ==
  ASSUME NEW n \in Nat, NEW seqs, NEW S, AllLists(seqs, n, S),
         NEW f, IsFlat(f, seqs, n)
  PROVE  \A k \in 1..n : f[k] \in Seq(S)
<1>1. PICK T : T = {k \in 1..n : f[k] \in Seq(S)}
  OBVIOUS
<1>2. ASSUME NEW m \in 1..n, m = 1 \/ m - 1 \in T
      PROVE  m \in T
  <2>1. f[m] = IF m = 1 THEN seqs[m] ELSE f[m - 1] \o seqs[m]
    BY FlatStep
  <2>2. m # 1 => f[m - 1] \in Seq(S)
    BY <1>1, <1>2
  <2>3. f[m] \in Seq(S)
    BY <2>1, <2>2 DEF AllLists
  <2>. QED
    BY <1>1, <2>3
<1>. QED
  BY <1>1, <1>2, StepByStep

\* What lies before the j-th of them.
Before(f, j) == IF j = 1 THEN 0 ELSE Len(f[j - 1])

AtPlace(f, seqs, k) ==
  \A j \in 1..k : \A i \in 1..Len(seqs[j]) :
    f[k][Before(f, j) + i] = seqs[j][i] /\ Before(f, j) + i \in 1..Len(f[k])

\* An item of the j-th list is found behind what lies before that list.
LEMMA FlatHolds ==
  ASSUME NEW n \in Nat, NEW seqs, NEW S, AllLists(seqs, n, S),
         NEW f, IsFlat(f, seqs, n)
  PROVE  \A k \in 1..n : AtPlace(f, seqs, k)
<1>1. PICK T : T = {k \in 1..n : AtPlace(f, seqs, k)}
  OBVIOUS
<1>2. \A k \in 1..n : f[k] \in Seq(S)
  BY FlatIsAList
<1>3. ASSUME NEW m \in 1..n, m = 1 \/ m - 1 \in T
      PROVE  m \in T
  <2>1. f[m] = IF m = 1 THEN seqs[m] ELSE f[m - 1] \o seqs[m]
    BY FlatStep
  <2>2. ASSUME NEW j \in 1..m, NEW i \in 1..Len(seqs[j])
        PROVE  f[m][Before(f, j) + i] = seqs[j][i] /\ Before(f, j) + i \in 1..Len(f[m])
    <3>1. j \in 1..n /\ seqs[j] \in Seq(S) /\ seqs[m] \in Seq(S) /\ Len(seqs[j]) \in Nat
      BY DEF AllLists
    <3>2. CASE m = 1
      BY <2>1, <3>1, <3>2 DEF Before
    <3>3. CASE m # 1
      <4>1. m - 1 \in 1..n /\ m - 1 \in T
        BY <1>3, <3>3
      <4>2. PICK a : a = f[m - 1]
        OBVIOUS
      <4>3. PICK b : b = seqs[m]
        OBVIOUS
      <4>4. a \in Seq(S) /\ b \in Seq(S) /\ f[m] = a \o b
        BY <1>2, <2>1, <3>1, <3>3, <4>1, <4>2, <4>3
      <4>5. /\ Len(a) \in Nat /\ Len(b) \in Nat /\ Len(a \o b) = Len(a) + Len(b)
            /\ \A x \in 1..Len(a) : (a \o b)[x] = a[x]
            /\ \A x \in 1..Len(b) : (a \o b)[Len(a) + x] = b[x]
        BY <4>4
      <4>6. CASE j = m
        <5>1. Before(f, j) = Len(a) /\ i \in 1..Len(b) /\ seqs[j] = b
          BY <3>3, <4>2, <4>3, <4>6 DEF Before
        <5>2. Len(a) + i \in 1..Len(a \o b)
          BY <4>5, <5>1
        <5>. QED
          BY <4>4, <4>5, <4>6, <5>1, <5>2
      <4>7. CASE j # m
        <5>1. j \in 1..(m - 1)
          BY <4>7
        <5>2. a[Before(f, j) + i] = seqs[j][i] /\ Before(f, j) + i \in 1..Len(a)
          BY <1>1, <4>1, <4>2, <5>1 DEF AtPlace
        <5>. QED
          BY <4>4, <4>5, <5>2
      <4>. QED
        BY <4>6, <4>7
    <3>. QED
      BY <3>2, <3>3
  <2>. QED
    BY <1>1, <2>2 DEF AtPlace
<1>4. \A k \in 1..n : k \in T
  BY <1>3, StepByStep
<1>. QED
  BY <1>1, <1>4

\* What lies before each list, summed up from the lengths of the lists.
IsSum(g, seqs, k) == g = [j \in 1..k |-> IF j = 1 THEN 0 ELSE g[j - 1] + Len(seqs[j - 1])]

\* One list further, its length lies before as well.
LEMMA BeforeGrows ==
  ASSUME NEW n \in Nat, NEW seqs, NEW S, AllLists(seqs, n, S),
         NEW f, IsFlat(f, seqs, n), NEW j \in 1..n, j # 1
  PROVE  Before(f, j) = Before(f, j - 1) + Len(seqs[j - 1])
<1>1. PICK i : i = j - 1
  OBVIOUS
<1>2. i \in 1..n /\ j = i + 1
  BY <1>1
<1>3. f[i] = IF i = 1 THEN seqs[i] ELSE f[i - 1] \o seqs[i]
  BY <1>2, FlatStep
<1>4. Before(f, j) = Len(f[i]) /\ seqs[i] \in Seq(S)
  BY <1>1, <1>2 DEF Before, AllLists
<1>5. CASE i = 1
  <2>1. Len(seqs[i]) \in Nat /\ f[i] = seqs[i] /\ Before(f, i) = 0
    BY <1>3, <1>4, <1>5 DEF Before
  <2>. QED
    BY <1>1, <1>4, <2>1
<1>6. CASE i # 1
  <2>1. i - 1 \in 1..n
    BY <1>2, <1>6
  <2>2. PICK a : a = f[i - 1]
    OBVIOUS
  <2>3. a \in Seq(S)
    BY <2>1, <2>2, FlatIsAList
  <2>4. Len(a \o seqs[i]) = Len(a) + Len(seqs[i])
    BY <1>4, <2>3
  <2>. QED
    BY <1>1, <1>3, <1>4, <1>6, <2>2, <2>4 DEF Before
<1>. QED
  BY <1>5, <1>6

\* The sum tells what lies before.
LEMMA SumIsBefore ==
  ASSUME NEW n \in Nat, NEW seqs, NEW S, AllLists(seqs, n, S),
         NEW f, IsFlat(f, seqs, n), NEW k \in 1..n, NEW g, IsSum(g, seqs, k)
  PROVE  \A j \in 1..k : g[j] = Before(f, j)
<1>1. PICK T : T = {j \in 1..k : g[j] = Before(f, j)}
  OBVIOUS
<1>2. ASSUME NEW m \in 1..k, m = 1 \/ m - 1 \in T
      PROVE  m \in T
  <2>1. g[m] = IF m = 1 THEN 0 ELSE g[m - 1] + Len(seqs[m - 1])
    BY DEF IsSum
  <2>2. CASE m = 1
    BY <1>1, <2>1, <2>2 DEF Before
  <2>3. CASE m # 1
    <3>1. g[m - 1] = Before(f, m - 1)
      BY <1>1, <1>2, <2>3
    <3>2. Before(f, m) = Before(f, m - 1) + Len(seqs[m - 1])
      BY <2>3, BeforeGrows
    <3>. QED
      BY <1>1, <2>1, <2>3, <3>1, <3>2
  <2>. QED
    BY <2>2, <2>3
<1>3. k \in Nat
  OBVIOUS
<1>. QED
  BY <1>1, <1>2, <1>3, StepByStep

\* There is such a sum.
LEMMA SumExists ==
  ASSUME NEW n \in Nat, NEW seqs, NEW S, AllLists(seqs, n, S),
         NEW f, IsFlat(f, seqs, n), NEW k \in 1..n
  PROVE  \E g : IsSum(g, seqs, k)
<1>. DEFINE g == [j \in 1..k |-> Before(f, j)]
<1>1. ASSUME NEW j \in 1..k
      PROVE  g[j] = IF j = 1 THEN 0 ELSE g[j - 1] + Len(seqs[j - 1])
  <2>1. CASE j = 1
    BY <2>1 DEF Before
  <2>2. CASE j # 1
    <3>1. j - 1 \in 1..k /\ j \in 1..n
      BY <2>2
    <3>2. g[j - 1] = Before(f, j - 1) /\ g[j] = Before(f, j)
      BY <3>1
    <3>3. Before(f, j) = Before(f, j - 1) + Len(seqs[j - 1])
      BY <2>2, <3>1, BeforeGrows
    <3>. HIDE DEF g
    <3>. QED
      BY <2>2, <3>2, <3>3
  <2>. QED
    BY <2>1, <2>2
<1>2. g = [j \in 1..k |-> g[j]]
  OBVIOUS
<1>. HIDE DEF g
<1>3. IsSum(g, seqs, k)
  BY <1>1, <1>2 DEF IsSum
<1>. QED
  BY <1>3

\* Items found in lists laid end to end: each is where its list says, behind the
\* items of the lists before.
LEMMA FlatIndexed ==
  ASSUME NEW n \in Nat, NEW seqs, NEW S, AllLists(seqs, n, S),
         Len(seqs) = n, NEW k \in 1..n, NEW i \in 1..Len(seqs[k]),
         NEW sum, IsSum(sum, seqs, k)
  PROVE  FlattenSeq(seqs)[sum[k] + i] = seqs[k][i]
<1>1. \E f : IsFlat(f, seqs, n)
  BY FlatExists
<1>2. PICK flat : IsFlat(flat, seqs, n) /\ flat = CHOOSE f : IsFlat(f, seqs, n)
  BY <1>1, Zenon
<1>3. FlattenSeq(seqs) = flat[n]
  <2>1. n # 0
    OBVIOUS
  <2>. QED
    BY <1>2, <2>1, Zenon DEF FlattenSeq, IsFlat
<1>4. sum[k] = Before(flat, k)
  <2>1. \A j \in 1..k : sum[j] = Before(flat, j)
    BY <1>2, SumIsBefore
  <2>. QED
    BY <2>1
<1>5. flat[n][Before(flat, k) + i] = seqs[k][i]
  <2>1. n \in 1..n /\ k \in 1..n
    OBVIOUS
  <2>2. AtPlace(flat, seqs, n)
    BY <1>2, <2>1, FlatHolds
  <2>. QED
    BY <2>1, <2>2 DEF AtPlace
<1>. QED
  BY <1>3, <1>4, <1>5

\* A function on the numbers up to n is a list of its values.
LEMMA NumberedIsAList ==
  ASSUME NEW n \in Nat, NEW f, f = [k \in 1..n |-> f[k]]
  PROVE  f \in Seq({f[k] : k \in 1..n}) /\ Len(f) = n /\ DOMAIN f = 1..n
<1>1. PICK S : S = {f[k] : k \in 1..n}
  OBVIOUS
<1>2. f \in [1..n -> S]
  BY <1>1
<1>3. f \in Seq(S)
  BY <1>2
<1>. QED
  BY <1>1, <1>2, <1>3

\* The ranks of some places run from 1 to their number.
LEMMA RanksAreNumbered ==
  ASSUME NEW n \in Nat, NEW at \in SUBSET (1..n)
  PROVE  IsFiniteSet(at) /\ Cardinality(at) \in Nat
<1>1. IsFiniteSet(1..n)
  BY FS_Interval
<1>. QED
  BY <1>1, FS_Subset, FS_CardinalityType

\* The rows as they are drawn are numbered.
LEMMA DrawnAreNumbered ==
  ASSUME rows \in Seq(Pics)
  PROVE  \E n \in Nat : DOMAIN DisplayResults = 1..n
<1>1. PICK m \in Nat : DOMAIN rows = 1..m
  OBVIOUS
<1>2. Cardinality(DOMAIN rows) \in Nat
  BY <1>1, RanksAreNumbered
<1>3. \/ DisplayResults = rows
      \/ DOMAIN DisplayResults = 1..Cardinality(DOMAIN rows)
  BY Zenon DEF DisplayResults, Ranked
<1>. QED
  BY <1>1, <1>2, <1>3

\* The rows of a folder are a list.
LEMMA ItemsAreNumbered ==
  ASSUME rows \in Seq(Pics), NEW f
  PROVE  \E m \in Nat : ItemsOf(f) = [k \in 1..m |-> ItemsOf(f)[k]]
<1>1. PICK n \in Nat : DOMAIN DisplayResults = 1..n
  BY DrawnAreNumbered
<1>2. PICK at : at = {i \in DOMAIN DisplayResults : FolderOf[DisplayResults[i]] = f}
  OBVIOUS
<1>3. Cardinality(at) \in Nat
  BY <1>1, <1>2, RanksAreNumbered
<1>4. PICK order : order = Ranked(at, <)
  OBVIOUS
<1>5. DOMAIN order = 1..Cardinality(at)
  BY <1>4, Zenon DEF Ranked
<1>6. ItemsOf(f) = [k \in DOMAIN order |-> DisplayResults[order[k]]]
  BY <1>2, <1>4, Zenon DEF ItemsOf
<1>. QED
  BY <1>3, <1>5, <1>6

\* The folders are numbered.
LEMMA SectionsAreNumbered ==
  ASSUME rows \in Seq(Pics)
  PROVE  \E n \in Nat : DOMAIN SectionKeys = 1..n
<1>1. PICK n \in Nat : DOMAIN DisplayResults = 1..n
  BY DrawnAreNumbered
<1>2. PICK at : at = {i \in DOMAIN DisplayResults : \A j \in 1..(i - 1) :
                        FolderOf[DisplayResults[j]] # FolderOf[DisplayResults[i]]}
  OBVIOUS
<1>3. Cardinality(at) \in Nat
  BY <1>1, <1>2, RanksAreNumbered
<1>4. DOMAIN SectionKeys = 1..Cardinality(at)
  BY <1>2, Zenon DEF SectionKeys, Ranked
<1>. QED
  BY <1>3, <1>4

\* The card at place i of the k-th section is in the gallery where the offset of
\* the section says.
LEMMA SectionsAreIndexed ==
  ASSUME rows \in Seq(Pics), Grouping, NEW k \in DOMAIN SectionKeys,
         NEW i \in DOMAIN SectionItems(k)
  PROVE  GalleryItems[StartOffset(k) + i] = SectionItems(k)[i]
<1>1. PICK n \in Nat : DOMAIN SectionKeys = 1..n
  BY SectionsAreNumbered
<1>. DEFINE seqs == [j \in 1..n |-> SectionItems(j)]
<1>. DEFINE S == UNION {{SectionItems(j)[x] : x \in DOMAIN SectionItems(j)} : j \in 1..n}
<1>2. ASSUME NEW j \in 1..n
      PROVE  SectionItems(j) \in Seq(S) /\ DOMAIN SectionItems(j) = 1..Len(SectionItems(j))
  <2>1. PICK q : q = SectionItems(j)
    OBVIOUS
  <2>2. PICK m \in Nat : q = [x \in 1..m |-> q[x]]
    BY <2>1, ItemsAreNumbered DEF SectionItems
  <2>3. q \in Seq({q[x] : x \in 1..m}) /\ Len(q) = m /\ DOMAIN q = 1..m
    BY <2>2, NumberedIsAList
  <2>4. \A x \in 1..m : q[x] \in S
    BY <2>1, <2>3
  <2>5. q \in [1..m -> S]
    BY <2>2, <2>4
  <2>6. q \in Seq(S)
    BY <2>5
  <2>. QED
    BY <2>1, <2>3, <2>6
<1>. HIDE DEF S
<1>3. \A j \in 1..n : seqs[j] = SectionItems(j)
  OBVIOUS
<1>4. Len(seqs) = n
  <2>1. seqs \in [1..n -> Seq(S)]
    BY <1>2
  <2>. QED
    BY <2>1
<1>5. GalleryItems = FlattenSeq(seqs)
  BY <1>1 DEF GalleryItems
<1>. HIDE DEF seqs
<1>6. k \in 1..n /\ i \in 1..Len(seqs[k]) /\ AllLists(seqs, n, S)
  BY <1>1, <1>2, <1>3 DEF AllLists
<1>7. PICK g : IsSum(g, seqs, k)
  <2>1. PICK f : IsFlat(f, seqs, n)
    BY FlatExists
  <2>. QED
    BY <1>6, <2>1, SumExists
<1>. DEFINE Offset(h) ==
              h = [j \in 1..k |-> IF j = 1 THEN 0 ELSE h[j - 1] + Len(SectionItems(j - 1))]
<1>8. \A j \in 1..k : j # 1 => seqs[j - 1] = SectionItems(j - 1)
  BY <1>3, <1>6
<1>9. ASSUME NEW h
      PROVE  Offset(h) <=> IsSum(h, seqs, k)
  <2>1. [j \in 1..k |-> IF j = 1 THEN 0 ELSE h[j - 1] + Len(SectionItems(j - 1))]
        = [j \in 1..k |-> IF j = 1 THEN 0 ELSE h[j - 1] + Len(seqs[j - 1])]
    BY <1>8
  <2>. QED
    BY <2>1 DEF IsSum
<1>10. \E h : Offset(h)
  BY <1>7, <1>9
<1>. DEFINE offset == CHOOSE h : Offset(h)
<1>11. Offset(offset)
  BY <1>10, Zenon
<1>12. StartOffset(k) = offset[k]
  BY Zenon DEF StartOffset
<1>. HIDE DEF offset, Offset
<1>13. IsSum(offset, seqs, k)
  BY <1>9, <1>11
<1>14. PICK sum, lists : sum = offset /\ lists = seqs
  OBVIOUS
<1>15. /\ AllLists(lists, n, S)
       /\ Len(lists) = n /\ i \in 1..Len(lists[k]) /\ IsSum(sum, lists, k)
  BY <1>4, <1>6, <1>13, <1>14
<1>16. FlattenSeq(lists)[sum[k] + i] = lists[k][i]
  BY <1>1, <1>6, <1>15, FlatIndexed
<1>. QED
  BY <1>3, <1>5, <1>6, <1>12, <1>14, <1>16

\* The rows are images, and the viewer got the card that was clicked last.
GroupsInv == rows \in Seq(Pics) /\ CardsOpenThemselves

\* At first there are no rows, and nothing was clicked.
LEMMA GroupsStart == GridInit => GroupsInv
BY DEF GridInit, GroupsInv, CardsOpenThemselves

\* A click hands the viewer the card's own image.
LEMMA ClickOpensCard ==
  ASSUME GroupsInv, OpenFromGrid
  PROVE  GroupsInv'
<1>1. rows \in Seq(Pics) /\ rows' = rows
  BY DEF GroupsInv, OpenFromGrid
<1>2. CASE Grouping
  <2>1. PICK k \in SectionsShown : \E i \in DOMAIN SectionItems(k) :
             opened' = [card |-> <<SectionItems(k)[i]>>,
                        image |-> <<GalleryItems[StartOffset(k) + i]>>]
    BY <1>2 DEF OpenFromGrid
  <2>2. PICK i \in DOMAIN SectionItems(k) :
             opened' = [card |-> <<SectionItems(k)[i]>>,
                        image |-> <<GalleryItems[StartOffset(k) + i]>>]
    BY <2>1
  <2>3. GalleryItems[StartOffset(k) + i] = SectionItems(k)[i]
    BY <1>1, <1>2, <2>1, <2>2, SectionsAreIndexed DEF SectionsShown
  <2>. QED
    BY <1>1, <2>2, <2>3 DEF GroupsInv, CardsOpenThemselves
<1>3. CASE ~Grouping
  BY <1>1, <1>3 DEF OpenFromGrid, GalleryItems, GroupsInv, CardsOpenThemselves
<1>. QED
  BY <1>2, <1>3

\* However the rows change, they are a list of images.
LEMMA RowsChangeKeeps ==
  ASSUME GroupsInv, RowsChange
  PROVE  GroupsInv'
<1>1. rows \in Seq(Pics) /\ opened' = opened
  BY DEF GroupsInv, RowsChange
<1>2. ASSUME NEW p \in Pics, rows' = Append(rows, p) \/ rows' = <<p>> \o rows
      PROVE  rows' \in Seq(Pics)
  <2>1. <<p>> \in Seq(Pics)
    OBVIOUS
  <2>2. <<p>> \o rows \in Seq(Pics) /\ Append(rows, p) \in Seq(Pics)
    BY <1>1, <2>1
  <2>. QED
    BY <1>2, <2>2
<1>3. ASSUME rows' = Reverse(rows)
      PROVE  rows' \in Seq(Pics)
  BY <1>1, <1>3 DEF Reverse
<1>4. ASSUME NEW i \in DOMAIN rows, rows' = RemoveAt(rows, i)
      PROVE  rows' \in Seq(Pics)
  <2>1. i \in 1..Len(rows)
    BY <1>1
  <2>. QED
    BY <1>1, <1>4, <2>1, OneRemoved
<1>5. \/ \E p \in Pics : rows' = Append(rows, p) \/ rows' = <<p>> \o rows
      \/ rows' = Reverse(rows)
      \/ \E i \in DOMAIN rows : rows' = RemoveAt(rows, i)
  BY DEF RowsChange
<1>6. rows' \in Seq(Pics)
  BY <1>2, <1>3, <1>4, <1>5
<1>. QED
  BY <1>1, <1>6 DEF GroupsInv, CardsOpenThemselves

\* Each step of the grid keeps the invariant.
LEMMA GroupsMove == GroupsInv /\ [GridNext]_groupVars => GroupsInv'
<1>. SUFFICES ASSUME GroupsInv, [GridNext]_groupVars
              PROVE  GroupsInv'
  OBVIOUS
<1>1. CASE OpenFromGrid
  BY <1>1, ClickOpensCard
<1>2. CASE RowsChange
  BY <1>2, RowsChangeKeeps
<1>3. CASE TypeQuery \/ PickSort \/ ToggleGroups \/ ToggleDir \/ TotalsAnswered
  <2>1. UNCHANGED <<rows, opened>>
    BY <1>3 DEF TypeQuery, PickSort, ToggleGroups, ToggleDir, TotalsAnswered
  <2>. QED
    BY <2>1 DEF GroupsInv, CardsOpenThemselves
<1>4. CASE UNCHANGED groupVars
  BY <1>4 DEF groupVars, GroupsInv, CardsOpenThemselves
<1>. QED
  BY <1>1, <1>2, <1>3, <1>4 DEF GridNext

-----------------------------------------------------------------------------
(* The pages together.                                                     *)

\* What the viewer does is its own.
LEMMA ViewerAlone == ViewerSteps => ViewerNext /\ OnlyViewer
BY DEF ViewerSteps, ViewerNext

\* What the bulk edits do is their own.
LEMMA BulkAlone == BulkSteps => BulkNext /\ OnlyBulk
BY DEF BulkSteps, BulkNext

\* What the export does is its own.
LEMMA ExportAlone == ExportSteps => ExportNext /\ OnlyExport
BY DEF ExportSteps, ExportNext

\* What the tag box does is its own.
LEMMA TagsAlone == TagsSteps => TagNext /\ OnlyTags
BY DEF TagsSteps, TagNext

\* What the grid does is its own.
LEMMA GroupsAlone == GroupsSteps => GridNext /\ OnlyGroups
BY DEF GroupsSteps, GridNext

\* What the detail page does is its own.
LEMMA DetailAlone == DetailSteps => DetailNext /\ OnlyDetail
BY DEF DetailSteps, DetailNext

\* A step of the sum is one of the viewer or leaves it alone.
LEMMA ViewerInSum == [SumNext]_sumVars => [ViewerNext]_viewerVars
BY ViewerAlone, BulkAlone, ExportAlone, TagsAlone, GroupsAlone, DetailAlone
   DEF SumNext, sumVars, OnlyBulk, OnlyExport, OnlyTags, OnlyGroups, OnlyDetail

\* A step of the sum is one of the bulk edits or leaves them alone.
LEMMA BulkInSum == [SumNext]_sumVars => [BulkNext]_bulkVars
BY ViewerAlone, BulkAlone, ExportAlone, TagsAlone, GroupsAlone, DetailAlone
   DEF SumNext, sumVars, OnlyViewer, OnlyExport, OnlyTags, OnlyGroups, OnlyDetail

\* A step of the sum is one of the export or leaves it alone.
LEMMA ExportInSum == [SumNext]_sumVars => [ExportNext]_exportVars
BY ViewerAlone, BulkAlone, ExportAlone, TagsAlone, GroupsAlone, DetailAlone
   DEF SumNext, sumVars, OnlyViewer, OnlyBulk, OnlyTags, OnlyGroups, OnlyDetail

\* A step of the sum is one of the tag box or leaves it alone.
LEMMA TagsInSum == [SumNext]_sumVars => [TagNext]_tagVars
BY ViewerAlone, BulkAlone, ExportAlone, TagsAlone, GroupsAlone, DetailAlone
   DEF SumNext, sumVars, OnlyViewer, OnlyBulk, OnlyExport, OnlyGroups, OnlyDetail

\* A step of the sum is one of the detail page or leaves it alone.
LEMMA DetailInSum == [SumNext]_sumVars => [DetailNext]_detailVars
BY ViewerAlone, BulkAlone, ExportAlone, TagsAlone, GroupsAlone, DetailAlone
   DEF SumNext, sumVars, OnlyViewer, OnlyBulk, OnlyExport, OnlyTags, OnlyGroups

\* A step of the sum is one of the grid or leaves it alone.
LEMMA GroupsInSum == [SumNext]_sumVars => [GridNext]_groupVars
BY ViewerAlone, BulkAlone, ExportAlone, TagsAlone, GroupsAlone, DetailAlone
   DEF SumNext, sumVars, OnlyViewer, OnlyBulk, OnlyExport, OnlyTags, OnlyDetail

\* What the parts keep, whatever page is open: the details are those of the
\* image on screen and a primed delete is of it, the ids of an export are each
\* at one place, a field of a card that no two requests raced for is right
\* until the catalog takes the edit, the timer and the requests of the tag box
\* are for its text, the grid and the viewer index one list, and the notes that
\* are shown are stored.
PagesInv == ViewerInv /\ ExportInv /\ BulkInv /\ TagsInv /\ GroupsInv /\ NotesInv

\* A step keeps the invariant, and does what the action properties allow.
LEMMA PagesMove ==
  PagesInv /\ [SumNext]_sumVars =>
    /\ PagesInv'
    /\ ImageKept /\ PrimedSent /\ GoneCardsLeft
    /\ remote' # remote => remote'.of = draft
<1>. SUFFICES ASSUME PagesInv, [SumNext]_sumVars
              PROVE  /\ PagesInv'
                     /\ ImageKept /\ PrimedSent /\ GoneCardsLeft
                     /\ remote' # remote => remote'.of = draft
  OBVIOUS
<1>1. ViewerInv' /\ ImageKept /\ PrimedSent
  BY ViewerInSum, ViewerMoves DEF PagesInv, ViewerGood
<1>2. ExportInv'
  BY ExportInSum, ExportMoves DEF PagesInv
<1>3. BulkInv' /\ GoneCardsLeft
  BY BulkInSum, BulkMoves, CardsStayUntilGone DEF PagesInv
<1>4. TagsInv' /\ (remote' # remote => remote'.of = draft)
  BY TagsInSum, TagsMove, LatestTextStep DEF PagesInv
<1>5. NotesInv'
  BY DetailInSum, NotesMove DEF PagesInv
<1>6. GroupsInv'
  BY GroupsInSum, GroupsMove DEF PagesInv
<1>. QED
  BY <1>1, <1>2, <1>3, <1>4, <1>5, <1>6 DEF PagesInv

\* The invariant holds in every state of every behaviour.
THEOREM PagesAreKept == SumSpec => []PagesInv
<1>1. SumInit => PagesInv
  BY ViewerStarts, ExportStarts, BulkStarts, TagsStart, GroupsStart, NotesStart DEF SumInit, PagesInv
<1>. QED
  BY <1>1, PagesMove, PTL DEF SumSpec

\* The details that the viewer shows are those of the image on screen, however
\* late they are answered (DetailIsOfShown).
THEOREM DetailsFitTheImage == SumSpec => []DetailIsOfShown
<1>1. PagesInv => DetailIsOfShown
  BY DetailsFit DEF PagesInv
<1>. QED
  BY <1>1, PagesAreKept, PTL

\* A card shows what the catalog holds when nothing is under way for it, and
\* the detail page shows notes that are stored (WhatIsShownIsStored).
THEOREM ShownIsStored == SumSpec => []WhatIsShownIsStored
<1>1. NotesInv => NotesAreStored
  BY DEF NotesInv, NotesAreStored
<1>2. PagesInv => WhatIsShownIsStored
  BY <1>1, CardsAreRight DEF PagesInv, WhatIsShownIsStored
<1>. QED
  BY <1>2, PagesAreKept, PTL

\* Every image of a bulk edit is at one place from the queue to its outcome,
\* every image of an export is in the file or among the errors
\* (OneOutcomePerImage).
THEOREM OutcomesAreOne == SumSpec => []OneOutcomePerImage
<1>1. PagesInv => OneOutcomePerImage
  BY EditsAreCounted DEF PagesInv, ExportInv, OneOutcomePerImage
<1>. QED
  BY <1>1, PagesAreKept, PTL

\* The viewer opens on the card that was clicked, in every sort, split by folder
\* or not, with folders collapsed (CardsOpenThemselves).
THEOREM ClickedIsOpened == SumSpec => []CardsOpenThemselves
<1>1. PagesInv => CardsOpenThemselves
  BY DEF PagesInv, GroupsInv
<1>. QED
  BY <1>1, PagesAreKept, PTL

\* The image on screen stays while the list under the viewer changes
\* (ViewerKeepsImage).
THEOREM ImageStays == SumSpec => ViewerKeepsImage
<1>1. PagesInv /\ [SumNext]_sumVars => [ImageKept]_viewerVars
  BY PagesMove
<1>. QED
  BY <1>1, PagesAreKept, PTL DEF SumSpec, ViewerKeepsImage, ImageKept

\* A delete is sent for the image that was on screen when it was primed
\* (DeleteIsOfPrimedImage).
THEOREM PrimedIsDeleted == SumSpec => DeleteIsOfPrimedImage
<1>1. PagesInv /\ [SumNext]_sumVars => [PrimedSent]_viewerVars
  BY PagesMove
<1>. QED
  BY <1>1, PagesAreKept, PTL DEF SumSpec, DeleteIsOfPrimedImage, PrimedSent

\* Cards leave with a search, or when their images have left the catalog
\* (CardsLeaveWhenGone).
THEOREM CardsStay == SumSpec => CardsLeaveWhenGone
<1>1. PagesInv /\ [SumNext]_sumVars => [GoneCardsLeft]_bulkVars
  BY PagesMove
<1>. QED
  BY <1>1, PagesAreKept, PTL DEF SumSpec, CardsLeaveWhenGone, GoneCardsLeft

\* The suggestions change only to those of the text that is in the tag box
\* (LatestTextWins).
THEOREM LatestIsShown == SumSpec => LatestTextWins
<1>1. PagesInv /\ [SumNext]_sumVars => [remote' # remote => remote'.of = draft]_tagVars
  BY PagesMove
<1>. QED
  BY <1>1, PagesAreKept, PTL DEF SumSpec, LatestTextWins
=============================================================================
