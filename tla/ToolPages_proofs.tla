-------------------------- MODULE ToolPages_proofs --------------------------
EXTENDS MCToolPages, SequenceTheorems, FiniteSetTheorems, WellFoundedInduction, TLAPS


-----------------------------------------------------------------------------
(* The image cache.                                                        *)

Bytes == {<<>>} \cup {Preview(i) : i \in Shas} \cup {Tile(i) : i \in Shas}
ImageTypes == {"jpeg", "webp"}
Get == [id : Nat, img : Shas, kind : ImageKind, stage : {"asked", "data read", "miss"},
        bytes : Bytes]
Fill == [img : Shas, kind : ImageKind, bytes : Bytes, type : ImageTypes, left : {"data", "type"}]
AnswerGiven == [img : Shas, kind : ImageKind, status : {200, 304} \cup Failures, bytes : Bytes,
                type : ImageTypes \cup {"json"}]

\* A key of the cache, a request that has read one, a write under way and an
\* answer hold what was asked for: the bytes of the image in that size, and
\* the type WebP unless the "original" was asked for.
RightBytes(x) == x.bytes = Derived(x.img, x.kind)
RightType(x) == x.kind # "orig" => x.type = "webp"

CachedRight ==
    \A i \in Shas, kind \in ImageKind :
        /\ dataKey(i, kind) \in DOMAIN redis => redis[dataKey(i, kind)] = Derived(i, kind)
        /\ ctKey(i, kind) \in DOMAIN redis =>
             /\ redis[ctKey(i, kind)] \in ImageTypes
             /\ kind # "orig" => redis[ctKey(i, kind)] = "webp"
GetsRight == gets \subseteq Get /\ \A g \in gets : g.stage = "data read" => RightBytes(g)
FillsRight == fills \subseteq Fill /\ \A f \in fills : RightBytes(f) /\ RightType(f)
AnswersRight ==
    /\ answers \subseteq AnswerGiven
    /\ \A a \in answers : a.status \notin Failures => RightBytes(a) /\ RightType(a)
CacheInv == byteGets \in Nat /\ CachedRight /\ GetsRight /\ FillsRight /\ AnswersRight

\* What the site serves of an image is bytes of the kind asked for.
LEMMA DerivedIsBytes ==
  ASSUME NEW i \in Shas, NEW kind \in ImageKind
  PROVE  Derived(i, kind) \in Bytes
BY DEF Derived, Bytes

\* No two images or kinds share a key, and a data key is never a type key.
LEMMA KeysDiffer ==
  ASSUME NEW i, NEW j, NEW kind, NEW other
  PROVE  /\ dataKey(i, kind) # ctKey(j, other)
         /\ dataKey(i, kind) = dataKey(j, other) => i = j /\ kind = other
         /\ ctKey(i, kind) = ctKey(j, other) => i = j /\ kind = other
BY DEF dataKey, ctKey

\* A key that is deleted takes nothing of the others with it.
LEMMA DeletedRight ==
  ASSUME NEW ks, CachedRight, redis' = Deleted(ks)
  PROVE  CachedRight'
BY DEF CachedRight, Deleted, dataKey, ctKey, Derived, Preview, Tile

\* Bytes stored under their own key leave every entry right.
LEMMA DataWrittenRight ==
  ASSUME NEW i \in Shas, NEW kind \in ImageKind, CachedRight,
         redis' = Setex(dataKey(i, kind), Derived(i, kind))
  PROVE  CachedRight'
<1>1. PICK k : k = dataKey(i, kind)
  OBVIOUS
<1>2. PICK v : v = Derived(i, kind)
  OBVIOUS
<1>3. /\ DOMAIN redis' = DOMAIN redis \union {k}
      /\ \A x \in DOMAIN redis' : redis'[x] = IF x = k THEN v ELSE redis[x]
  BY <1>1, <1>2 DEF Setex
<1>4. ASSUME NEW j \in Shas, NEW other \in ImageKind
      PROVE  /\ dataKey(j, other) \in DOMAIN redis' => redis'[dataKey(j, other)] = Derived(j, other)
             /\ ctKey(j, other) \in DOMAIN redis' =>
                  /\ redis'[ctKey(j, other)] \in ImageTypes
                  /\ other # "orig" => redis'[ctKey(j, other)] = "webp"
  <2>1. ctKey(j, other) # k /\ (dataKey(j, other) = k => j = i /\ other = kind)
    BY <1>1, KeysDiffer
  <2>. QED
    BY <1>2, <1>3, <2>1 DEF CachedRight
<1>. QED
  BY <1>4 DEF CachedRight, dataKey, ctKey, Derived, Preview, Tile, ImageTypes

\* A type stored under its own key leaves every entry right.
LEMMA TypeWrittenRight ==
  ASSUME NEW i \in Shas, NEW kind \in ImageKind, NEW type \in ImageTypes, CachedRight,
         kind # "orig" => type = "webp", redis' = Setex(ctKey(i, kind), type)
  PROVE  CachedRight'
<1>1. PICK k : k = ctKey(i, kind)
  OBVIOUS
<1>2. /\ DOMAIN redis' = DOMAIN redis \union {k}
      /\ \A x \in DOMAIN redis' : redis'[x] = IF x = k THEN type ELSE redis[x]
  BY <1>1 DEF Setex
<1>3. ASSUME NEW j \in Shas, NEW other \in ImageKind
      PROVE  /\ dataKey(j, other) \in DOMAIN redis' => redis'[dataKey(j, other)] = Derived(j, other)
             /\ ctKey(j, other) \in DOMAIN redis' =>
                  /\ redis'[ctKey(j, other)] \in ImageTypes
                  /\ other # "orig" => redis'[ctKey(j, other)] = "webp"
  <2>1. dataKey(j, other) # k /\ (ctKey(j, other) = k => j = i /\ other = kind)
    BY <1>1, KeysDiffer
  <2>. QED
    BY <1>2, <2>1 DEF CachedRight
<1>. QED
  BY <1>3 DEF CachedRight, dataKey, ctKey, Derived, Preview, Tile, ImageTypes

\* The parts of the invariant hold on while nothing of theirs changes.
LEMMA CacheFrame ==
  /\ CachedRight /\ UNCHANGED redis => CachedRight'
  /\ GetsRight /\ UNCHANGED gets => GetsRight'
  /\ FillsRight /\ UNCHANGED fills => FillsRight'
  /\ AnswersRight /\ UNCHANGED answers => AnswersRight'
BY DEF CachedRight, GetsRight, FillsRight, AnswersRight, RightBytes, RightType, Derived, Preview, Tile,
       dataKey, ctKey

\* One more right answer, or a failure, leaves every answer right.
LEMMA AnswerAdded ==
  ASSUME NEW a \in AnswerGiven, a.status \notin Failures => RightBytes(a) /\ RightType(a),
         AnswersRight, answers' = answers \union {a}
  PROVE  AnswersRight'
BY DEF AnswersRight, RightBytes, RightType, Derived, Preview, Tile

\* A read that is answered leaves the others as right as they were.
LEMMA GetGone ==
  ASSUME NEW g, GetsRight, gets' = gets \ {g}
  PROVE  GetsRight'
BY DEF GetsRight, RightBytes, Derived, Preview, Tile

\* An empty cache has nothing wrong in it.
LEMMA CacheStarts == CacheInit => CacheInv
BY DEF CacheInit, CacheInv, CachedRight, GetsRight, FillsRight, AnswersRight

\* Every step of the image route and of the cache keeps the invariant.
LEMMA CacheStep == CacheInv /\ [CacheNext]_cacheVars => CacheInv'
<1>. SUFFICES ASSUME CacheInv, [CacheNext]_cacheVars PROVE CacheInv'
  OBVIOUS
<1>. USE DEF CacheInv
<1>1. CASE UNCHANGED cacheVars
  BY <1>1, CacheFrame DEF cacheVars
<1>2. ASSUME NEW i \in Shas, NEW kind \in ImageKind, GetImage(i, kind) PROVE CacheInv'
  <2>1. [id |-> byteGets, img |-> i, kind |-> kind, stage |-> "asked", bytes |-> <<>>] \in Get
    BY DEF Get, Bytes
  <2>2. GetsRight'
    <3>1. PICK r : r = [id |-> byteGets, img |-> i, kind |-> kind, stage |-> "asked", bytes |-> <<>>]
      OBVIOUS
    <3>2. r \in Get /\ r.stage # "data read" /\ gets' = gets \union {r}
      BY <1>2, <2>1, <3>1 DEF GetImage
    <3>. QED
      BY <3>2 DEF GetsRight, RightBytes, Derived, Preview, Tile
  <2>. QED
    BY <1>2, <2>2, CacheFrame DEF GetImage
<1>3. ASSUME NEW i \in Shas, NEW kind \in ImageKind, NotModified(i, kind) PROVE CacheInv'
  <2>1. PICK a \in answers : a.status = 200 /\ answers' = answers \union {[a EXCEPT !.status = 304]}
    BY <1>3, CacheFrame DEF NotModified
  <2>2. /\ [a EXCEPT !.status = 304] \in AnswerGiven
        /\ RightBytes([a EXCEPT !.status = 304]) /\ RightType([a EXCEPT !.status = 304])
    BY <2>1 DEF AnswersRight, AnswerGiven, RightBytes, RightType, Failures
  <2>3. AnswersRight'
    BY <2>1, <2>2 DEF AnswersRight
  <2>. QED
    BY <1>3, <2>3, CacheFrame DEF NotModified
<1>4. ASSUME NEW g \in gets, ReadData(g) PROVE CacheInv'
  <2>. DEFINE hit == redisUp /\ Holds(dataKey(g.img, g.kind))
              h == [g EXCEPT !.stage = IF hit THEN "data read" ELSE "miss",
                             !.bytes = IF hit THEN redis[dataKey(g.img, g.kind)] ELSE g.bytes]
  <2>0. g \in Get
    BY DEF GetsRight
  <2>1. hit => redis[dataKey(g.img, g.kind)] = Derived(g.img, g.kind)
    BY <2>0 DEF CachedRight, Holds, Get
  <2>2. h \in Get
    BY <2>0, <2>1, DerivedIsBytes DEF Get
  <2>3. h.stage = "data read" => RightBytes(h)
    BY <2>0, <2>1 DEF Get, RightBytes
  <2>4. gets' = (gets \ {g}) \union {h}
    BY <1>4 DEF ReadData
  <2>5. GetsRight'
    BY <2>2, <2>3, <2>4 DEF GetsRight
  <2>. QED
    BY <1>4, <2>5, CacheFrame DEF ReadData
<1>5. ASSUME NEW g \in gets, ServeCached(g) PROVE CacheInv'
  <2>0. g \in Get /\ RightBytes(g)
    BY <1>5 DEF GetsRight, ServeCached
  <2>1. CASE redisUp
    <3>. DEFINE type == IF Holds(ctKey(g.img, g.kind)) THEN redis[ctKey(g.img, g.kind)]
                        ELSE DefaultType(g.kind)
                a == Answer(g, 200, type)
    <3>1. type \in ImageTypes /\ (g.kind # "orig" => type = "webp")
      BY <2>0 DEF CachedRight, Holds, Get, DefaultType, ImageTypes
    <3>2. a \in AnswerGiven /\ RightBytes(a) /\ RightType(a)
      BY <2>0, <3>1 DEF Get, Answer, AnswerGiven, RightBytes, RightType
    <3>3. answers' = answers \union {a} /\ gets' = gets \ {g}
      BY <1>5, <2>1 DEF ServeCached
    <3>4. AnswersRight' /\ GetsRight'
      BY <3>2, <3>3, AnswerAdded, GetGone
    <3>. QED
      BY <1>5, <3>4, CacheFrame DEF ServeCached
  <2>2. CASE ~redisUp
    <3>1. [g EXCEPT !.stage = "miss", !.bytes = <<>>] \in Get
      BY <2>0 DEF Get, Bytes
    <3>2. gets' = (gets \ {g}) \union {[g EXCEPT !.stage = "miss", !.bytes = <<>>]} /\ UNCHANGED answers
      BY <1>5, <2>2 DEF ServeCached
    <3>3. [g EXCEPT !.stage = "miss", !.bytes = <<>>].stage = "miss"
      BY <2>0 DEF Get
    <3>4. GetsRight'
      BY <3>1, <3>2, <3>3 DEF GetsRight
    <3>. QED
      BY <1>5, <3>2, <3>4, CacheFrame DEF ServeCached
  <2>. QED
    BY <2>1, <2>2
<1>6. ASSUME NEW g \in gets, Fetched(g) PROVE CacheInv'
  <2>0. g \in Get
    BY DEF GetsRight
  <2>1. PICK header \in BOOLEAN :
           /\ answers' = answers \union {Answer([g EXCEPT !.bytes = Derived(g.img, g.kind)], 200,
                                                TypeServed(g.img, g.kind, header))}
           /\ fills' = fills \union {[img |-> g.img, kind |-> g.kind, bytes |-> Derived(g.img, g.kind),
                                      type |-> TypeServed(g.img, g.kind, header), left |-> "data"]}
    BY <1>6 DEF Fetched
  <2>2. PICK type : type = TypeServed(g.img, g.kind, header)
    OBVIOUS
  <2>3. type \in ImageTypes /\ (g.kind # "orig" => type = "webp")
    BY <2>2 DEF TypeServed, DefaultType, ImageTypes
  <2>. DEFINE a == Answer([g EXCEPT !.bytes = Derived(g.img, g.kind)], 200, type)
              f == [img |-> g.img, kind |-> g.kind, bytes |-> Derived(g.img, g.kind), type |-> type,
                    left |-> "data"]
  <2>4. a \in AnswerGiven /\ RightBytes(a) /\ RightType(a)
    BY <2>0, <2>3, DerivedIsBytes DEF Get, Answer, AnswerGiven, RightBytes, RightType
  <2>5. f \in Fill /\ RightBytes(f) /\ RightType(f)
    BY <2>0, <2>3, DerivedIsBytes DEF Get, Fill, RightBytes, RightType
  <2>6. answers' = answers \union {a} /\ fills' = fills \union {f} /\ gets' = gets \ {g}
    BY <1>6, <2>1, <2>2 DEF Fetched
  <2>7. FillsRight'
    BY <2>5, <2>6 DEF FillsRight, RightBytes, RightType, Derived, Preview, Tile
  <2>8. AnswersRight' /\ GetsRight'
    BY <2>4, <2>6, AnswerAdded, GetGone
  <2>. QED
    BY <1>6, <2>7, <2>8, CacheFrame DEF Fetched
<1>7. ASSUME NEW g \in gets, FetchFails(g) PROVE CacheInv'
  <2>0. g \in Get
    BY DEF GetsRight
  <2>1. PICK status \in Failures : answers' = answers \union {Answer(g, status, "json")}
    BY <1>7 DEF FetchFails
  <2>2. /\ Answer(g, status, "json") \in AnswerGiven /\ Answer(g, status, "json").status \in Failures
        /\ gets' = gets \ {g}
    BY <1>7, <2>0, <2>1 DEF Get, Answer, AnswerGiven, FetchFails
  <2>3. AnswersRight' /\ GetsRight'
    BY <2>1, <2>2, AnswerAdded, GetGone
  <2>. QED
    BY <1>7, <2>3, CacheFrame DEF FetchFails
<1>8. ASSUME NEW f \in fills, FillData(f) PROVE CacheInv'
  <2>0. f \in Fill /\ RightBytes(f) /\ RightType(f)
    BY DEF FillsRight
  <2>1. CachedRight'
    <3>1. CASE redisUp
      <4>1. redis' = Setex(dataKey(f.img, f.kind), Derived(f.img, f.kind))
        BY <1>8, <2>0, <3>1 DEF FillData, RightBytes
      <4>. QED
        BY <2>0, <4>1, DataWrittenRight DEF Fill
    <3>2. CASE ~redisUp
      BY <1>8, <3>2, CacheFrame DEF FillData
    <3>. QED
      BY <3>1, <3>2
  <2>2. [f EXCEPT !.left = "type"] \in Fill /\ RightBytes([f EXCEPT !.left = "type"])
          /\ RightType([f EXCEPT !.left = "type"])
    BY <2>0 DEF Fill, RightBytes, RightType
  <2>3. fills' = (fills \ {f}) \union (IF redisUp THEN {[f EXCEPT !.left = "type"]} ELSE {})
    BY <1>8 DEF FillData
  <2>4. FillsRight'
    BY <2>2, <2>3 DEF FillsRight
  <2>. QED
    BY <1>8, <2>1, <2>4, CacheFrame DEF FillData
<1>9. ASSUME NEW f \in fills, FillType(f) PROVE CacheInv'
  <2>0. f \in Fill /\ RightBytes(f) /\ RightType(f)
    BY DEF FillsRight
  <2>1. CachedRight'
    <3>1. CASE redisUp
      <4>1. redis' = Setex(ctKey(f.img, f.kind), f.type)
        BY <1>9, <3>1 DEF FillType
      <4>. QED
        BY <2>0, <4>1, TypeWrittenRight DEF Fill, RightType
    <3>2. CASE ~redisUp
      BY <1>9, <3>2, CacheFrame DEF FillType
    <3>. QED
      BY <3>1, <3>2
  <2>2. FillsRight'
    BY <1>9 DEF FillType, FillsRight
  <2>. QED
    BY <1>9, <2>1, <2>2, CacheFrame DEF FillType
<1>10. ASSUME NEW k \in DOMAIN redis, Evicted(k) PROVE CacheInv'
  BY <1>10, DeletedRight, CacheFrame DEF Evicted
<1>11. ASSUME DeleteBatch PROVE CacheInv'
  <2>1. CachedRight'
    <3>1. CASE redisUp
      BY <1>11, <3>1, DeletedRight DEF DeleteBatch
    <3>2. CASE ~redisUp
      BY <1>11, <3>2, CacheFrame DEF DeleteBatch
    <3>. QED
      BY <3>1, <3>2
  <2>. QED
    BY <1>11, <2>1, CacheFrame DEF DeleteBatch
<1>12. ASSUME RedisDown \/ RedisBack \/ RefreshCache \/ StatsArrive \/ Flush \/ Flushed PROVE CacheInv'
  <2>1. UNCHANGED <<redis, gets, fills, answers, byteGets>>
    BY <1>12 DEF RedisDown, RedisBack, RefreshCache, StatsArrive, Flush, Flushed
  <2>. QED
    BY <2>1, CacheFrame
<1>. QED
  BY <1>1, <1>2, <1>3, <1>4, <1>5, <1>6, <1>7, <1>8, <1>9, <1>10, <1>11, <1>12 DEF CacheNext

\* ServedAsAsked for any images, requests, evictions, flushes and outages:
\* nothing is ever stored under a key that is not of that key.
THEOREM CacheServesAsAsked == CacheSpec => []ServedAsAsked
<1>1. CacheInv => ServedAsAsked
  BY DEF CacheInv, AnswersRight, ServedAsAsked, RightBytes, RightType
<1>. QED
  BY CacheStarts, CacheStep, <1>1, PTL DEF CacheSpec


-----------------------------------------------------------------------------
(* The path box of the folders panel.                                      *)

IsProbe(q) ==
    \E id, of, stage : \E cancelled \in BOOLEAN :
        q = [id |-> id, of |-> of, stage |-> stage, cancelled |-> cancelled]

\* A check that counts is one of the path in the box; and a filled box has
\* such a check under way, or its verdict.
Settled == preview.of = newPath /\ preview.state \in {"valid", "invalid"}
ProbesInv ==
    /\ \A q \in probes : IsProbe(q) /\ (q.cancelled \/ q.of = newPath)
    /\ newPath # NoPath => Settled \/ \E q \in probes : ~q.cancelled

\* No probe runs when the panel opens.
LEMMA ProbesStart == FoldersInit => ProbesInv
BY DEF FoldersInit, ProbesInv

\* The probes of a path hold on while the path and they stay.
LEMMA ProbesFrame == ProbesInv /\ UNCHANGED pathVars => ProbesInv'
BY DEF ProbesInv, Settled, IsProbe, pathVars

\* A change of the path cancels what runs and checks the new one.
LEMMA PathSet ==
  ASSUME NEW p, ProbesInv, SetPath(p), UNCHANGED preview
  PROVE  ProbesInv'
<1>1. CASE p = newPath
  BY <1>1, ProbesFrame DEF SetPath, pathVars
<1>2. CASE p # newPath
  <2>1. PICK new : new = [id |-> folderClicks, of |-> p, stage |-> "debounce", cancelled |-> FALSE]
    OBVIOUS
  <2>2. IsProbe(new) /\ new.of = p /\ ~new.cancelled
    BY <2>1 DEF IsProbe
  <2>3. ASSUME NEW q \in probes
        PROVE  IsProbe([q EXCEPT !.cancelled = TRUE]) /\ [q EXCEPT !.cancelled = TRUE].cancelled
    <3>1. PICK id, of, stage, cancelled :
             q = [id |-> id, of |-> of, stage |-> stage, cancelled |-> cancelled]
      BY DEF ProbesInv, IsProbe
    <3>2. PICK c : c = [q EXCEPT !.cancelled = TRUE]
      OBVIOUS
    <3>3. c = [id |-> id, of |-> of, stage |-> stage, cancelled |-> TRUE]
      BY <3>1, <3>2
    <3>4. IsProbe(c) /\ c.cancelled
      BY <3>3 DEF IsProbe
    <3>. QED
      BY <3>2, <3>4
  <2>4. /\ newPath' = p
        /\ probes' = {[q EXCEPT !.cancelled = TRUE] : q \in probes}
                       \union (IF p = NoPath THEN {} ELSE {new})
    BY <1>2, <2>1 DEF SetPath
  <2>5. \A q \in probes' : IsProbe(q) /\ (q.cancelled \/ q.of = newPath')
    BY <2>2, <2>3, <2>4
  <2>6. newPath' # NoPath => \E q \in probes' : ~q.cancelled
    BY <2>2, <2>4
  <2>. QED
    BY <2>5, <2>6 DEF ProbesInv, IsProbe
<1>. QED
  BY <1>1, <1>2

\* Every step of the panel keeps the probes of the path.
LEMMA ProbesStep == ProbesInv /\ [FoldersNext]_folderVars => ProbesInv'
<1>. SUFFICES ASSUME ProbesInv, [FoldersNext]_folderVars PROVE ProbesInv'
  OBVIOUS
<1>1. ASSUME NEW p, TypePath(p) PROVE ProbesInv'
  BY <1>1, PathSet DEF TypePath
<1>2. ASSUME PickFolder PROVE ProbesInv'
  BY <1>2, PathSet DEF PickFolder
<1>3. ASSUME NEW a, AddingEnds(a) PROVE ProbesInv'
  <2>1. UNCHANGED pathVars \/ (SetPath(NoPath) /\ UNCHANGED preview)
    BY <1>3 DEF AddingEnds, pathVars
  <2>. QED
    BY <2>1, PathSet, ProbesFrame
<1>4. ASSUME NEW q \in probes, ProbeStarts(q) PROVE ProbesInv'
  <2>0. IsProbe(q)
    BY DEF ProbesInv
  <2>1. CASE q.cancelled
    <3>1. probes' = probes \ {q} /\ UNCHANGED <<newPath, preview>>
      BY <1>4, <2>1 DEF ProbeStarts
    <3>. QED
      BY <2>1, <3>1 DEF ProbesInv, Settled, IsProbe
  <2>2. CASE ~q.cancelled
    <3>1. PICK s : s = [q EXCEPT !.stage = "sent"]
      OBVIOUS
    <3>2. IsProbe(s) /\ s.of = q.of /\ ~s.cancelled
      <4>1. PICK id, of, was : \E cancelled \in BOOLEAN :
               q = [id |-> id, of |-> of, stage |-> was, cancelled |-> cancelled]
        BY <2>0 DEF IsProbe
      <4>2. PICK cancelled \in BOOLEAN : q = [id |-> id, of |-> of, stage |-> was, cancelled |-> cancelled]
        BY <4>1
      <4>3. cancelled = FALSE
        BY <2>2, <4>2
      <4>4. s = [id |-> id, of |-> of, stage |-> "sent", cancelled |-> FALSE]
        BY <3>1, <4>2, <4>3
      <4>. QED
        BY <4>2, <4>4 DEF IsProbe
    <3>3. probes' = (probes \ {q}) \union {s} /\ UNCHANGED newPath
      BY <1>4, <2>2, <3>1 DEF ProbeStarts
    <3>4. q.of = newPath
      BY <2>2 DEF ProbesInv
    <3>. QED
      BY <3>2, <3>3, <3>4 DEF ProbesInv, IsProbe
  <2>. QED
    BY <2>1, <2>2
<1>5. ASSUME NEW q \in probes, ProbeLands(q) PROVE ProbesInv'
  <2>1. PICK state \in {Verdict(q), "invalid"} :
          preview' = IF Counts(q) THEN [state |-> state, of |-> q.of] ELSE preview
    BY <1>5 DEF ProbeLands
  <2>2. probes' = probes \ {q} /\ UNCHANGED newPath /\ state \in {"valid", "invalid"}
    BY <1>5 DEF ProbeLands, Verdict
  <2>3. CASE q.cancelled
    BY <2>1, <2>2, <2>3 DEF ProbesInv, Settled, IsProbe, Counts
  <2>4. CASE ~q.cancelled
    <3>1. Settled'
      BY <2>1, <2>2, <2>4 DEF ProbesInv, Settled, Counts
    <3>. QED
      BY <2>2, <3>1 DEF ProbesInv, IsProbe
  <2>. QED
    BY <2>3, <2>4
<1>6. ASSUME UNCHANGED pathVars PROVE ProbesInv'
  BY <1>6, ProbesFrame
<1>7. \/ \E p : TypePath(p)
      \/ PickFolder \/ \E a : AddingEnds(a)
      \/ \E q \in probes : ProbeStarts(q) \/ ProbeLands(q)
      \/ UNCHANGED pathVars
  BY DEF FoldersNext, folderVars, PollFolders, FoldersArrive, ListingLands, OpenPicker, Browse, Toggle,
         RemoveFolder, EnterLines, AddFolder, AddMultiple, PostFolder, PatchDone
<1>. QED
  BY <1>1, <1>2, <1>3, <1>4, <1>5, <1>6, <1>7

\* PreviewIsOfThePath, for any folders, polls and clicks.
THEOREM PreviewFollowsThePath == FoldersSpec => []PreviewIsOfThePath
<1>1. ProbesInv => PreviewIsOfThePath
  BY DEF ProbesInv, Settled, PreviewIsOfThePath
<1>. QED
  BY ProbesStart, ProbesStep, <1>1, PTL DEF FoldersSpec


-----------------------------------------------------------------------------
(* The graph explorer.                                                     *)

IsLookup(l) ==
    \E id, of, stage : \E alive \in BOOLEAN :
        l = [id |-> id, of |-> of, stage |-> stage, alive |-> alive]
IsDrawing(d) ==
    \E of, id : \E cancelled, drawn \in BOOLEAN :
        d = [of |-> of, id |-> id, cancelled |-> cancelled, drawn |-> drawn]

\* A look-up that is alive is of what is in the box; and an open list has the
\* options of the box, or such a look-up under way, or a call has failed.
Asked == <<box.type, box.text>>
LookupsInv ==
    /\ box = [type |-> box.type, text |-> box.text, open |-> box.open]
    /\ graphFaults \in Nat
    /\ \A l \in entityLookups : IsLookup(l) /\ (l.alive => l.of = Asked)
    /\ box.open => options = Asked \/ graphFaults # 0 \/ \E l \in entityLookups : l.alive

\* There is one effect at most that may draw or has drawn, and it is the one
\* of the clusters shown.
DrawingsInv ==
    \A d \in drawings :
        /\ IsDrawing(d)
        /\ d.drawn => ~d.cancelled
        /\ ~d.cancelled => d.of = clusters /\ \A e \in drawings : ~e.cancelled => e = d

\* The explorer opens with nothing looked up and nothing drawn.
LEMMA GraphStarts == GraphInit => LookupsInv /\ DrawingsInv
<1>. SUFFICES ASSUME GraphInit PROVE LookupsInv /\ DrawingsInv
  OBVIOUS
<1>1. PICK ty : box = [type |-> ty, text |-> "", open |-> FALSE]
  BY DEF GraphInit
<1>2. box = [type |-> box.type, text |-> box.text, open |-> box.open] /\ ~box.open
  BY <1>1
<1>. QED
  BY <1>2 DEF GraphInit, LookupsInv, DrawingsInv

\* The look-ups hold on while the picker stays as it is.
LEMMA LookupsFrame ==
  LookupsInv /\ UNCHANGED <<pickerVars, graphFaults>> => LookupsInv'
BY DEF LookupsInv, pickerVars, Asked, IsLookup

\* The drawings hold on while the clusters stay as they are.
LEMMA DrawingsFrame == DrawingsInv /\ UNCHANGED <<clusters, drawings>> => DrawingsInv'
BY DEF DrawingsInv, IsDrawing

\* A turn of the box leaves only a look-up of the new one alive.
LEMMA Turned ==
  ASSUME NEW b, b = [type |-> b.type, text |-> b.text, open |-> b.open],
         LookupsInv, Turn(b), UNCHANGED <<options, graphFaults>>
  PROVE  LookupsInv'
<1>1. CASE b = box
  BY <1>1, LookupsFrame DEF Turn, pickerVars
<1>2. CASE b # box
  <2>1. PICK new : new = [id |-> graphClicks, of |-> <<b.type, b.text>>, stage |-> "waiting", alive |-> TRUE]
    OBVIOUS
  <2>2. IsLookup(new) /\ new.of = <<b.type, b.text>> /\ new.alive
    BY <2>1 DEF IsLookup
  <2>3. ASSUME NEW l \in entityLookups
        PROVE  IsLookup([l EXCEPT !.alive = FALSE]) /\ ~[l EXCEPT !.alive = FALSE].alive
    <3>1. PICK id, of, stage, alive :
             l = [id |-> id, of |-> of, stage |-> stage, alive |-> alive]
      BY DEF LookupsInv, IsLookup
    <3>2. PICK m : m = [l EXCEPT !.alive = FALSE]
      OBVIOUS
    <3>3. m = [id |-> id, of |-> of, stage |-> stage, alive |-> FALSE]
      BY <3>1, <3>2
    <3>4. IsLookup(m) /\ ~m.alive
      BY <3>3 DEF IsLookup
    <3>. QED
      BY <3>2, <3>4
  <2>4. /\ box' = b
        /\ entityLookups' = {[l EXCEPT !.alive = FALSE] : l \in entityLookups}
                              \union (IF b.open THEN {new} ELSE {})
    BY <1>2, <2>1 DEF Turn, Relook
  <2>5. \A l \in entityLookups' : IsLookup(l) /\ (l.alive => l.of = <<b.type, b.text>>)
    BY <2>2, <2>3, <2>4
  <2>6. b.open => \E l \in entityLookups' : l.alive
    BY <2>2, <2>4
  <2>. QED
    BY <2>4, <2>5, <2>6 DEF LookupsInv, Asked, IsLookup
<1>. QED
  BY <1>1, <1>2

\* Every step of the explorer keeps the look-ups of the box.
LEMMA LookupsStep == LookupsInv /\ [GraphNext]_graphVars => LookupsInv'
<1>. SUFFICES ASSUME LookupsInv, [GraphNext]_graphVars PROVE LookupsInv'
  OBVIOUS
<1>0. box = [type |-> box.type, text |-> box.text, open |-> box.open]
  BY DEF LookupsInv
<1>1. ASSUME NEW t, TypeEntity(t) PROVE LookupsInv'
  <2>1. PICK b : b = [box EXCEPT !.text = t, !.open = TRUE]
    OBVIOUS
  <2>2. b = [type |-> b.type, text |-> b.text, open |-> b.open]
    BY <1>0, <2>1
  <2>. QED
    BY <1>1, <2>1, <2>2, Turned DEF TypeEntity
<1>2. ASSUME FocusPicker \/ ClosePicker PROVE LookupsInv'
  <2>1. PICK b : b = [box EXCEPT !.open = TRUE]
    OBVIOUS
  <2>2. PICK c : c = [box EXCEPT !.open = FALSE]
    OBVIOUS
  <2>3. b = [type |-> b.type, text |-> b.text, open |-> b.open]
    BY <1>0, <2>1
  <2>4. c = [type |-> c.type, text |-> c.text, open |-> c.open]
    BY <1>0, <2>2
  <2>5. (Turn(b) \/ Turn(c)) /\ UNCHANGED <<options, graphFaults>>
    BY <1>2, <2>1, <2>2 DEF FocusPicker, ClosePicker
  <2>. QED
    BY <2>3, <2>4, <2>5, Turned
<1>3. ASSUME NEW ty, ChooseNodeType(ty) PROVE LookupsInv'
  <2>1. PICK b : b = [box EXCEPT !.type = ty, !.text = ""]
    OBVIOUS
  <2>2. b = [type |-> b.type, text |-> b.text, open |-> b.open]
    BY <1>0, <2>1
  <2>. QED
    BY <1>3, <2>1, <2>2, Turned DEF ChooseNodeType
<1>4. ASSUME ChooseOption PROVE LookupsInv'
  <2>1. PICK v : v = IF box.open /\ options # NoOptions THEN options[2] ELSE box.text
    OBVIOUS
  <2>2. PICK b : b = [box EXCEPT !.text = v, !.open = FALSE]
    OBVIOUS
  <2>3. b = [type |-> b.type, text |-> b.text, open |-> b.open]
    BY <1>0, <2>2
  <2>4. Turn(b) /\ UNCHANGED <<options, graphFaults>>
    BY <1>4, <2>1, <2>2 DEF ChooseOption
  <2>. QED
    BY <2>3, <2>4, Turned
<1>5. ASSUME ClearFilter PROVE LookupsInv'
  <2>1. PICK b : b = [box EXCEPT !.text = ""]
    OBVIOUS
  <2>2. b = [type |-> b.type, text |-> b.text, open |-> b.open]
    BY <1>0, <2>1
  <2>. QED
    BY <1>5, <2>1, <2>2, Turned DEF ClearFilter
<1>6. ASSUME NEW l \in entityLookups, DebounceFires(l) \/ LookupServed(l) PROVE LookupsInv'
  <2>0. IsLookup(l)
    BY DEF LookupsInv
  <2>1. PICK stage : entityLookups' = (entityLookups \ {l})
                         \union (IF l.alive THEN {[l EXCEPT !.stage = stage]} ELSE {})
    BY <1>6 DEF DebounceFires, LookupServed
  <2>2. UNCHANGED <<box, options, graphFaults>>
    BY <1>6 DEF DebounceFires, LookupServed
  <2>3. PICK m : m = [l EXCEPT !.stage = stage]
    OBVIOUS
  <2>4. IsLookup(m) /\ m.of = l.of /\ m.alive = l.alive
    <3>1. PICK id, of, was : \E alive \in BOOLEAN :
             l = [id |-> id, of |-> of, stage |-> was, alive |-> alive]
      BY <2>0 DEF IsLookup
    <3>2. PICK alive \in BOOLEAN : l = [id |-> id, of |-> of, stage |-> was, alive |-> alive]
      BY <3>1
    <3>3. m = [id |-> id, of |-> of, stage |-> stage, alive |-> alive]
      BY <2>3, <3>2
    <3>. QED
      BY <3>2, <3>3 DEF IsLookup
  <2>. QED
    BY <2>1, <2>2, <2>3, <2>4 DEF LookupsInv, Asked, IsLookup
<1>7. ASSUME NEW l \in entityLookups, LookupFails(l) PROVE LookupsInv'
  <2>1. entityLookups' = entityLookups \ {l} /\ graphFaults' = graphFaults + 1 /\ UNCHANGED <<box, options>>
    BY <1>7 DEF LookupFails, GraphFault
  <2>2. graphFaults' \in Nat /\ graphFaults' # 0
    BY <2>1 DEF LookupsInv
  <2>. QED
    BY <2>1, <2>2 DEF LookupsInv, Asked, IsLookup
<1>8. ASSUME NEW l \in entityLookups, LookupLands(l) PROVE LookupsInv'
  <2>1. /\ options' = IF l.alive THEN l.of ELSE options
        /\ entityLookups' = entityLookups \ {l} /\ UNCHANGED <<box, graphFaults>>
    BY <1>8 DEF LookupLands, Heeded
  <2>2. l.alive => l.of = Asked
    BY DEF LookupsInv
  <2>3. CASE l.alive
    BY <2>1, <2>2, <2>3 DEF LookupsInv, Asked, IsLookup
  <2>4. CASE ~l.alive
    BY <2>1, <2>4 DEF LookupsInv, Asked, IsLookup
  <2>. QED
    BY <2>3, <2>4
<1>9. ASSUME UNCHANGED <<pickerVars, graphFaults>> PROVE LookupsInv'
  BY <1>9, LookupsFrame
<1>10. \/ \E t : TypeEntity(t)
       \/ FocusPicker \/ ClosePicker \/ ChooseOption \/ ClearFilter
       \/ \E ty : ChooseNodeType(ty)
       \/ \E l \in entityLookups : DebounceFires(l) \/ LookupServed(l) \/ LookupFails(l) \/ LookupLands(l)
       \/ UNCHANGED <<pickerVars, graphFaults>>
  BY DEF GraphNext, graphVars, ApplyFilter, CountLands, Build, Built, BuildFails, OpenCluster, ImportLands
<1>. QED
  BY <1>1, <1>2, <1>3, <1>4, <1>5, <1>6, <1>7, <1>8, <1>9, <1>10

\* Every step of the explorer keeps the drawing that of the clusters.
LEMMA DrawingsStep == DrawingsInv /\ [GraphNext]_graphVars => DrawingsInv'
<1>. SUFFICES ASSUME DrawingsInv, [GraphNext]_graphVars PROVE DrawingsInv'
  OBVIOUS
<1>1. ASSUME Built PROVE DrawingsInv'
  <2>1. ASSUME NEW d \in drawings
        PROVE  /\ IsDrawing([d EXCEPT !.cancelled = TRUE, !.drawn = FALSE])
               /\ [d EXCEPT !.cancelled = TRUE, !.drawn = FALSE].cancelled
               /\ ~[d EXCEPT !.cancelled = TRUE, !.drawn = FALSE].drawn
               /\ ~d.drawn => [d EXCEPT !.cancelled = TRUE] = [d EXCEPT !.cancelled = TRUE, !.drawn = FALSE]
    <3>1. PICK of, id, cancelled, drawn :
             d = [of |-> of, id |-> id, cancelled |-> cancelled, drawn |-> drawn]
      BY DEF DrawingsInv, IsDrawing
    <3>2. PICK c : c = [d EXCEPT !.cancelled = TRUE, !.drawn = FALSE]
      OBVIOUS
    <3>3. c = [of |-> of, id |-> id, cancelled |-> TRUE, drawn |-> FALSE]
      BY <3>1, <3>2
    <3>4. IsDrawing(c) /\ c.cancelled /\ ~c.drawn
      BY <3>3 DEF IsDrawing
    <3>5. PICK e : e = [d EXCEPT !.cancelled = TRUE]
      OBVIOUS
    <3>6. e = [of |-> of, id |-> id, cancelled |-> TRUE, drawn |-> drawn]
      BY <3>1, <3>5
    <3>7. d.drawn \in BOOLEAN /\ d.drawn = drawn
      BY <3>1 DEF DrawingsInv, IsDrawing
    <3>8. ~d.drawn => e = c
      BY <3>3, <3>6, <3>7
    <3>. QED
      BY <3>2, <3>4, <3>5, <3>8
  <2>2. PICK new : new = [of |-> building, id |-> graphClicks, cancelled |-> FALSE, drawn |-> FALSE]
    OBVIOUS
  <2>3. IsDrawing(new) /\ new.of = building /\ ~new.cancelled /\ ~new.drawn
    BY <2>2 DEF IsDrawing
  <2>4. clusters' = building
    BY <1>1 DEF Built
  <2>5. \A d \in drawings' : \/ d = new
                             \/ d.cancelled /\ ~d.drawn /\ IsDrawing(d)
    <3>1. \/ drawings' = {[d EXCEPT !.cancelled = TRUE] : d \in {x \in drawings : ~x.drawn}}
          \/ drawings' = {[d EXCEPT !.cancelled = TRUE, !.drawn = FALSE] : d \in {x \in drawings : ~x.drawn}}
                           \union {new}
      BY <1>1, <2>2 DEF Built, Redrawn
    <3>2. CASE drawings' = {[d EXCEPT !.cancelled = TRUE] : d \in {x \in drawings : ~x.drawn}}
      BY <2>1, <3>2
    <3>3. CASE drawings' = {[d EXCEPT !.cancelled = TRUE, !.drawn = FALSE] : d \in {x \in drawings : ~x.drawn}}
                           \union {new}
      BY <2>1, <3>3
    <3>. QED
      BY <3>1, <3>2, <3>3
  <2>. QED
    BY <2>3, <2>4, <2>5 DEF DrawingsInv, IsDrawing
<1>2. ASSUME NEW d \in drawings, ImportLands(d) PROVE DrawingsInv'
  <2>0. IsDrawing(d)
    BY DEF DrawingsInv
  <2>1. UNCHANGED clusters
    BY <1>2 DEF ImportLands
  <2>2. CASE d.cancelled
    <3>1. drawings' = drawings \ {d}
      BY <1>2, <2>2 DEF ImportLands
    <3>. QED
      BY <2>1, <3>1 DEF DrawingsInv, IsDrawing
  <2>3. CASE ~d.cancelled
    <3>1. PICK e : e = [d EXCEPT !.drawn = TRUE]
      OBVIOUS
    <3>2. PICK of, id : \E cancelled, drawn \in BOOLEAN :
             d = [of |-> of, id |-> id, cancelled |-> cancelled, drawn |-> drawn]
      BY <2>0 DEF IsDrawing
    <3>3. PICK cancelled \in BOOLEAN : \E drawn \in BOOLEAN :
             d = [of |-> of, id |-> id, cancelled |-> cancelled, drawn |-> drawn]
      BY <3>2
    <3>4. IsDrawing(e) /\ e.of = d.of /\ ~e.cancelled
      <4>1. PICK drawn : d = [of |-> of, id |-> id, cancelled |-> cancelled, drawn |-> drawn]
        BY <3>3
      <4>2. cancelled = FALSE
        BY <2>3, <4>1
      <4>3. e = [of |-> of, id |-> id, cancelled |-> FALSE, drawn |-> TRUE]
        BY <3>1, <4>1, <4>2
      <4>. QED
        BY <4>1, <4>3 DEF IsDrawing
    <3>5. drawings' = (drawings \ {d}) \union {e}
      BY <1>2, <2>3, <3>1 DEF ImportLands
    <3>6. d.of = clusters /\ \A x \in drawings : ~x.cancelled => x = d
      BY <2>3 DEF DrawingsInv
    <3>7. \A x \in drawings' : x = e \/ (x \in drawings /\ x.cancelled)
      BY <3>5, <3>6
    <3>. QED
      BY <2>1, <3>4, <3>6, <3>7 DEF DrawingsInv, IsDrawing
  <2>. QED
    BY <2>2, <2>3
<1>3. ASSUME UNCHANGED <<clusters, drawings>> PROVE DrawingsInv'
  BY <1>3, DrawingsFrame
<1>4. Built \/ (\E d \in drawings : ImportLands(d)) \/ UNCHANGED <<clusters, drawings>>
  BY DEF GraphNext, graphVars, clusterVars, TypeEntity, FocusPicker, ClosePicker, ChooseNodeType,
         DebounceFires, LookupServed, LookupFails, LookupLands, ChooseOption, ApplyFilter, ClearFilter,
         CountLands, Build, BuildFails, OpenCluster
<1>. QED
  BY <1>1, <1>2, <1>3, <1>4

\* NothingStaleIsShown, for any filters, look-ups, builds and failures.
THEOREM NothingStaleEver == GraphSpec => []NothingStaleIsShown
<1>1. LookupsInv /\ DrawingsInv => NothingStaleIsShown
  BY DEF LookupsInv, DrawingsInv, NothingStaleIsShown, Asked
<1>. QED
  BY GraphStarts, LookupsStep, DrawingsStep, <1>1, PTL DEF GraphSpec


-----------------------------------------------------------------------------
(* The settings of the tabs.                                               *)

SettingValues == PageSizes \cup ViewModes \cup SUBSET SafetyClasses

\* What a tab that was hydrated uses it has read, or its user has chosen.
OwnChoice(t) == tab[t] \in {"hydrated", "persisting"} => \A k \in Keys : inUse[t][k] \in basis[t][k]
TabsInv ==
    /\ tab \in [Tabs -> {"closed", "mounted", "hydrated", "persisting"}]
    /\ inUse \in [Tabs -> Settings]
    /\ basis \in [Tabs -> [Keys -> SUBSET SettingValues]]
    /\ payload.pageSize \in Int
    /\ \A t \in Tabs : OwnChoice(t)

\* The three settings a client keeps.
LEMMA SettingKeys == Keys = {"pageSize", "viewMode", "safety"}
BY SettingsAssumption DEF Keys, Settings

\* Whatever was stored, what is made of it is within bounds.
LEMMA MergedIsSettings ==
  ASSUME NEW raw, raw.pageSize \in Int
  PROVE  Merged(raw) \in Settings
<1>1. PICK low \in PageSizes, high \in PageSizes : PageSizes = low..high
  BY SettingsAssumption
<1>2. low \in Int /\ high \in Int /\ low <= high
  BY <1>1, SettingsAssumption
<1>3. Lowest = low
  BY <1>1, <1>2 DEF Lowest
<1>4. Highest = high
  BY <1>1, <1>2 DEF Highest
<1>5. Clamped(raw.pageSize) \in PageSizes
  BY <1>1, <1>2, <1>3, <1>4 DEF Clamped
<1>6. /\ DefaultSettings.pageSize \in PageSizes
      /\ DefaultSettings.viewMode \in ViewModes
      /\ DefaultSettings.safety \in SUBSET SafetyClasses
  BY SettingsAssumption DEF Settings
<1>. QED
  BY <1>5, <1>6 DEF Merged, Settings

\* A setting within bounds is one of the values a setting may have.
LEMMA SettingIsValue ==
  ASSUME NEW s \in Settings, NEW k \in Keys
  PROVE  s[k] \in SettingValues
BY SettingKeys DEF Settings, SettingValues

\* Tabs start closed, with the defaults, and owe nothing to the storage.
LEMMA TabsStart == SettingsInit => TabsInv
BY SettingsAssumption DEF SettingsInit, TabsInv, OwnChoice

\* What the tabs know holds on while they stay as they are.
LEMMA TabsFrame == TabsInv /\ UNCHANGED tabVars => TabsInv'
BY DEF TabsInv, OwnChoice, tabVars

\* A tab takes over settings as a whole, and remembers where they are from.
LEMMA Adopted ==
  ASSUME TabsInv, NEW t \in Tabs, NEW s \in Settings, UNCHANGED payload,
         NEW at \in {"hydrated", "persisting"}, tab' = [tab EXCEPT ![t] = at],
         inUse' = [inUse EXCEPT ![t] = s],
         basis' = [basis EXCEPT ![t] = [k \in Keys |-> basis[t][k] \cup {s[k]}]]
  PROVE  TabsInv'
<1>1. [k \in Keys |-> basis[t][k] \cup {s[k]}] \in [Keys -> SUBSET SettingValues]
  <2>1. ASSUME NEW k \in Keys PROVE basis[t][k] \cup {s[k]} \in SUBSET SettingValues
    BY SettingIsValue DEF TabsInv
  <2>. QED
    BY <2>1
<1>2. /\ tab' \in [Tabs -> {"closed", "mounted", "hydrated", "persisting"}]
      /\ inUse' \in [Tabs -> Settings]
      /\ basis' \in [Tabs -> [Keys -> SUBSET SettingValues]]
      /\ payload'.pageSize \in Int
  BY <1>1 DEF TabsInv
<1>3. ASSUME NEW u \in Tabs PROVE OwnChoice(u)'
  BY DEF TabsInv, OwnChoice
<1>. QED
  BY <1>2, <1>3 DEF TabsInv

\* One setting changed by its owner leaves every other tab's as it was.
LEMMA KeySet ==
  ASSUME TabsInv, NEW t \in Tabs, NEW k \in Keys, NEW v, SetKey(t, k, v),
         [inUse[t] EXCEPT ![k] = v] \in Settings
  PROVE  TabsInv'
<1>1. PICK s : s = [inUse[t] EXCEPT ![k] = v]
  OBVIOUS
<1>2. /\ UNCHANGED payload /\ tab[t] = "hydrated"
      /\ tab' = [tab EXCEPT ![t] = "persisting"]
      /\ inUse' = [inUse EXCEPT ![t] = s]
      /\ basis' = [basis EXCEPT ![t][k] = @ \cup {v}]
  BY <1>1 DEF SetKey
<1>3. k \in DOMAIN inUse[t]
  BY SettingKeys DEF TabsInv, Settings
<1>4. s \in Settings /\ s[k] = v /\ \A x \in Keys : x # k => s[x] = inUse[t][x]
  BY <1>1, <1>3, SettingKeys DEF TabsInv, Settings
<1>5. v \in SettingValues
  BY <1>4, SettingIsValue
<1>6. /\ tab' \in [Tabs -> {"closed", "mounted", "hydrated", "persisting"}]
      /\ inUse' \in [Tabs -> Settings]
      /\ basis' \in [Tabs -> [Keys -> SUBSET SettingValues]]
      /\ payload'.pageSize \in Int
  BY <1>2, <1>4, <1>5 DEF TabsInv
<1>7. ASSUME NEW u \in Tabs, u # t PROVE OwnChoice(u)'
  BY <1>2, <1>7 DEF TabsInv, OwnChoice
<1>8. OwnChoice(t)'
  <2>1. ASSUME NEW x \in Keys PROVE s[x] \in basis'[t][x]
    <3>1. inUse[t][x] \in basis[t][x]
      BY <1>2 DEF TabsInv, OwnChoice
    <3>2. CASE x = k
      BY <1>2, <1>4, <3>2 DEF TabsInv
    <3>3. CASE x # k
      BY <1>2, <1>4, <3>1, <3>3 DEF TabsInv
    <3>. QED
      BY <3>2, <3>3
  <2>. QED
    BY <1>2, <2>1 DEF OwnChoice, TabsInv
<1>. QED
  BY <1>6, <1>7, <1>8 DEF TabsInv

\* Every step of a tab, or of the storage, keeps what the tabs know.
LEMMA TabsStep == TabsInv /\ [SettingsNext]_settingsVars => TabsInv'
<1>. SUFFICES ASSUME TabsInv, [SettingsNext]_settingsVars PROVE TabsInv'
  OBVIOUS
<1>1. ASSUME NEW t \in Tabs, OpenTab(t) PROVE TabsInv'
  <2>1. [k \in Keys |-> {}] \in [Keys -> SUBSET SettingValues]
    OBVIOUS
  <2>2. /\ tab' = [tab EXCEPT ![t] = "mounted"] /\ inUse' = [inUse EXCEPT ![t] = DefaultSettings]
        /\ basis' = [basis EXCEPT ![t] = [k \in Keys |-> {}]] /\ payload' = payload
    BY <1>1 DEF OpenTab
  <2>3. /\ tab' \in [Tabs -> {"closed", "mounted", "hydrated", "persisting"}]
        /\ inUse' \in [Tabs -> Settings]
        /\ basis' \in [Tabs -> [Keys -> SUBSET SettingValues]]
        /\ payload'.pageSize \in Int
    BY <2>1, <2>2, SettingsAssumption DEF TabsInv
  <2>4. ASSUME NEW u \in Tabs PROVE OwnChoice(u)'
    BY <2>2 DEF TabsInv, OwnChoice
  <2>. QED
    BY <2>3, <2>4 DEF TabsInv
<1>2. ASSUME NEW t \in Tabs, Hydrate(t) PROVE TabsInv'
  <2>1. PICK s : s = Merged(payload)
    OBVIOUS
  <2>2. s \in Settings
    BY <2>1, MergedIsSettings DEF TabsInv
  <2>3. /\ tab' = [tab EXCEPT ![t] = "persisting"] /\ inUse' = [inUse EXCEPT ![t] = s]
        /\ basis' = [basis EXCEPT ![t] = [k \in Keys |-> basis[t][k] \cup {s[k]}]] /\ UNCHANGED payload
    BY <1>2, <2>1 DEF Hydrate
  <2>. QED
    BY <2>2, <2>3, Adopted
<1>3. ASSUME NEW t \in Tabs, Persist(t) PROVE TabsInv'
  <2>1. /\ payload' = inUse[t] /\ tab[t] = "persisting" /\ tab' = [tab EXCEPT ![t] = "hydrated"]
        /\ UNCHANGED <<inUse, basis>>
    BY <1>3 DEF Persist, MayPersist, TabsInv
  <2>2. payload'.pageSize \in Int
    BY <2>1, SettingsAssumption DEF TabsInv, Settings
  <2>. QED
    BY <2>1, <2>2 DEF TabsInv, OwnChoice
<1>4. ASSUME NEW t \in Tabs, CloseTab(t) PROVE TabsInv'
  BY <1>4 DEF CloseTab, TabsInv, OwnChoice
<1>5. ASSUME NEW t \in Tabs, SlideNumber(t) PROVE TabsInv'
  <2>1. PICK n \in PageSizes : SetKey(t, "pageSize", n)
    BY <1>5 DEF SlideNumber
  <2>2. [inUse[t] EXCEPT !["pageSize"] = n] \in Settings
    BY DEF TabsInv, Settings
  <2>. QED
    BY <2>1, <2>2, KeySet, SettingKeys
<1>6. ASSUME NEW t \in Tabs, ChooseSegment(t) PROVE TabsInv'
  <2>1. PICK v \in ViewModes : SetKey(t, "viewMode", v)
    BY <1>6 DEF ChooseSegment
  <2>2. [inUse[t] EXCEPT !["viewMode"] = v] \in Settings
    BY DEF TabsInv, Settings
  <2>. QED
    BY <2>1, <2>2, KeySet, SettingKeys
<1>7. ASSUME NEW t \in Tabs, ToggleDefaultSafety(t) PROVE TabsInv'
  <2>1. PICK c \in SafetyClasses : SetKey(t, "safety", IF c \in inUse[t].safety THEN inUse[t].safety \ {c}
                                                       ELSE inUse[t].safety \cup {c})
    BY <1>7 DEF ToggleDefaultSafety
  <2>2. PICK v : v = IF c \in inUse[t].safety THEN inUse[t].safety \ {c} ELSE inUse[t].safety \cup {c}
    OBVIOUS
  <2>3. v \in SUBSET SafetyClasses
    BY <2>2 DEF TabsInv, Settings
  <2>4. [inUse[t] EXCEPT !["safety"] = v] \in Settings
    BY <2>3 DEF TabsInv, Settings
  <2>5. SetKey(t, "safety", v)
    BY <2>1, <2>2
  <2>. QED
    BY <2>4, <2>5, KeySet, SettingKeys
<1>8. ASSUME NEW t \in Tabs, Reset(t) PROVE TabsInv'
  <2>1. /\ tab' = [tab EXCEPT ![t] = "persisting"] /\ inUse' = [inUse EXCEPT ![t] = DefaultSettings]
        /\ basis' = [basis EXCEPT ![t] = [k \in Keys |-> basis[t][k] \cup {DefaultSettings[k]}]]
        /\ UNCHANGED payload
    BY <1>8 DEF Reset
  <2>. QED
    BY <2>1, Adopted, SettingsAssumption
<1>9. CASE UNCHANGED tabVars
  BY <1>9, TabsFrame
<1>10. TabNext \/ UNCHANGED tabVars
  BY DEF SettingsNext, settingsVars, LoadConfig, SaveConfig, ConfigStored, ConfigAnswered, RescanNow,
         RescanAnswered
<1>. QED
  BY <1>1, <1>2, <1>3, <1>4, <1>5, <1>6, <1>7, <1>8, <1>9, <1>10 DEF TabNext

\* StoredChoicesSurvive, for any tabs, settings and old payloads.
THEOREM ChoicesSurvive == SettingsSpec => StoredChoicesSurvive
<1>1. ASSUME TabsInv, [SettingsNext]_settingsVars, payload' # payload
      PROVE  \E t \in Tabs : \A k \in Keys : payload' \in Settings /\ payload'[k] \in basis[t][k]
  <2>1. PICK t \in Tabs : Persist(t)
    BY <1>1 DEF SettingsNext, settingsVars, tabVars, configVars, TabNext, OpenTab, Hydrate, CloseTab, SlideNumber,
                ChooseSegment, ToggleDefaultSafety, SetKey, Reset, LoadConfig, SaveConfig, ConfigStored,
                ConfigAnswered, RescanNow, RescanAnswered
  <2>2. payload' = inUse[t] /\ tab[t] = "persisting"
    BY <2>1 DEF Persist, MayPersist
  <2>. QED
    BY <1>1, <2>2 DEF TabsInv, OwnChoice
<1>2. TabsInv /\ [SettingsNext]_settingsVars
        => [payload' # payload =>
              \E t \in Tabs : \A k \in Keys :
                payload' \in Settings /\ payload'[k] \in basis[t][k]]_settingsVars
  BY <1>1
<1>. QED
  BY TabsStart, TabsStep, <1>2, PTL DEF SettingsSpec, StoredChoicesSurvive


-----------------------------------------------------------------------------
(* The activity dock.                                                      *)

RowStatus == {"running", "success", "error"}
WorkEnd == {"open", "success", "error"}
WorkItem == [job : BackendJobs \cup {0}, end : WorkEnd]
ActivityRow == [id : 1..LastRow, job : BackendJobs \cup {0}, status : RowStatus]
IsPoll(p) == \E no, answer : p = [no |-> no, answer |-> answer]

WorkOK ==
    /\ work \in Seq(WorkItem) /\ Len(work) <= LastRow
    /\ jobs \in [BackendJobs -> [status : {"running"} \cup EndStatuses, listed : BOOLEAN]]

\* A row is of one piece of work, and says of it what has become of it, if
\* it says anything.
RowsOK ==
    /\ rows \subseteq ActivityRow
    /\ \A r \in rows : /\ r.id \in DOMAIN work /\ r.job = work[r.id].job
                       /\ r.status # "running" => r.status = RowEnded(r.id)
    /\ \A r, s \in rows : r.id = s.id => r = s

\* What a poll has read of a job is how the job has ended, or that it runs.
PollsOK ==
    \A p \in polls :
        /\ IsPoll(p)
        /\ \A list \in p.answer : \A j \in DOMAIN list :
              j \in BackendJobs /\ list[j] \in {"running", jobs[j].status}

ActivityInv == WorkOK /\ RowsOK /\ PollsOK

\* What a piece of work came to is an end, its own or that of its job.
LEMMA OutcomeIsEnd ==
  ASSUME WorkOK, NEW i \in DOMAIN work
  PROVE  /\ RowEnded(i) \in WorkEnd
         /\ work[i] \in WorkItem
         /\ work[i].job = 0 => RowEnded(i) = work[i].end
         /\ work[i].job # 0 => /\ work[i].job \in BackendJobs
                               /\ RowEnded(i) = JobOutcome(jobs[work[i].job].status)
<1>1. work[i] \in WorkItem
  BY DEF WorkOK
<1>2. work[i].job \in BackendJobs \cup {0} /\ work[i].end \in WorkEnd
  BY <1>1 DEF WorkItem
<1>3. \A s : JobOutcome(s) \in WorkEnd
  BY DEF JobOutcome, WorkEnd
<1>4. CASE work[i].job = 0
  BY <1>1, <1>2, <1>4 DEF RowEnded
<1>5. CASE work[i].job # 0
  <2>1. RowEnded(i) = JobOutcome(jobs[work[i].job].status)
    BY <1>5 DEF RowEnded
  <2>. QED
    BY <1>1, <1>2, <1>3, <1>5, <2>1
<1>. QED
  BY <1>4, <1>5

\* The dock opens empty.
LEMMA ActivityStarts == ActivityInit => ActivityInv
<1>. SUFFICES ASSUME ActivityInit PROVE ActivityInv
  OBVIOUS
<1>1. WorkOK
  <2>1. Len(work) = 0 /\ work \in Seq(WorkItem)
    BY DEF ActivityInit
  <2>. QED
    BY <2>1, ActivityAssumption DEF ActivityInit, WorkOK
<1>. QED
  BY <1>1 DEF ActivityInit, ActivityInv, RowsOK, PollsOK

\* The rows hold on while they, the work and the jobs stay.
LEMMA RowsFrame == RowsOK /\ UNCHANGED <<work, jobs, rows>> => RowsOK'
BY DEF RowsOK, RowEnded, JobOutcome, EndStatuses

\* Polls hold on when none is added but one that has no answer yet.
LEMMA PollsFrame ==
  ASSUME PollsOK, UNCHANGED jobs, \A p \in polls' : p \in polls \/ (IsPoll(p) /\ p.answer = {})
  PROVE  PollsOK'
BY DEF PollsOK, IsPoll

\* A poll that has just been sent has no answer.
LEMMA NewPollIsPoll == IsPoll(NewPoll) /\ NewPoll.answer = {}
BY DEF IsPoll, NewPoll

\* New rows start or stop the polling, and no poll is made up.
LEMMA RowBecomes ==
  ASSUME PollsOK, UNCHANGED jobs, NEW rs, NEW ps \in SUBSET polls, Become(rs, ps)
  PROVE  rows' = rs /\ PollsOK'
<1>1. rows' = rs /\ \A p \in polls' : p \in polls \/ p = NewPoll
  BY DEF Become
<1>. QED
  BY <1>1, NewPollIsPoll, PollsFrame

\* The row pushed is there, and no other that was not.
LEMMA Pushed ==
  ASSUME NEW r, rows \subseteq ActivityRow, r.id \in Nat, \A x \in rows : x.id < r.id
  PROVE  r \in Push(r) /\ Push(r) \subseteq rows \cup {r}
<1>1. PICK all : all = rows \cup {r}
  OBVIOUS
<1>2. \A x \in rows : x.id \in Nat
  BY DEF ActivityRow
<1>3. {y \in all : y.id >= r.id} = {r}
  BY <1>1, <1>2
<1>4. Cardinality({y \in all : y.id >= r.id}) = 1
  BY <1>3, FS_Singleton
<1>5. Push(r) = {x \in all : Cardinality({y \in all : y.id >= x.id}) <= MAX_ROWS}
  BY <1>1 DEF Push
<1>6. r \in Push(r)
  BY <1>1, <1>4, <1>5, ActivityAssumption
<1>. QED
  BY <1>1, <1>5, <1>6

\* A row for a new piece of work.
LEMMA RowMade ==
  ASSUME ActivityInv, NEW job \in BackendJobs \cup {0}, Len(work) < LastRow,
         work' = Append(work, [job |-> job, end |-> "open"]),
         Become(Push([id |-> Len(work'), job |-> job, status |-> "running"]), polls), UNCHANGED jobs
  PROVE  /\ ActivityInv'
         /\ DOMAIN work' = DOMAIN work \cup {Len(work) + 1} /\ Len(work) + 1 \notin DOMAIN work
         /\ \A i \in DOMAIN work : work'[i] = work[i]
         /\ rows' \subseteq rows \cup {[id |-> Len(work) + 1, job |-> job, status |-> "running"]}
         /\ [id |-> Len(work) + 1, job |-> job, status |-> "running"] \in rows'
<1>0. WorkOK /\ RowsOK /\ PollsOK /\ work \in Seq(WorkItem) /\ Len(work) \in Nat
  BY DEF ActivityInv, WorkOK
<1>1. PICK n \in Nat : n = Len(work) + 1
  BY <1>0
<1>2. PICK w \in WorkItem : w = [job |-> job, end |-> "open"]
  BY DEF WorkItem, WorkEnd
<1>3. /\ work' \in Seq(WorkItem) /\ Len(work') = n
      /\ DOMAIN work' = DOMAIN work \cup {n} /\ n \notin DOMAIN work
      /\ \A i \in DOMAIN work : work'[i] = work[i]
      /\ work'[n] = w
  BY <1>0, <1>1, <1>2
<1>4. n \in 1..LastRow
  BY <1>0, <1>1, ActivityAssumption
<1>5. PICK r \in ActivityRow : r = [id |-> n, job |-> job, status |-> "running"]
  BY <1>4 DEF ActivityRow, RowStatus
<1>6. r.id = n /\ r.job = job /\ r.status = "running"
  BY <1>5
<1>7. \A x \in rows : x.id < n
  BY <1>0, <1>1 DEF RowsOK
<1>8. r \in Push(r) /\ Push(r) \subseteq rows \cup {r}
  BY <1>0, <1>6, <1>7, Pushed DEF RowsOK
<1>9. Become(Push(r), polls)
  BY <1>3, <1>5
<1>10. rows' = Push(r) /\ PollsOK'
  BY <1>0, <1>9, RowBecomes
<1>11. WorkOK'
  <2>1. n <= LastRow
    BY <1>4
  <2>. QED
    BY <1>0, <1>3, <2>1 DEF WorkOK, EndStatuses
<1>12. ASSUME NEW i \in DOMAIN work PROVE RowEnded(i)' = RowEnded(i)
  BY <1>3 DEF RowEnded, JobOutcome, EndStatuses
<1>13. RowsOK'
  <2>1. rows' \subseteq ActivityRow
    BY <1>0, <1>8, <1>10 DEF RowsOK
  <2>2. ASSUME NEW x \in rows'
        PROVE  /\ x.id \in DOMAIN work' /\ x.job = work'[x.id].job
               /\ x.status # "running" => x.status = RowEnded(x.id)'
    <3>1. CASE x = r
      BY <1>2, <1>3, <1>6, <3>1
    <3>2. CASE x \in rows
      <4>1. /\ x.id \in DOMAIN work /\ x.job = work[x.id].job
            /\ x.status # "running" => x.status = RowEnded(x.id)
        BY <1>0, <3>2 DEF RowsOK
      <4>. QED
        BY <1>3, <1>12, <4>1
    <3>. QED
      BY <1>8, <1>10, <3>1, <3>2
  <2>3. ASSUME NEW x \in rows', NEW y \in rows', x.id = y.id PROVE x = y
    <3>1. \A z \in rows : z.id # n
      BY <1>7
    <3>. QED
      BY <1>0, <1>6, <1>8, <1>10, <2>3, <3>1 DEF RowsOK
  <2>4. ASSUME NEW x \in rows'
        PROVE  (RowEnded(x.id))' = RowEnded(x.id)'
    OBVIOUS
  <2>. QED
    BY <2>1, <2>2, <2>3 DEF RowsOK
<1>. QED
  BY <1>1, <1>3, <1>5, <1>8, <1>10, <1>11, <1>13 DEF ActivityInv

-----------------------------------------------------------------------------
(* Steps.                                                                  *)

\* What a step may do to the pieces of work there are and to their rows.
WorkMoves ==
    \A i \in DOMAIN work :
        /\ i \in DOMAIN work'
        /\ \/ RowEnded(i)' = RowEnded(i)
           \/ RowEnded(i) = "open"
        /\ \A s \in rows' : s.id = i =>
              \E r \in rows : r.id = i /\ r.status \in {"running", s.status}

\* What it may add.
WorkAdded ==
    \A i \in DOMAIN work' : i \notin DOMAIN work =>
        \E s \in rows' : s.id = i /\ s.status = "running"

MovesWell == ActivityInv' /\ WorkMoves /\ WorkAdded

\* When rows only leave, everything moves as the promise has it.
LEMMA RowsOnlyLeave ==
  ASSUME ActivityInv, UNCHANGED <<work, jobs>>, rows' \subseteq rows, PollsOK'
  PROVE  MovesWell
<1>1. RowsOK /\ WorkOK
  BY DEF ActivityInv
<1>2. RowEnded(1) = RowEnded(1)
  OBVIOUS
<1>3. \A i : RowEnded(i)' = RowEnded(i)
  BY DEF RowEnded, JobOutcome, EndStatuses
<1>4. RowsOK'
  BY <1>1, <1>3 DEF RowsOK
<1>5. WorkOK'
  BY <1>1 DEF WorkOK, EndStatuses
<1>6. WorkMoves /\ WorkAdded
  BY <1>3 DEF WorkMoves, WorkAdded
<1>. QED
  BY <1>4, <1>5, <1>6 DEF MovesWell, ActivityInv

\* Rows rewritten in place: each stays of its work, and if it ends it ends as
\* its work did.
LEMMA RowsMapped ==
  ASSUME ActivityInv, NEW f, rows' = {f[r] : r \in rows},
         DOMAIN work' = DOMAIN work, \A i \in DOMAIN work : work'[i].job = work[i].job,
         \A r \in rows : /\ f[r] \in ActivityRow /\ f[r].id = r.id /\ f[r].job = r.job
                         /\ r.status \in {"running", f[r].status}
                         /\ f[r].status # "running" => f[r].status = RowEnded(r.id)'
  PROVE  /\ RowsOK'
         /\ \A s \in rows' : \E r \in rows : r.id = s.id /\ r.status \in {"running", s.status}
<1>1. RowsOK
  BY DEF ActivityInv
<1>2. rows' \subseteq ActivityRow
  OBVIOUS
<1>3. ASSUME NEW s \in rows'
      PROVE  /\ s.id \in DOMAIN work' /\ s.job = work'[s.id].job
             /\ s.status # "running" => s.status = RowEnded(s.id)'
             /\ \E r \in rows : r.id = s.id /\ r.status \in {"running", s.status}
  <2>1. PICK r \in rows : s = f[r]
    OBVIOUS
  <2>2. r.id \in DOMAIN work /\ r.job = work[r.id].job
    BY <1>1 DEF RowsOK
  <2>3. s.id = r.id
    BY <2>1
  <2>4. s.status # "running" => s.status = RowEnded(r.id)'
    BY <2>1
  <2>. QED
    BY <2>1, <2>2, <2>3, <2>4
<1>4. ASSUME NEW s \in rows', NEW t \in rows', s.id = t.id PROVE s = t
  <2>1. PICK r \in rows : s = f[r]
    OBVIOUS
  <2>2. PICK q \in rows : t = f[q]
    OBVIOUS
  <2>3. r.id = q.id
    BY <1>4, <2>1, <2>2
  <2>. QED
    BY <1>1, <2>1, <2>2, <2>3 DEF RowsOK
<1>. QED
  BY <1>2, <1>3, <1>4 DEF RowsOK

\* A new row is of new work, and running.
LEMMA TrackMoves == ActivityInv /\ (Track \/ TrackJob) => MovesWell
<1>. SUFFICES ASSUME ActivityInv, Track \/ TrackJob PROVE MovesWell
  OBVIOUS
<1>1. PICK job \in BackendJobs \cup {0} :
         /\ Len(work) < LastRow
         /\ work' = Append(work, [job |-> job, end |-> "open"])
         /\ Become(Push([id |-> Len(work'), job |-> job, status |-> "running"]), polls)
         /\ UNCHANGED jobs
  BY DEF Track, TrackJob, Unchanged
<1>2. /\ ActivityInv'
      /\ DOMAIN work' = DOMAIN work \cup {Len(work) + 1} /\ Len(work) + 1 \notin DOMAIN work
      /\ \A i \in DOMAIN work : work'[i] = work[i]
      /\ rows' \subseteq rows \cup {[id |-> Len(work) + 1, job |-> job, status |-> "running"]}
      /\ [id |-> Len(work) + 1, job |-> job, status |-> "running"] \in rows'
  BY <1>1, RowMade
<1>3. PICK n : n = Len(work) + 1
  OBVIOUS
<1>4. PICK s : s = [id |-> n, job |-> job, status |-> "running"]
  OBVIOUS
<1>5. s.id = n /\ s.status = "running" /\ s \in rows' /\ rows' \subseteq rows \cup {s}
  BY <1>2, <1>3, <1>4
<1>6. \A i \in DOMAIN work : i # n /\ i \in DOMAIN work'
  BY <1>2, <1>3
<1>7. ASSUME NEW i \in DOMAIN work PROVE RowEnded(i)' = RowEnded(i)
  BY <1>1, <1>2 DEF RowEnded, JobOutcome, EndStatuses
<1>8. WorkMoves
  BY <1>5, <1>6, <1>7 DEF WorkMoves
<1>9. WorkAdded
  BY <1>2, <1>3, <1>5 DEF WorkAdded
<1>. QED
  BY <1>2, <1>8, <1>9 DEF MovesWell

\* Client work that ends gives its row that end, when it still has one.
LEMMA WorkEndsMoves == ActivityInv /\ WorkEnds => MovesWell
<1>. SUFFICES ASSUME ActivityInv, WorkEnds PROVE MovesWell
  OBVIOUS
<1>1. PICK id \in DOMAIN work, fate \in {"success", "error"} :
         /\ work[id].job = 0 /\ work[id].end = "open"
         /\ work' = [work EXCEPT ![id].end = fate]
         /\ Become(Patched(id, fate), polls) /\ UNCHANGED jobs
  BY DEF WorkEnds, Unchanged
<1>2. WorkOK /\ RowsOK /\ PollsOK /\ work \in Seq(WorkItem)
  BY DEF ActivityInv, WorkOK
<1>3. rows' = Patched(id, fate) /\ PollsOK'
  BY <1>1, <1>2, RowBecomes
<1>4. /\ work' \in Seq(WorkItem) /\ Len(work') = Len(work) /\ DOMAIN work' = DOMAIN work
      /\ work'[id].job = 0 /\ work'[id].end = fate
      /\ \A i \in DOMAIN work : i # id => work'[i] = work[i]
  <2>1. work[id] \in WorkItem
    BY <1>2
  <2>2. PICK w : w = [work[id] EXCEPT !.end = fate]
    OBVIOUS
  <2>3. w \in WorkItem /\ w.job = 0 /\ w.end = fate
    BY <1>1, <2>1, <2>2 DEF WorkItem, WorkEnd
  <2>4. work' = [work EXCEPT ![id] = w]
    BY <1>1, <2>2
  <2>. QED
    BY <1>2, <2>3, <2>4
<1>5. WorkOK'
  BY <1>1, <1>2, <1>4 DEF WorkOK, EndStatuses
<1>6. RowEnded(id) = "open" /\ RowEnded(id)' = fate
  BY <1>1, <1>4 DEF RowEnded
<1>7. \A i \in DOMAIN work : i # id => RowEnded(i)' = RowEnded(i)
  BY <1>1, <1>4 DEF RowEnded, JobOutcome, EndStatuses
<1>8. PICK f : f = [r \in rows |-> IF r.id = id THEN [r EXCEPT !.status = fate] ELSE r]
  OBVIOUS
<1>9. rows' = {f[r] : r \in rows}
  BY <1>3, <1>8 DEF Patched
<1>10. ASSUME NEW r \in rows
       PROVE  /\ f[r] \in ActivityRow /\ f[r].id = r.id /\ f[r].job = r.job
              /\ r.status \in {"running", f[r].status}
              /\ f[r].status # "running" => f[r].status = RowEnded(r.id)'
  <2>1. /\ r \in ActivityRow /\ r.id \in DOMAIN work
        /\ r.status # "running" => r.status = RowEnded(r.id)
    BY <1>2 DEF RowsOK
  <2>2. CASE r.id # id
    <3>1. f[r] = r
      BY <1>8, <2>2
    <3>. QED
      BY <1>7, <2>1, <2>2, <3>1
  <2>3. CASE r.id = id
    <3>1. PICK s : s = [r EXCEPT !.status = fate]
      OBVIOUS
    <3>2. f[r] = s
      BY <1>8, <2>3, <3>1
    <3>3. s \in ActivityRow /\ s.id = r.id /\ s.job = r.job /\ s.status = fate
      BY <2>1, <3>1 DEF ActivityRow, RowStatus
    <3>4. r.status \in {"running", "success", "error"}
      BY <2>1 DEF ActivityRow, RowStatus
    <3>5. r.status = "running"
      BY <1>6, <2>1, <2>3, <3>4
    <3>. QED
      BY <1>6, <2>3, <3>2, <3>3, <3>5
  <2>. QED
    BY <2>2, <2>3
<1>11. \A i \in DOMAIN work : work'[i].job = work[i].job
  BY <1>1, <1>4
<1>12. /\ RowsOK'
       /\ \A s \in rows' : \E r \in rows : r.id = s.id /\ r.status \in {"running", s.status}
  BY <1>4, <1>9, <1>10, <1>11, RowsMapped
<1>13. WorkMoves /\ WorkAdded
  BY <1>4, <1>6, <1>7, <1>12 DEF WorkMoves, WorkAdded
<1>. QED
  BY <1>3, <1>5, <1>12, <1>13 DEF MovesWell, ActivityInv

\* A job that moves on in the backend touches no row.
LEMMA JobMovesMoves == ActivityInv /\ JobMoves => MovesWell
<1>. SUFFICES ASSUME ActivityInv, JobMoves PROVE MovesWell
  OBVIOUS
<1>1. PICK j \in BackendJobs, s \in JobEnds :
         /\ jobs[j].status = "running"
         /\ jobs' = [jobs EXCEPT ![j].status = s]
         /\ UNCHANGED <<work, rows, polls>>
  BY DEF JobMoves
<1>2. WorkOK /\ RowsOK /\ PollsOK
  BY DEF ActivityInv
<1>3. s \in EndStatuses
  BY ActivityAssumption DEF EndStatuses
<1>4. /\ jobs' \in [BackendJobs -> [status : {"running"} \cup EndStatuses, listed : BOOLEAN]]
      /\ jobs'[j].status = s
      /\ \A k \in BackendJobs : k # j => jobs'[k] = jobs[k]
  BY <1>1, <1>2, <1>3 DEF WorkOK
<1>5. WorkOK'
  BY <1>1, <1>2, <1>4 DEF WorkOK, EndStatuses
<1>6. \A r : r \in DOMAIN work => work[r] \in WorkItem
  BY <1>2 DEF WorkOK
<1>7. ASSUME NEW i \in DOMAIN work
      PROVE  /\ RowEnded(i)' = RowEnded(i) \/ RowEnded(i) = "open"
             /\ work[i].job # j => RowEnded(i)' = RowEnded(i)
             /\ work[i].job = j => RowEnded(i) = "open"
  <2>1. work[i].job \in BackendJobs \cup {0}
    BY <1>6 DEF WorkItem
  <2>2. CASE work[i].job # j
    BY <1>1, <1>4, <2>1, <2>2 DEF RowEnded, JobOutcome, EndStatuses
  <2>3. CASE work[i].job = j
    <3>1. j # 0
      BY ActivityAssumption
    <3>2. RowEnded(i) = JobOutcome("running")
      BY <1>1, <2>3, <3>1 DEF RowEnded
    <3>3. JobOutcome("running") = "open"
      BY DEF JobOutcome, EndStatuses
    <3>. QED
      BY <2>3, <3>2, <3>3
  <2>. QED
    BY <2>2, <2>3
<1>8. RowsOK'
  <2>1. ASSUME NEW r \in rows, r.status # "running" PROVE r.status = RowEnded(r.id)'
    <3>1. /\ r \in ActivityRow /\ r.id \in DOMAIN work /\ r.status = RowEnded(r.id)
      BY <1>2, <2>1 DEF RowsOK
    <3>2. r.status # "open"
      BY <3>1 DEF ActivityRow, RowStatus
    <3>. QED
      BY <1>7, <3>1, <3>2
  <2>. QED
    BY <1>1, <1>2, <2>1 DEF RowsOK
<1>9. PollsOK'
  BY <1>1, <1>2, <1>4 DEF PollsOK, IsPoll
<1>10. WorkMoves /\ WorkAdded
  BY <1>1, <1>7 DEF WorkMoves, WorkAdded
<1>. QED
  BY <1>5, <1>8, <1>9, <1>10 DEF MovesWell, ActivityInv

\* A job the backend forgets was over, and touches no row.
LEMMA JobForgottenMoves == ActivityInv /\ JobForgotten => MovesWell
<1>. SUFFICES ASSUME ActivityInv, JobForgotten PROVE MovesWell
  OBVIOUS
<1>1. PICK j \in BackendJobs :
         jobs' = [jobs EXCEPT ![j].listed = FALSE] /\ UNCHANGED <<work, rows, polls>>
  BY DEF JobForgotten
<1>2. WorkOK /\ RowsOK /\ PollsOK
  BY DEF ActivityInv
<1>3. /\ jobs' \in [BackendJobs -> [status : {"running"} \cup EndStatuses, listed : BOOLEAN]]
      /\ \A k \in BackendJobs : jobs'[k].status = jobs[k].status
  BY <1>1, <1>2 DEF WorkOK
<1>4. WorkOK'
  BY <1>1, <1>2, <1>3 DEF WorkOK, EndStatuses
<1>5. ASSUME NEW i \in DOMAIN work PROVE RowEnded(i)' = RowEnded(i)
  <2>1. work[i] \in WorkItem
    BY <1>2 DEF WorkOK
  <2>2. work[i].job \in BackendJobs \cup {0}
    BY <2>1 DEF WorkItem
  <2>. QED
    BY <1>1, <1>3, <2>2 DEF RowEnded, JobOutcome, EndStatuses
<1>6. RowsOK'
  BY <1>1, <1>2, <1>5 DEF RowsOK
<1>7. PollsOK'
  BY <1>1, <1>2, <1>3 DEF PollsOK, IsPoll
<1>8. WorkMoves /\ WorkAdded
  BY <1>1, <1>5 DEF WorkMoves, WorkAdded
<1>. QED
  BY <1>4, <1>6, <1>7, <1>8 DEF MovesWell, ActivityInv

\* Sending a poll, serving it and losing it touch no row.
LEMMA PollsMove ==
  ActivityInv /\ (PollTick \/ PollServed \/ PollFails) => MovesWell
<1>. SUFFICES ASSUME ActivityInv, PollTick \/ PollServed \/ PollFails PROVE MovesWell
  OBVIOUS
<1>1. PollsOK
  BY DEF ActivityInv
<1>2. UNCHANGED <<work, jobs, rows>>
  BY DEF PollTick, PollServed, PollFails
<1>3. CASE PollTick
  <2>1. PICK p : IsPoll(p) /\ p.answer = {} /\ polls' = polls \cup {p}
    BY <1>3 DEF PollTick, IsPoll
  <2>. QED
    BY <1>1, <1>2, <2>1, PollsFrame, RowsOnlyLeave
<1>4. CASE PollServed
  <2>1. PICK p \in polls : polls' = (polls \ {p}) \cup {[p EXCEPT !.answer = {Listing}]}
    BY <1>4 DEF PollServed
  <2>2. PICK list : list = Listing
    OBVIOUS
  <2>3. \A j \in DOMAIN list : j \in BackendJobs /\ list[j] = jobs[j].status
    BY <2>2 DEF Listing
  <2>4. PICK no, answer : p = [no |-> no, answer |-> answer]
    BY <1>1 DEF PollsOK, IsPoll
  <2>5. PICK q : q = [p EXCEPT !.answer = {list}]
    OBVIOUS
  <2>6. q = [no |-> no, answer |-> {list}]
    BY <2>4, <2>5
  <2>7. IsPoll(q) /\ q.answer = {list}
    BY <2>6 DEF IsPoll
  <2>8. polls' = (polls \ {p}) \cup {q}
    BY <2>1, <2>2, <2>5
  <2>9. PollsOK'
    BY <1>1, <1>2, <2>3, <2>7, <2>8 DEF PollsOK, IsPoll
  <2>. QED
    BY <1>2, <2>9, RowsOnlyLeave
<1>5. CASE PollFails
  <2>1. polls' \subseteq polls
    BY <1>5 DEF PollFails
  <2>. QED
    BY <1>1, <1>2, <2>1, PollsFrame, RowsOnlyLeave
<1>. QED
  BY <1>3, <1>4, <1>5

\* The answer of a poll settles only rows whose job is over.
LEMMA PollArrivesMoves == ActivityInv /\ PollArrives => MovesWell
<1>. SUFFICES ASSUME ActivityInv, PollArrives PROVE MovesWell
  OBVIOUS
<1>1. PICK p \in polls : \E ls \in p.answer : Become(ApplyJobs(ls), polls \ {p})
  BY DEF PollArrives
<1>2. PICK list \in p.answer : Become(ApplyJobs(list), polls \ {p})
  BY <1>1
<1>3. UNCHANGED <<work, jobs>>
  BY DEF PollArrives, Unchanged
<1>4. WorkOK /\ RowsOK /\ PollsOK
  BY DEF ActivityInv
<1>5. rows' = ApplyJobs(list) /\ PollsOK'
  BY <1>2, <1>3, <1>4, RowBecomes
<1>6. \A j \in DOMAIN list : j \in BackendJobs /\ list[j] \in {"running", jobs[j].status}
  BY <1>4 DEF PollsOK
<1>7. \A i : RowEnded(i)' = RowEnded(i)
  BY <1>3 DEF RowEnded, JobOutcome, EndStatuses
<1>8. PICK f : f = [r \in rows |-> Applied(r, list)]
  OBVIOUS
<1>9. rows' = {f[r] : r \in rows}
  BY <1>5, <1>8 DEF ApplyJobs
<1>10. ASSUME NEW r \in rows
       PROVE  /\ f[r] \in ActivityRow /\ f[r].id = r.id /\ f[r].job = r.job
              /\ r.status \in {"running", f[r].status}
              /\ f[r].status # "running" => f[r].status = RowEnded(r.id)
  <2>1. /\ r \in ActivityRow /\ r.id \in DOMAIN work /\ r.job = work[r.id].job
        /\ r.status # "running" => r.status = RowEnded(r.id)
    BY <1>4 DEF RowsOK
  <2>2. CASE r.job \notin DOMAIN list \/ IsTerminal(r.status)
    <3>1. f[r] = r
      BY <1>8, <2>2 DEF Applied
    <3>. QED
      BY <2>1, <3>1
  <2>3. CASE r.job \in DOMAIN list /\ ~IsTerminal(r.status)
    <3>1. r.status = "running"
      BY <2>1, <2>3 DEF ActivityRow, RowStatus, IsTerminal
    <3>2. PICK st : st = IF list[r.job] \notin TERMINAL_JOB_STATUSES THEN "running"
                         ELSE IF list[r.job] = "completed" THEN "success" ELSE "error"
      OBVIOUS
    <3>3. PICK s : s = [r EXCEPT !.status = st]
      OBVIOUS
    <3>4. f[r] = s
      BY <1>8, <2>3, <3>2, <3>3 DEF Applied
    <3>5. st \in RowStatus
      BY <3>2 DEF RowStatus
    <3>6. s \in ActivityRow /\ s.id = r.id /\ s.job = r.job /\ s.status = st
      BY <2>1, <3>3, <3>5 DEF ActivityRow
    <3>7. ASSUME st # "running" PROVE st = RowEnded(r.id)
      <4>1. list[r.job] \in TERMINAL_JOB_STATUSES
        BY <3>2, <3>7
      <4>2. r.job \in BackendJobs /\ list[r.job] = jobs[r.job].status
        BY <1>6, <2>3, <4>1 DEF TERMINAL_JOB_STATUSES
      <4>3. r.job # 0
        BY <4>2, ActivityAssumption
      <4>4. RowEnded(r.id) = JobOutcome(list[r.job])
        BY <2>1, <4>2, <4>3 DEF RowEnded
      <4>5. st = JobOutcome(list[r.job])
        BY <3>2, <4>1 DEF JobOutcome, TERMINAL_JOB_STATUSES, EndStatuses
      <4>. QED
        BY <4>4, <4>5
    <3>. QED
      BY <3>1, <3>4, <3>6, <3>7
  <2>. QED
    BY <2>2, <2>3
<1>11. /\ RowsOK'
       /\ \A s \in rows' : \E r \in rows : r.id = s.id /\ r.status \in {"running", s.status}
  <2>1. \A r \in rows : f[r].status # "running" => f[r].status = RowEnded(r.id)'
    BY <1>7, <1>10
  <2>. QED
    BY <1>3, <1>9, <1>10, <2>1, RowsMapped
<1>12. WorkOK'
  BY <1>3, <1>4 DEF WorkOK, EndStatuses
<1>13. WorkMoves /\ WorkAdded
  BY <1>3, <1>7, <1>11 DEF WorkMoves, WorkAdded
<1>. QED
  BY <1>5, <1>11, <1>12, <1>13 DEF MovesWell, ActivityInv

\* Pruning, dismissing and clearing only take rows away.
LEMMA RowsLeave == ActivityInv /\ (PruneFires \/ Dismiss \/ ClearFinished) => MovesWell
<1>. SUFFICES ASSUME ActivityInv, PruneFires \/ Dismiss \/ ClearFinished PROVE MovesWell
  OBVIOUS
<1>1. PICK rs : rs \subseteq rows /\ Become(rs, polls)
  <2>1. CASE ClearFinished
    BY <2>1 DEF ClearFinished
  <2>. QED
    BY <2>1 DEF PruneFires, Dismiss
<1>2. UNCHANGED <<work, jobs>>
  BY DEF PruneFires, Dismiss, ClearFinished, Unchanged
<1>3. PollsOK
  BY DEF ActivityInv
<1>4. rows' = rs /\ PollsOK'
  BY <1>1, <1>2, <1>3, RowBecomes
<1>. QED
  BY <1>1, <1>2, <1>4, RowsOnlyLeave

\* Every step of the dock moves as the promise has it.
LEMMA ActivityMoves == ActivityInv /\ [ActivityNext]_activityVars => MovesWell
<1>. SUFFICES ASSUME ActivityInv, [ActivityNext]_activityVars PROVE MovesWell
  OBVIOUS
<1>1. CASE UNCHANGED activityVars
  <2>1. PollsOK'
    BY <1>1 DEF ActivityInv, PollsOK, IsPoll, activityVars
  <2>. QED
    BY <1>1, <2>1, RowsOnlyLeave DEF activityVars
<1>2. CASE ActivityNext
  BY <1>2, TrackMoves, WorkEndsMoves, JobMovesMoves, JobForgottenMoves, PollsMove,
     PollArrivesMoves, RowsLeave DEF ActivityNext
<1>. QED
  BY <1>1, <1>2

-----------------------------------------------------------------------------
(* The promise.                                                            *)

\* What the rows say, in the terms of the promise.
RowsSpeak ==
    /\ \A r \in rows : /\ RowSays(r.id) = r.status /\ r.status \in RowStatus
                       /\ r.status # "running" => r.status = RowEnded(r.id)
    /\ \A i \in DOMAIN work : (\A r \in rows : r.id # i) => RowSays(i) = "gone"
    /\ \A i : i \notin DOMAIN work => RowSays(i) = "none"
    /\ \A i : RowEnded(i) \in WorkEnd

\* What the rows say is what the promise speaks of.
LEMMA WhatRowsSay == ActivityInv => RowsSpeak
<1>. SUFFICES ASSUME ActivityInv PROVE RowsSpeak
  OBVIOUS
<1>1. WorkOK /\ RowsOK
  BY DEF ActivityInv
<1>2. ASSUME NEW r \in rows
      PROVE  /\ RowSays(r.id) = r.status /\ r.status \in RowStatus
             /\ r.status # "running" => r.status = RowEnded(r.id)
  <2>1. r.id \in DOMAIN work /\ \A s \in rows : s.id = r.id => s = r
    BY <1>1 DEF RowsOK
  <2>2. PICK c : c = CHOOSE s \in rows : s.id = r.id
    OBVIOUS
  <2>3. c \in rows /\ c.id = r.id
    BY <2>2
  <2>4. c = r
    BY <2>1, <2>3
  <2>5. RowSays(r.id) = c.status
    BY <2>1, <2>2 DEF RowSays
  <2>6. r.status \in RowStatus
    BY <1>1 DEF RowsOK, ActivityRow
  <2>7. r.status # "running" => r.status = RowEnded(r.id)
    BY <1>1 DEF RowsOK
  <2>. QED
    BY <2>1, <2>4, <2>5, <2>6, <2>7
<1>3. \A i \in DOMAIN work : (\A r \in rows : r.id # i) => RowSays(i) = "gone"
  BY DEF RowSays
<1>4. \A i : i \notin DOMAIN work => RowSays(i) = "none"
  BY DEF RowSays
<1>5. ASSUME NEW i PROVE RowEnded(i) \in WorkEnd
  <2>1. CASE i \in DOMAIN work
    BY <1>1, <2>1, OutcomeIsEnd
  <2>2. CASE i \notin DOMAIN work
    BY <2>2 DEF RowEnded, WorkEnd
  <2>. QED
    BY <2>1, <2>2
<1>. QED
  BY <1>2, <1>3, <1>4, <1>5 DEF RowsSpeak

\* What a row says moves as the promise has it.
LEMMA PromiseKeptOf ==
  ASSUME ActivityInv, MovesWell, NEW i \in 1..LastRow
  PROVE  /\ \/ RowEnded(i)' = RowEnded(i)
            \/ RowEnded(i) = "open" /\ RowEnded(i)' \in {"success", "error"}
         /\ \/ RowSays(i)' = RowSays(i)
            \/ RowSays(i) = "none" /\ RowSays(i)' = "running"
            \/ RowSays(i) = "running" /\ RowEnded(i)' # "open" /\ RowSays(i)' = RowEnded(i)'
            \/ RowSays(i) # "none" /\ RowSays(i)' = "gone"
<1>1. WorkMoves /\ WorkAdded /\ ActivityInv'
  BY DEF MovesWell
<1>0. RowsSpeak /\ RowsSpeak'
  <2>1. RowsSpeak
    BY WhatRowsSay
  <2>2. (ActivityInv => RowsSpeak)'
    BY WhatRowsSay, PTL
  <2>. QED
    BY <1>1, <2>1, <2>2
<1>2. /\ \A r \in rows : RowSays(r.id) = r.status /\ r.status \in RowStatus
      /\ i \notin DOMAIN work => RowSays(i) = "none"
      /\ RowEnded(i) \in WorkEnd
  BY <1>0 DEF RowsSpeak
<1>3. /\ \A r \in rows' : /\ RowSays(r.id)' = r.status /\ r.status \in RowStatus
                          /\ r.status # "running" => r.status = RowEnded(r.id)'
      /\ i \in DOMAIN work' => ((\A r \in rows' : r.id # i) => RowSays(i)' = "gone")
      /\ i \notin DOMAIN work' => RowSays(i)' = "none"
      /\ RowEnded(i)' \in WorkEnd
  BY <1>0 DEF RowsSpeak
<1>4. i \notin DOMAIN work => RowEnded(i) = "open"
  BY DEF RowEnded
<1>5. \/ RowEnded(i)' = RowEnded(i)
      \/ RowEnded(i) = "open" /\ RowEnded(i)' \in {"success", "error"}
  <2>1. RowEnded(i)' = RowEnded(i) \/ RowEnded(i) = "open"
    BY <1>1, <1>4 DEF WorkMoves
  <2>. QED
    BY <1>3, <2>1 DEF WorkEnd
<1>6. CASE i \notin DOMAIN work
  <2>1. CASE i \notin DOMAIN work'
    BY <1>2, <1>3, <1>5, <1>6, <2>1
  <2>2. CASE i \in DOMAIN work'
    <3>1. PICK s \in rows' : s.id = i /\ s.status = "running"
      BY <1>1, <1>6, <2>2 DEF WorkAdded
    <3>. QED
      BY <1>2, <1>3, <1>5, <1>6, <3>1
  <2>. QED
    BY <2>1, <2>2
<1>7. CASE i \in DOMAIN work
  <2>1. /\ i \in DOMAIN work'
        /\ \A s \in rows' : s.id = i => \E r \in rows : r.id = i /\ r.status \in {"running", s.status}
    BY <1>1, <1>7 DEF WorkMoves
  <2>2. RowSays(i) # "none"
    <3>1. CASE \E r \in rows : r.id = i
      BY <1>2, <3>1 DEF RowStatus
    <3>2. CASE \A r \in rows : r.id # i
      BY <1>7, <3>2 DEF RowSays
    <3>. QED
      BY <3>1, <3>2
  <2>3. CASE \A s \in rows' : s.id # i
    BY <1>3, <1>5, <2>1, <2>2, <2>3
  <2>4. ASSUME NEW s \in rows', s.id = i
        PROVE  \/ RowSays(i)' = RowSays(i)
               \/ RowSays(i) = "running" /\ RowEnded(i)' # "open" /\ RowSays(i)' = RowEnded(i)'
    <3>1. PICK r \in rows : r.id = i /\ r.status \in {"running", s.status}
      BY <2>1, <2>4
    <3>2. RowSays(i) = r.status /\ RowSays(i)' = s.status
      BY <1>2, <1>3, <2>4, <3>1
    <3>3. s.status \in RowStatus /\ (s.status # "running" => s.status = RowEnded(i)')
      BY <1>3, <2>4
    <3>. QED
      BY <3>1, <3>2, <3>3 DEF RowStatus
  <2>. QED
    BY <1>5, <2>3, <2>4
<1>. QED
  BY <1>6, <1>7

\* The activity store implements its promise: rows that settle in any order,
\* answers of polls that overtake each other, dismissals and the cap.
THEOREM DockKeepsItsPromise ==
  ActivityInit /\ [][ActivityNext]_activityVars => KeepsItsPromise
<1>1. ActivityInit => Promise!PromiseInit
  <2>. SUFFICES ASSUME ActivityInit PROVE Promise!PromiseInit
    OBVIOUS
  <2>1. ActivityInv
    BY ActivityStarts
  <2>2. DOMAIN work = {}
    BY DEF ActivityInit
  <2>3. \A i : RowEnded(i) = "open" /\ RowSays(i) = "none"
    BY <2>2 DEF RowEnded, RowSays
  <2>. QED
    BY <2>3 DEF Promise!PromiseInit
<1>2. ActivityInv /\ [ActivityNext]_activityVars
      => ActivityInv' /\ \A i \in 1..LastRow : Promise!Moves(i)
  <2>. SUFFICES ASSUME ActivityInv, [ActivityNext]_activityVars
                PROVE  ActivityInv' /\ \A i \in 1..LastRow : Promise!Moves(i)
    OBVIOUS
  <2>1. MovesWell
    BY ActivityMoves
  <2>2. ASSUME NEW i \in 1..LastRow PROVE Promise!Moves(i)
    BY <2>1, PromiseKeptOf DEF Promise!Moves
  <2>. QED
    BY <2>1, <2>2 DEF MovesWell
<1>. QED
  BY <1>1, <1>2, ActivityStarts, PTL DEF KeepsItsPromise, Promise!PromiseSpec


-----------------------------------------------------------------------------
(* The admin page.                                                         *)

FoldersOf(s) == {s[i] : i \in DOMAIN s}
IsLoop(l) == \E at, asked, todo, started, failed :
                l = [at |-> at, asked |-> asked, todo |-> todo, started |-> started, failed |-> failed]

\* An ingest loop still has every folder it has neither started nor reported.
LoopOK(l) ==
    /\ IsLoop(l)
    /\ l.todo \in Seq(FoldersOf(l.asked))
    /\ FoldersOf(l.asked) = l.started \cup l.failed \cup FoldersOf(l.todo)
AdminInv == SelectedIsListed /\ \A l \in ingests : LoopOK(l)

\* The folders of a queue are its first and those of the rest.
LEMMA FirstAndRest ==
  ASSUME NEW S, NEW s \in Seq(S), s # <<>>
  PROVE  /\ Tail(s) \in Seq(S)
         /\ FoldersOf(s) = {Head(s)} \cup FoldersOf(Tail(s))
<1>1. Len(s) \in Nat \ {0} /\ DOMAIN s = 1..Len(s)
  OBVIOUS
<1>2. PICK t : t = Tail(s)
  OBVIOUS
<1>3. t \in Seq(S) /\ Len(t) = Len(s) - 1 /\ \A i \in 1..(Len(s) - 1) : t[i] = s[i + 1]
  BY <1>1, <1>2
<1>4. Head(s) = s[1]
  OBVIOUS
<1>5. \A x : x \in FoldersOf(s) => x = s[1] \/ x \in FoldersOf(t)
  <2>1. ASSUME NEW i \in 1..Len(s), i # 1 PROVE s[i] \in FoldersOf(t)
    <3>1. PICK j \in 1..(Len(s) - 1) : j + 1 = i
      <4>1. i - 1 \in 1..(Len(s) - 1) /\ (i - 1) + 1 = i
        BY <1>1, <2>1
      <4>. QED
        BY <4>1
    <3>2. t[j] = s[i] /\ j \in DOMAIN t
      BY <1>3, <3>1
    <3>. QED
      BY <3>2 DEF FoldersOf
  <2>. QED
    BY <1>1, <2>1 DEF FoldersOf
<1>6. s[1] \in FoldersOf(s)
  BY <1>1 DEF FoldersOf
<1>7. \A x : x \in FoldersOf(t) => x \in FoldersOf(s)
  <2>1. ASSUME NEW i \in 1..(Len(s) - 1) PROVE t[i] \in FoldersOf(s)
    <3>1. i + 1 \in DOMAIN s /\ t[i] = s[i + 1]
      BY <1>1, <1>3
    <3>. QED
      BY <3>1 DEF FoldersOf
  <2>2. DOMAIN t = 1..(Len(s) - 1)
    BY <1>3
  <2>. QED
    BY <2>1, <2>2 DEF FoldersOf
<1>. QED
  BY <1>2, <1>3, <1>4, <1>5, <1>6, <1>7

\* A loop that took its first folder on, with or without success.
LEMMA LoopGoesOn ==
  ASSUME NEW l, LoopOK(l), l.todo # <<>>
  PROVE  /\ LoopOK([l EXCEPT !.started = @ \cup {Head(l.todo)}, !.todo = Tail(@)])
         /\ LoopOK([l EXCEPT !.failed = @ \cup {Head(l.todo)}, !.todo = Tail(@)])
<1>1. PICK at, asked, todo, started, failed :
         l = [at |-> at, asked |-> asked, todo |-> todo, started |-> started, failed |-> failed]
  BY DEF LoopOK, IsLoop
<1>2. /\ todo \in Seq(FoldersOf(asked)) /\ todo # <<>>
      /\ FoldersOf(asked) = started \cup failed \cup FoldersOf(todo)
  BY <1>1 DEF LoopOK
<1>3. PICK h, t : h = Head(todo) /\ t = Tail(todo)
  OBVIOUS
<1>4. t \in Seq(FoldersOf(asked)) /\ FoldersOf(todo) = {h} \cup FoldersOf(t)
  BY <1>2, <1>3, FirstAndRest
<1>5. PICK m : m = [l EXCEPT !.started = @ \cup {Head(l.todo)}, !.todo = Tail(@)]
  OBVIOUS
<1>6. m = [at |-> at, asked |-> asked, todo |-> t, started |-> started \cup {h}, failed |-> failed]
  BY <1>1, <1>3, <1>5
<1>7. PICK n : n = [l EXCEPT !.failed = @ \cup {Head(l.todo)}, !.todo = Tail(@)]
  OBVIOUS
<1>8. n = [at |-> at, asked |-> asked, todo |-> t, started |-> started, failed |-> failed \cup {h}]
  BY <1>1, <1>3, <1>7
<1>9. LoopOK(m)
  BY <1>2, <1>4, <1>6 DEF LoopOK, IsLoop
<1>10. LoopOK(n)
  BY <1>2, <1>4, <1>8 DEF LoopOK, IsLoop
<1>. QED
  BY <1>5, <1>7, <1>9, <1>10

\* The page opens with nothing selected and no loop.
LEMMA AdminStarts == AdminInit => AdminInv
BY DEF AdminInit, AdminInv, SelectedIsListed

\* Every step of the page keeps the selection within the list.
LEMMA SelectionMoves == SelectedIsListed /\ [AdminNext]_adminVars => SelectedIsListed'
<1>. SUFFICES ASSUME SelectedIsListed, [AdminNext]_adminVars PROVE SelectedIsListed'
  OBVIOUS
<1>1. \/ ScanMissingFiles \/ ScanLands \/ ToggleMissing \/ ToggleAllMissing \/ CleanupEnds
      \/ UNCHANGED <<missing, selectedMissing>>
  BY DEF AdminNext, adminVars, cleanVars, FileChanges, ScanServed, ScanFails,
         DeleteSelectedMissing, CleanupTaken, CleanupFails, IngestPress, IngestDispatched,
         IngestEnds, RunMaintenance, MaintenanceAnswered, PollJobs, JobsArrive, ExpandJob,
         JobDetailArrives, CancelJob
<1>2. CASE ScanMissingFiles
  BY <1>2 DEF ScanMissingFiles, SelectedIsListed
<1>3. CASE ScanLands
  BY <1>3 DEF ScanLands, Preselected, SelectedIsListed
<1>4. CASE ToggleMissing
  BY <1>4 DEF ToggleMissing, SelectedIsListed
<1>5. CASE ToggleAllMissing
  BY <1>5 DEF ToggleAllMissing, SelectedIsListed
<1>6. CASE CleanupEnds
  BY <1>6 DEF CleanupEnds, SelectionAfterCleanup, SelectedIsListed
<1>7. CASE UNCHANGED <<missing, selectedMissing>>
  BY <1>7 DEF SelectedIsListed
<1>. QED
  BY <1>1, <1>2, <1>3, <1>4, <1>5, <1>6, <1>7

\* Every step of the page keeps what each ingest loop has accounted for.
LEMMA LoopsMove ==
  (\A l \in ingests : LoopOK(l)) /\ [AdminNext]_adminVars => \A l \in ingests' : LoopOK(l)
<1>. SUFFICES ASSUME \A l \in ingests : LoopOK(l), [AdminNext]_adminVars
              PROVE  \A l \in ingests' : LoopOK(l)
  OBVIOUS
<1>1. IngestPress \/ IngestDispatched \/ IngestEnds \/ UNCHANGED ingests
  BY DEF AdminNext, adminVars, cleanVars, ingestVars, FileChanges, ScanMissingFiles, ScanServed,
         ScanLands, ScanFails, ToggleMissing, ToggleAllMissing, DeleteSelectedMissing,
         CleanupTaken, CleanupEnds, CleanupFails, RunMaintenance, MaintenanceAnswered,
         PollJobs, JobsArrive, ExpandJob, JobDetailArrives, CancelJob
<1>2. CASE IngestPress
  <2>1. PICK f \in Folders :
           \/ UNCHANGED ingests
           \/ ingests' = ingests \cup {[at |-> adminClicks, asked |-> f, todo |-> f,
                                        started |-> {}, failed |-> {}]}
    BY <1>2 DEF IngestPress
  <2>2. PICK l : l = [at |-> adminClicks, asked |-> f, todo |-> f, started |-> {}, failed |-> {}]
    OBVIOUS
  <2>3. f \in Seq(FoldersOf(f))
    BY AdminAssumption DEF FoldersOf
  <2>4. LoopOK(l)
    BY <2>2, <2>3 DEF LoopOK, IsLoop
  <2>. QED
    BY <2>1, <2>2, <2>4
<1>3. CASE IngestDispatched
  <2>1. PICK l \in ingests, ok \in BOOLEAN :
           /\ l.todo # <<>>
           /\ ingests' = (ingests \ {l}) \cup
                {IF ok THEN [l EXCEPT !.started = @ \cup {Head(l.todo)}, !.todo = Tail(@)]
                 ELSE AfterFailure(l)}
    BY <1>3 DEF IngestDispatched
  <2>2. PICK m : m = IF ok THEN [l EXCEPT !.started = @ \cup {Head(l.todo)}, !.todo = Tail(@)]
                     ELSE AfterFailure(l)
    OBVIOUS
  <2>3. LoopOK(m)
    BY <2>1, <2>2, LoopGoesOn DEF AfterFailure
  <2>. QED
    BY <2>1, <2>2, <2>3
<1>4. CASE IngestEnds
  BY <1>4 DEF IngestEnds
<1>. QED
  BY <1>1, <1>2, <1>3, <1>4

\* Every step of the page keeps its invariant.
LEMMA AdminMoves == AdminInv /\ [AdminNext]_adminVars => AdminInv'
BY SelectionMoves, LoopsMove DEF AdminInv

\* A loop that is through has tried every folder it was asked for.
LEMMA FoldersAreTried == AdminInv => EveryFolderIsTried
BY DEF AdminInv, LoopOK, FoldersOf, EveryFolderIsTried


-----------------------------------------------------------------------------
(* The compare tray.                                                       *)

\* A tray holds images, each once.
Distinct(s) == s \in Seq(Picks) /\ IsInjective(s)
CanBeCompared(ids) == Len(ids) \in 2..MAX /\ IsInjective(ids)
TrayInv ==
    /\ Distinct(tray) /\ Len(tray) <= MAX /\ Distinct(kept)
    /\ \A c \in comparisons : c.ofTray => CanBeCompared(c.ids)

\* An empty tray repeats nothing and is not full.
LEMMA NothingIsDistinct == Distinct(<<>>) /\ Len(<<>>) <= MAX
<1>1. <<>> \in Seq(Picks) /\ Len(<<>>) = 0 /\ DOMAIN <<>> = {}
  OBVIOUS
<1>. QED
  BY <1>1, TrayAssumption DEF Distinct, IsInjective

\* The first images of a tray repeat nothing.
LEMMA FrontIsDistinct ==
  ASSUME NEW s, Distinct(s), NEW n \in 0..Len(s)
  PROVE  Distinct(SubSeq(s, 1, n)) /\ Len(SubSeq(s, 1, n)) = n
<1>1. s \in Seq(Picks) /\ Len(s) \in Nat /\ DOMAIN s = 1..Len(s)
  BY DEF Distinct
<1>2. PICK t : t = SubSeq(s, 1, n)
  OBVIOUS
<1>3. t \in Seq(Picks) /\ Len(t) = n /\ \A i \in 1..n : t[i] = s[i]
  BY <1>1, <1>2
<1>4. IsInjective(t)
  BY <1>1, <1>3 DEF Distinct, IsInjective
<1>. QED
  BY <1>2, <1>3, <1>4 DEF Distinct

\* An image that was not in the tray may be appended.
LEMMA AppendedIsDistinct ==
  ASSUME NEW s, Distinct(s), NEW i \in Picks, ~Contains(s, i)
  PROVE  Distinct(Append(s, i)) /\ Len(Append(s, i)) = Len(s) + 1
<1>1. s \in Seq(Picks) /\ Len(s) \in Nat /\ DOMAIN s = 1..Len(s)
  BY DEF Distinct
<1>2. PICK t : t = Append(s, i)
  OBVIOUS
<1>3. /\ t \in Seq(Picks) /\ Len(t) = Len(s) + 1 /\ DOMAIN t = 1..(Len(s) + 1)
      /\ t[Len(s) + 1] = i /\ \A k \in 1..Len(s) : t[k] = s[k] /\ t[k] # i
  BY <1>1, <1>2 DEF Contains
<1>4. ASSUME NEW a \in 1..(Len(s) + 1), NEW b \in 1..(Len(s) + 1), t[a] = t[b] PROVE a = b
  <2>1. CASE a \in 1..Len(s) /\ b \in 1..Len(s)
    BY <1>1, <1>3, <1>4, <2>1 DEF Distinct, IsInjective
  <2>2. CASE a = Len(s) + 1 \/ b = Len(s) + 1
    BY <1>1, <1>3, <1>4, <2>2
  <2>. QED
    BY <1>1, <2>1, <2>2
<1>5. IsInjective(t)
  BY <1>3, <1>4 DEF IsInjective
<1>. QED
  BY <1>2, <1>3, <1>5 DEF Distinct

\* One image less, and the others in their order.
LEMMA RemovedIsDistinct ==
  ASSUME NEW s, Distinct(s), NEW i
  PROVE  Distinct(RemoveFirst(s, i)) /\ Len(RemoveFirst(s, i)) <= Len(s)
<1>1. s \in Seq(Picks) /\ Len(s) \in Nat /\ DOMAIN s = 1..Len(s)
  BY DEF Distinct
<1>2. CASE ~\E k \in 1..Len(s) : s[k] = i
  BY <1>1, <1>2 DEF RemoveFirst
<1>3. CASE \E k \in 1..Len(s) : s[k] = i
  <2>1. PICK k \in 1..Len(s) : s[k] = i
    BY <1>3
  <2>2. {j \in 1..Len(s) : s[j] = i} = {k}
    BY <1>1, <2>1 DEF Distinct, IsInjective
  <2>3. SelectInSeq(s, LAMBDA v : v = i) = k
    BY <2>2 DEF SelectInSeq, Min
  <2>4. RemoveFirst(s, i) = SubSeq(s, 1, k - 1) \o SubSeq(s, k + 1, Len(s))
    BY <1>3, <2>3 DEF RemoveFirst, RemoveAt
  <2>5. PICK a, b, t : /\ a = SubSeq(s, 1, k - 1) /\ b = SubSeq(s, k + 1, Len(s)) /\ t = a \o b
    OBVIOUS
  <2>6. a \in Seq(Picks) /\ Len(a) = k - 1 /\ \A j \in 1..(k - 1) : a[j] = s[j]
    BY <1>1, <2>1, <2>5
  <2>7. b \in Seq(Picks) /\ Len(b) = Len(s) - k /\ \A j \in 1..(Len(s) - k) : b[j] = s[k + j]
    <3>1. PICK low \in Nat : low = k + 1
      BY <1>1, <2>1
    <3>2. PICK len \in Nat : len = Len(s)
      BY <1>1
    <3>3. b = SubSeq(s, low, len)
      BY <2>5, <3>1, <3>2
    <3>4. \A j \in low..len : s[j] \in Picks
      BY <1>1, <3>1, <3>2
    <3>5. low \in Int /\ len \in Int
      BY <3>1, <3>2
    <3>6. /\ b \in Seq(Picks) /\ Len(b) = (IF low <= len THEN len - low + 1 ELSE 0)
          /\ \A j \in 1..(len - low + 1) : b[j] = s[low + j - 1]
      BY <3>3, <3>4, <3>5, SubSeqProperties
    <3>7. len - low + 1 = len - k /\ (~(low <= len) => len - k = 0)
      <4>1. k \in Nat /\ k <= len
        BY <1>1, <2>1, <3>2
      <4>. QED
        BY <3>1, <3>2, <4>1
    <3>8. Len(b) = len - k
      BY <3>1, <3>2, <3>5, <3>6, <3>7
    <3>9. ASSUME NEW j \in 1..(len - k) PROVE b[j] = s[k + j]
      <4>1. j \in 1..(len - low + 1)
        BY <3>7
      <4>2. PICK m : m = low + j - 1
        OBVIOUS
      <4>3. m = k + j
        BY <2>1, <3>1, <4>2
      <4>. QED
        BY <3>6, <4>1, <4>2, <4>3
    <3>. QED
      BY <3>2, <3>6, <3>8, <3>9
  <2>8. /\ t \in Seq(Picks) /\ Len(t) = Len(s) - 1
        /\ \A j \in 1..(Len(s) - 1) : t[j] = IF j < k THEN s[j] ELSE s[j + 1]
    <3>1. t = a \o b
      BY <2>5
    <3>2. /\ t \in Seq(Picks) /\ Len(t) = Len(a) + Len(b)
          /\ \A j \in 1..(Len(a) + Len(b)) : t[j] = IF j <= Len(a) THEN a[j] ELSE b[j - Len(a)]
      <4>1. a \in Seq(Picks) /\ b \in Seq(Picks)
        BY <2>6, <2>7
      <4>. QED
        BY <3>1, <4>1, ConcatProperties
    <3>3. Len(a) + Len(b) = Len(s) - 1
      BY <1>1, <2>1, <2>6, <2>7
    <3>4. ASSUME NEW j \in 1..(Len(s) - 1) PROVE t[j] = IF j < k THEN s[j] ELSE s[j + 1]
      <4>1. t[j] = IF j <= k - 1 THEN a[j] ELSE b[j - (k - 1)]
        BY <2>6, <3>2, <3>3
      <4>2. CASE j < k
        BY <1>1, <2>1, <2>6, <4>1, <4>2
      <4>3. CASE ~(j < k)
        <5>1. PICK m \in 1..(Len(s) - k) : m = j - (k - 1)
          BY <1>1, <2>1, <4>3
        <5>2. t[j] = s[k + m] /\ k + m = j + 1
          BY <1>1, <2>1, <2>7, <4>1, <4>3, <5>1
        <5>. QED
          BY <4>3, <5>2
      <4>. QED
        BY <4>2, <4>3
    <3>. QED
      BY <3>2, <3>3, <3>4
  <2>9. ASSUME NEW x \in 1..Len(t), NEW y \in 1..Len(t), t[x] = t[y] PROVE x = y
    <3>1. PICK u \in 1..Len(s) : u = IF x < k THEN x ELSE x + 1
      BY <1>1, <2>1, <2>8
    <3>2. PICK w \in 1..Len(s) : w = IF y < k THEN y ELSE y + 1
      BY <1>1, <2>1, <2>8
    <3>3. t[x] = s[u] /\ t[y] = s[w]
      BY <2>8, <3>1, <3>2
    <3>4. u = w
      BY <1>1, <2>9, <3>3 DEF Distinct, IsInjective
    <3>. QED
      BY <1>1, <2>1, <2>8, <3>1, <3>2, <3>4
  <2>10. IsInjective(t)
    BY <2>8, <2>9 DEF IsInjective
  <2>11. Distinct(t) /\ Len(t) <= Len(s)
    BY <1>1, <2>8, <2>10 DEF Distinct
  <2>12. RemoveFirst(s, i) = t
    BY <2>4, <2>5
  <2>. QED
    BY <2>11, <2>12
<1>. QED
  BY <1>2, <1>3

\* The tray opens empty.
LEMMA TrayStarts == TrayInit => TrayInv
BY NothingIsDistinct DEF TrayInit, TrayInv

\* A tray that is put as a whole keeps the invariant.
LEMMA TrayPut ==
  ASSUME TrayInv, NEW ids, Put(ids), Distinct(ids), Len(ids) <= MAX, comparisons' \subseteq comparisons
  PROVE  TrayInv'
BY DEF TrayInv, Put, Distinct

\* Images are asked to be compared as a whole tray of two or more, or not by
\* the tray.
LEMMA ComparisonsAsked ==
  ASSUME TrayInv, NEW ids, NEW own \in BOOLEAN, Compare(ids, own), own => ids = tray
  PROVE  \A c \in comparisons' : c.ofTray => CanBeCompared(c.ids)
<1>1. CASE comparisons' = comparisons
  BY <1>1 DEF TrayInv
<1>2. CASE comparisons' # comparisons
  <2>1. PICK c : c = [id |-> trayClicks, ids |-> ids, ofTray |-> own]
    OBVIOUS
  <2>2. ~(Len(ids) < 2) /\ comparisons' = comparisons \union {c}
    BY <1>2, <2>1 DEF Compare
  <2>3. own => CanBeCompared(ids)
    <3>. SUFFICES ASSUME own PROVE CanBeCompared(ids)
      OBVIOUS
    <3>1. ids = tray /\ Len(tray) \in Nat /\ Len(tray) <= MAX /\ IsInjective(tray)
      BY DEF TrayInv, Distinct
    <3>. QED
      BY <2>2, <3>1, TrayAssumption DEF CanBeCompared
  <2>. QED
    BY <2>1, <2>2, <2>3 DEF TrayInv
<1>. QED
  BY <1>1, <1>2

\* Every step of the tray and of the compare page keeps its invariant.
LEMMA TrayMoves == TrayInv /\ [TrayNext]_trayVars => TrayInv'
<1>. SUFFICES ASSUME TrayInv, [TrayNext]_trayVars PROVE TrayInv'
  OBVIOUS
<1>0. Distinct(tray) /\ Len(tray) \in Nat /\ Len(tray) <= MAX /\ Distinct(kept)
  BY DEF TrayInv, Distinct
<1>1. CASE MountEffects
  <2>1. PICK n \in 0..Len(kept) : n <= MAX /\ tray' = SubSeq(kept, 1, n)
    <3>1. Len(kept) \in Nat
      BY <1>0 DEF Distinct
    <3>. QED
      BY <1>1, <3>1, TrayAssumption DEF MountEffects
  <2>2. kept' = <<>> /\ comparisons' = comparisons
    BY <1>1 DEF MountEffects
  <2>. QED
    BY <1>0, <2>1, <2>2, FrontIsDistinct, NothingIsDistinct DEF TrayInv, Distinct
<1>2. CASE TrayRendered
  BY <1>2 DEF TrayInv, TrayRendered, Distinct
<1>3. CASE ReloadTab
  BY <1>0, <1>3, NothingIsDistinct DEF TrayInv, ReloadTab, Distinct
<1>4. ASSUME NEW i \in Picks, ToggleTray(i) PROVE TrayInv'
  <2>1. Put(Toggled(i)) /\ comparisons' = comparisons
    BY <1>4 DEF ToggleTray
  <2>2. Distinct(Toggled(i)) /\ Len(Toggled(i)) <= MAX
    <3>1. CASE Has(i)
      <4>1. Distinct(RemoveFirst(tray, i)) /\ Len(RemoveFirst(tray, i)) <= Len(tray)
        BY <1>0, RemovedIsDistinct
      <4>2. Len(RemoveFirst(tray, i)) \in Nat
        BY <4>1 DEF Distinct
      <4>. QED
        BY <1>0, <3>1, <4>1, <4>2, TrayAssumption DEF Toggled
    <3>2. CASE ~Has(i) /\ isFull
      BY <1>0, <3>2 DEF Toggled
    <3>3. CASE ~Has(i) /\ ~isFull
      <4>1. Distinct(Append(tray, i)) /\ Len(Append(tray, i)) = Len(tray) + 1
        BY <1>0, <3>3, AppendedIsDistinct DEF Has
      <4>. QED
        BY <1>0, <3>3, <4>1, TrayAssumption DEF Toggled, isFull
    <3>. QED
      BY <3>1, <3>2, <3>3
  <2>. QED
    BY <2>1, <2>2, TrayPut
<1>5. ASSUME NEW i, Put(RemoveFirst(tray, i)) PROVE /\ Distinct(tray') /\ Len(tray') <= MAX
                                                     /\ Distinct(kept')
  <2>1. Distinct(RemoveFirst(tray, i)) /\ Len(RemoveFirst(tray, i)) <= Len(tray)
    BY <1>0, RemovedIsDistinct
  <2>2. Len(RemoveFirst(tray, i)) \in Nat
    BY <2>1 DEF Distinct
  <2>. QED
    BY <1>0, <1>5, <2>1, <2>2, TrayAssumption DEF Put
<1>6. ASSUME NEW i \in Picks, RemoveFromTray(i) PROVE TrayInv'
  BY <1>5, <1>6 DEF RemoveFromTray, TrayInv, Distinct
<1>7. ASSUME NEW i \in Picks, RemoveCompared(i) PROVE TrayInv'
  <2>1. Put(RemoveFirst(tray, i))
    BY <1>7 DEF RemoveCompared
  <2>2. \E ids : Compare(ids, FALSE)
    BY <1>7 DEF RemoveCompared
  <2>3. \A c \in comparisons' : c.ofTray => CanBeCompared(c.ids)
    BY <2>2, ComparisonsAsked
  <2>. QED
    BY <1>5, <2>1, <2>3 DEF TrayInv, CanBeCompared, Distinct
<1>8. CASE ClearTray
  BY <1>8, NothingIsDistinct, TrayPut DEF ClearTray
<1>9. CASE CompareLink \/ \E ids \in TypedUrls : CompareByHand(ids)
  <2>1. UNCHANGED <<tray, kept>> /\ (Compare(tray, TRUE) \/ \E ids : Compare(ids, FALSE))
    BY <1>9 DEF CompareLink, CompareByHand
  <2>2. \A c \in comparisons' : c.ofTray => CanBeCompared(c.ids)
    BY <2>1, ComparisonsAsked
  <2>. QED
    BY <2>1, <2>2 DEF TrayInv, CanBeCompared, Distinct
<1>10. CASE LeaveCompare \/ \E c \in comparisons : ComparisonLands(c) \/ ComparisonRefused(c)
  <2>1. UNCHANGED <<tray, kept>> /\ comparisons' \subseteq comparisons
    BY <1>10 DEF LeaveCompare, ComparisonLands, ComparisonRefused
  <2>. QED
    BY <2>1 DEF TrayInv, Distinct
<1>11. CASE UNCHANGED trayVars
  BY <1>11 DEF TrayInv, trayVars, Distinct
<1>. QED
  BY <1>1, <1>2, <1>3, <1>4, <1>6, <1>7, <1>8, <1>9, <1>10, <1>11 DEF TrayNext

\* What the tray asks to compare are two images or more, up to its size.
LEMMA TrayIsCompared == TrayInv => TrayAsksForWhatCanBeCompared
BY DEF TrayInv, CanBeCompared, TrayAsksForWhatCanBeCompared


-----------------------------------------------------------------------------
(* The book shelf.                                                         *)

Found == [title : BOOLEAN, author : BOOLEAN, rated : BOOLEAN, genres : SUBSET Shelves]
Scraped == [book : 1..Books, title : BOOLEAN, author : BOOLEAN, rated : BOOLEAN, genres : SUBSET Shelves]
IsStats(s) == \E ok, bad, errors : s = [successful |-> ok, failed |-> bad, errors |-> errors]
IsFilter(f) == \E query, sort, genres, tags : \E low \in Nat :
    f = [query |-> query, sort |-> sort, genres |-> genres, tags |-> tags, minRating |-> low]

\* The record of a book has its title and author, or its error is reported.
Accounted(b) == b \in stats.errors \/ \E r \in ToSet(metadata) : r.book = b /\ r.title /\ r.author
Past(b) == b < book \/ step \in {"save", "done", "unsaved"}
ShelfTypes ==
    /\ book \in 1..Books /\ found \in Found /\ metadata \in Seq(Scraped)
    /\ IsStats(stats) /\ IsFilter(bookFilters)
ShelfInv ==
    /\ ShelfTypes
    /\ \A b \in 1..Books : Past(b) => Accounted(b)
    /\ step = "close" => book \in stats.errors \/ hasRequiredFields
    /\ step = "done" => booksFile = metadata

\* The scraper starts with nothing read, the page with no filter.
LEMMA ShelfStarts == ShelfInit => ShelfInv
<1>. SUFFICES ASSUME ShelfInit PROVE ShelfInv
  OBVIOUS
<1>1. book = 1 /\ Books \in Nat /\ Books >= 1
  BY ShelfAssumption DEF ShelfInit
<1>2. found \in Found /\ metadata \in Seq(Scraped) /\ IsStats(stats)
  <2>1. found \in Found
    BY DEF ShelfInit, Found, NothingFound
  <2>2. metadata \in Seq(Scraped)
    BY DEF ShelfInit
  <2>3. IsStats(stats)
    BY DEF ShelfInit, IsStats
  <2>. QED
    BY <2>1, <2>2, <2>3
<1>3. IsFilter(bookFilters)
  <2>1. bookFilters = [query |-> {}, sort |-> "rating-desc", genres |-> {}, tags |-> {}, minRating |-> 0]
    BY DEF ShelfInit, INITIAL_FILTERS
  <2>. QED
    BY <2>1 DEF IsFilter
<1>4. \A b \in 1..Books : ~Past(b)
  BY <1>1 DEF ShelfInit, Past
<1>. QED
  BY <1>1, <1>2, <1>3, <1>4 DEF ShelfInit, ShelfInv, ShelfTypes

\* One more error, or a count: nothing that was accounted for is forgotten.
LEMMA ErrorReported ==
  ASSUME ShelfTypes, stats' = [stats EXCEPT !.failed = @ + 1, !.errors = @ \cup {book}]
  PROVE  IsStats(stats') /\ stats'.errors = stats.errors \cup {book}
<1>1. PICK ok, bad, errors : stats = [successful |-> ok, failed |-> bad, errors |-> errors]
  BY DEF ShelfTypes, IsStats
<1>2. PICK s : s = [stats EXCEPT !.failed = @ + 1, !.errors = @ \cup {book}]
  OBVIOUS
<1>3. s = [successful |-> ok, failed |-> bad + 1, errors |-> errors \cup {book}]
  BY <1>1, <1>2
<1>4. IsStats(s) /\ s.errors = stats.errors \cup {book}
  BY <1>1, <1>3 DEF IsStats
<1>. QED
  BY <1>2, <1>4

\* A success counted leaves the errors as they were.
LEMMA SuccessCounted ==
  ASSUME ShelfTypes, stats' = [stats EXCEPT !.successful = @ + 1]
  PROVE  IsStats(stats') /\ stats'.errors = stats.errors
<1>1. PICK ok, bad, errors : stats = [successful |-> ok, failed |-> bad, errors |-> errors]
  BY DEF ShelfTypes, IsStats
<1>2. PICK s : s = [stats EXCEPT !.successful = @ + 1]
  OBVIOUS
<1>3. s = [successful |-> ok + 1, failed |-> bad, errors |-> errors]
  BY <1>1, <1>2
<1>4. IsStats(s) /\ s.errors = stats.errors
  BY <1>1, <1>3 DEF IsStats
<1>. QED
  BY <1>2, <1>4

\* A book that is accounted for stays so.
LEMMA AccountedStays ==
  ASSUME stats.errors \subseteq stats'.errors, ToSet(metadata) \subseteq ToSet(metadata'),
         NEW b, Accounted(b)
  PROVE  Accounted(b)'
BY DEF Accounted

\* The scraper goes on to the next book with this one accounted for.
LEMMA NextBookKeeps ==
  ASSUME ShelfInv, NextBook, UNCHANGED <<found, booksFile, bookFilters>>,
         IsStats(stats'), metadata' \in Seq(Scraped),
         stats.errors \subseteq stats'.errors, ToSet(metadata) \subseteq ToSet(metadata'),
         NEW n, n = book, Accounted(n)', step \in {"launch", "open", "read", "close"}
  PROVE  ShelfInv'
<1>1. ShelfTypes /\ \A b \in 1..Books : Past(b) => Accounted(b)
  BY DEF ShelfInv
<1>2. book \in 1..Books /\ Books \in Nat
  BY <1>1, ShelfAssumption DEF ShelfTypes
<1>3. \/ book < Books /\ book' = book + 1 /\ step' = "launch"
      \/ book = Books /\ book' = book /\ step' = "save"
  BY <1>2 DEF NextBook
<1>4. \A b : Accounted(b) => Accounted(b)'
  BY DEF Accounted
<1>5. ASSUME NEW b \in 1..Books, Past(b)' PROVE Accounted(b)'
  <2>1. b < book \/ b = n
    BY <1>2, <1>3, <1>5 DEF Past
  <2>. QED
    BY <1>1, <1>4, <2>1 DEF Past
<1>6. ShelfTypes'
  BY <1>1, <1>2, <1>3 DEF ShelfTypes
<1>. QED
  BY <1>3, <1>5, <1>6 DEF ShelfInv

\* The steps of the scraper between two books keep the invariant.
LEMMA ScraperMoves ==
  ASSUME ShelfInv, Launched \/ Opened \/ Tallied \/ Closed \/ ScrapeThrows \/ CloseThrows
                   \/ Saved \/ SaveFails
  PROVE  ShelfInv'
<1>0. ShelfTypes /\ (\A b \in 1..Books : Past(b) => Accounted(b))
  BY DEF ShelfInv
<1>1. CASE Launched \/ Opened
  <2>1. found' \in Found /\ step' \in {"open", "read"} /\ step \in {"launch", "open"}
        /\ UNCHANGED <<book, stats, metadata, booksFile, bookFilters>>
    <3>1. NothingFound \in Found /\ found \in Found
      BY <1>0 DEF NothingFound, Found, ShelfTypes
    <3>2. found' \in {NothingFound, found} /\ UNCHANGED <<booksFile, bookFilters>>
      BY <1>1 DEF Launched, Opened, Scraping
    <3>3. /\ step' \in {"open", "read"} /\ step \in {"launch", "open"}
          /\ UNCHANGED <<book, stats, metadata>>
      BY <1>1 DEF Launched, Opened, Scraping, Keeps
    <3>. QED
      BY <3>1, <3>2, <3>3
  <2>2. ShelfTypes'
    BY <1>0, <2>1 DEF ShelfTypes, IsStats, IsFilter
  <2>. QED
    BY <1>0, <2>1, <2>2 DEF ShelfInv, Past, Accounted
<1>2. CASE Tallied
  <2>1. /\ step = "tally" /\ step' = "close" /\ stats' = Tally
        /\ UNCHANGED <<book, metadata, found, booksFile, bookFilters>>
    BY <1>2 DEF Tallied, Scraping
  <2>2. /\ IsStats(stats') /\ stats.errors \subseteq stats'.errors
        /\ book \in stats'.errors \/ hasRequiredFields
    BY <1>0, <2>1, ErrorReported, SuccessCounted DEF Tally
  <2>3. ShelfTypes'
    BY <1>0, <2>1, <2>2 DEF ShelfTypes, IsFilter
  <2>4. \A b \in 1..Books : Past(b)' => Accounted(b)'
    BY <1>0, <2>1, <2>2 DEF Past, Accounted
  <2>5. book' \in stats'.errors \/ hasRequiredFields'
    BY <2>1, <2>2 DEF hasRequiredFields
  <2>. QED
    BY <2>1, <2>3, <2>4, <2>5 DEF ShelfInv
<1>3. CASE Closed
  <2>1. PICK r : r = ScrapedRecord
    OBVIOUS
  <2>2. r \in Scraped /\ r.book = book /\ r.title = found.title /\ r.author = found.author
    BY <1>0, <2>1 DEF ScrapedRecord, Scraped, Found, ShelfTypes
  <2>3. /\ step = "close" /\ NextBook /\ metadata' = Append(metadata, r)
        /\ UNCHANGED <<found, stats, booksFile, bookFilters>>
    BY <1>3, <2>1 DEF Closed, Scraping
  <2>4. /\ metadata' \in Seq(Scraped) /\ Len(metadata') = Len(metadata) + 1
        /\ DOMAIN metadata' = DOMAIN metadata \cup {Len(metadata) + 1}
        /\ \A i \in DOMAIN metadata : metadata'[i] = metadata[i]
        /\ metadata'[Len(metadata) + 1] = r
    BY <1>0, <2>2, <2>3 DEF ShelfTypes
  <2>5. ToSet(metadata) \subseteq ToSet(metadata') /\ r \in ToSet(metadata')
    BY <2>4 DEF ToSet
  <2>6. PICK n : n = book
    OBVIOUS
  <2>7. Accounted(n)'
    <3>1. book \in stats.errors \/ (found.title /\ found.author)
      BY <2>3 DEF ShelfInv, hasRequiredFields
    <3>. QED
      BY <2>2, <2>3, <2>5, <2>6, <3>1 DEF Accounted
  <2>8. IsStats(stats') /\ stats' = stats
    BY <1>0, <2>3 DEF ShelfTypes, IsStats
  <2>. QED
    BY <2>3, <2>4, <2>5, <2>6, <2>7, <2>8, NextBookKeeps
<1>4. CASE ScrapeThrows
  <2>1. /\ stats' = [stats EXCEPT !.failed = @ + 1, !.errors = @ \cup {book}]
        /\ NextBook /\ UNCHANGED <<found, metadata, booksFile, bookFilters>>
        /\ step \in {"launch", "open", "read", "close"}
    BY <1>4 DEF ScrapeThrows
  <2>2. IsStats(stats') /\ stats'.errors = stats.errors \cup {book}
    BY <1>0, <2>1, ErrorReported
  <2>3. PICK n : n = book
    OBVIOUS
  <2>4. Accounted(n)'
    BY <2>2, <2>3 DEF Accounted
  <2>5. metadata' \in Seq(Scraped) /\ metadata' = metadata
    BY <1>0, <2>1 DEF ShelfTypes
  <2>. QED
    BY <2>1, <2>2, <2>3, <2>4, <2>5, NextBookKeeps
<1>5. CASE CloseThrows
  <2>1. /\ stats' = [stats EXCEPT !.failed = @ + 1, !.errors = @ \cup {book}]
        /\ UNCHANGED <<book, found, metadata, booksFile, bookFilters>>
        /\ step \in {"open", "read", "close"} /\ step' = "crashed"
    BY <1>5 DEF CloseThrows
  <2>2. IsStats(stats') /\ stats.errors \subseteq stats'.errors
    BY <1>0, <2>1, ErrorReported
  <2>3. ShelfTypes'
    BY <1>0, <2>1, <2>2 DEF ShelfTypes, IsFilter
  <2>. QED
    BY <1>0, <2>1, <2>2, <2>3 DEF ShelfInv, Past, Accounted
<1>6. CASE Saved \/ SaveFails
  <2>1. /\ UNCHANGED <<book, found, stats, metadata, bookFilters>>
        /\ step = "save"
        /\ (step' = "done" /\ booksFile' = metadata) \/ step' = "unsaved"
    BY <1>6 DEF Saved, SaveFails
  <2>2. ShelfTypes'
    BY <1>0, <2>1 DEF ShelfTypes, IsStats, IsFilter
  <2>. QED
    BY <1>0, <2>1, <2>2 DEF ShelfInv, Past, Accounted
<1>. QED
  BY <1>1, <1>2, <1>3, <1>4, <1>5, <1>6

\* A page of the shelf that is read, or fails, touches no book.
LEMMA PageReadKeeps ==
  ASSUME ShelfInv, found' \in Found, step' \in {"shelves", "tally"}, step \in {"read", "shelves"},
         UNCHANGED <<book, stats, metadata, booksFile, bookFilters>>
  PROVE  ShelfInv'
<1>1. ShelfTypes'
  BY DEF ShelfInv, ShelfTypes, IsStats, IsFilter
<1>. QED
  BY <1>1 DEF ShelfInv, Past, Accounted

\* A filter that is set touches nothing of the scraper's.
LEMMA FiltersKeep ==
  ASSUME ShelfInv, NEW f, FilterBooks(f), IsFilter(f)
  PROVE  ShelfInv'
<1>1. bookFilters' = f /\ UNCHANGED <<book, step, found, stats, metadata, booksFile>>
  BY DEF FilterBooks, scrapeVars
<1>2. ShelfTypes'
  BY <1>1 DEF ShelfInv, ShelfTypes, IsStats
<1>. QED
  BY <1>1, <1>2 DEF ShelfInv, Past, Accounted, hasRequiredFields

\* Each control changes one field of the filter, to one of its values.
LEMMA ChangedFilter ==
  ASSUME IsFilter(bookFilters), NEW v, NEW n \in Nat
  PROVE  /\ IsFilter([bookFilters EXCEPT !.query = v])
         /\ IsFilter([bookFilters EXCEPT !.sort = v])
         /\ IsFilter([bookFilters EXCEPT !.genres = v])
         /\ IsFilter([bookFilters EXCEPT !.tags = v])
         /\ IsFilter([bookFilters EXCEPT !.minRating = n])
<1>1. PICK query, sort, genres, tags, low :
         low \in Nat /\ bookFilters = [query |-> query, sort |-> sort, genres |-> genres,
                                      tags |-> tags, minRating |-> low]
  BY DEF IsFilter
<1>2. PICK a : a = [bookFilters EXCEPT !.query = v]
  OBVIOUS
<1>3. a = [query |-> v, sort |-> sort, genres |-> genres, tags |-> tags, minRating |-> low]
  BY <1>1, <1>2
<1>4. PICK b : b = [bookFilters EXCEPT !.sort = v]
  OBVIOUS
<1>5. b = [query |-> query, sort |-> v, genres |-> genres, tags |-> tags, minRating |-> low]
  BY <1>1, <1>4
<1>6. PICK c : c = [bookFilters EXCEPT !.genres = v]
  OBVIOUS
<1>7. c = [query |-> query, sort |-> sort, genres |-> v, tags |-> tags, minRating |-> low]
  BY <1>1, <1>6
<1>8. PICK d : d = [bookFilters EXCEPT !.tags = v]
  OBVIOUS
<1>9. d = [query |-> query, sort |-> sort, genres |-> genres, tags |-> v, minRating |-> low]
  BY <1>1, <1>8
<1>10. PICK e : e = [bookFilters EXCEPT !.minRating = n]
  OBVIOUS
<1>11. e = [query |-> query, sort |-> sort, genres |-> genres, tags |-> tags, minRating |-> n]
  BY <1>1, <1>10
<1>12. IsFilter(a) /\ IsFilter(b)
  BY <1>1, <1>3, <1>5 DEF IsFilter
<1>13. IsFilter(c) /\ IsFilter(d)
  BY <1>1, <1>7, <1>9 DEF IsFilter
<1>14. IsFilter(e)
  BY <1>11 DEF IsFilter
<1>. QED
  BY <1>2, <1>4, <1>6, <1>8, <1>10, <1>12, <1>13, <1>14

\* Every step of the scraper and of the page keeps the invariant.
LEMMA ShelfMoves == ShelfInv /\ [ShelfNext]_shelfVars => ShelfInv'
<1>. SUFFICES ASSUME ShelfInv, [ShelfNext]_shelfVars PROVE ShelfInv'
  OBVIOUS
<1>0. ShelfTypes /\ IsFilter(bookFilters) /\ found \in Found
  BY DEF ShelfInv, ShelfTypes
<1>1. CASE Launched \/ Opened \/ Tallied \/ Closed \/ ScrapeThrows \/ CloseThrows \/ Saved \/ SaveFails
  BY <1>1, ScraperMoves
<1>2. ASSUME NEW t \in BOOLEAN, NEW a \in BOOLEAN, NEW r \in BOOLEAN,
             Extracted([title |-> t, author |-> a, rated |-> r, genres |-> {}])
      PROVE ShelfInv'
  <2>1. PICK f : f = [title |-> t, author |-> a, rated |-> r, genres |-> {}]
    OBVIOUS
  <2>2. PICK g : g = [f EXCEPT !.genres = {}]
    OBVIOUS
  <2>3. g \in Found
    BY <2>1, <2>2 DEF Found
  <2>4. /\ found' = g /\ step = "read" /\ step' = "shelves"
        /\ UNCHANGED <<book, stats, metadata, booksFile, bookFilters>>
    BY <1>2, <2>1, <2>2 DEF Extracted, Scraping, Keeps
  <2>. QED
    BY <2>3, <2>4, PageReadKeeps
<1>3. ASSUME NEW gs \in SUBSET Shelves, GenresFetched(gs) PROVE ShelfInv'
  <2>1. PICK g : g = [found EXCEPT !.genres = gs]
    OBVIOUS
  <2>2. g \in Found
    BY <1>0, <2>1 DEF Found
  <2>3. /\ found' = g /\ step = "shelves" /\ step' = "tally"
        /\ UNCHANGED <<book, stats, metadata, booksFile, bookFilters>>
    BY <1>3, <2>1 DEF GenresFetched, Scraping, Keeps
  <2>. QED
    BY <2>2, <2>3, PageReadKeeps
<1>4. ASSUME NEW q, SetQuery(q) PROVE ShelfInv'
  BY <1>0, <1>4, ChangedFilter, FiltersKeep DEF SetQuery
<1>5. ASSUME NEW s, SetSort(s) PROVE ShelfInv'
  BY <1>0, <1>5, ChangedFilter, FiltersKeep DEF SetSort
<1>6. ASSUME NEW g, ToggleGenre(g) PROVE ShelfInv'
  BY <1>0, <1>6, ChangedFilter, FiltersKeep DEF ToggleGenre
<1>7. ASSUME NEW t, ToggleTag(t) PROVE ShelfInv'
  BY <1>0, <1>7, ChangedFilter, FiltersKeep DEF ToggleTag
<1>8. ASSUME NEW r \in {0, 3}, SetMinRating(r) PROVE ShelfInv'
  BY <1>0, <1>8, ChangedFilter, FiltersKeep DEF SetMinRating
<1>9. CASE ResetFilters
  <2>1. PICK f : f = INITIAL_FILTERS
    OBVIOUS
  <2>2. IsFilter(f)
    BY <2>1 DEF INITIAL_FILTERS, IsFilter
  <2>. QED
    BY <1>9, <2>1, <2>2, FiltersKeep DEF ResetFilters
<1>10. CASE UNCHANGED shelfVars
  <2>1. ShelfTypes'
    BY <1>0, <1>10 DEF shelfVars, scrapeVars, ShelfTypes, IsStats, IsFilter
  <2>. QED
    BY <1>10, <2>1 DEF shelfVars, scrapeVars, ShelfInv, Past, Accounted, hasRequiredFields
<1>. QED
  BY <1>1, <1>2, <1>3, <1>4, <1>5, <1>6, <1>7, <1>8, <1>9, <1>10 DEF ShelfNext

\* At the end every book is in the file or in the errors, and filters can be
\* undone.
LEMMA ShelfReports == ShelfInv => ReportIsComplete /\ HiddenBooksCanComeBack
<1>. SUFFICES ASSUME ShelfInv PROVE ReportIsComplete /\ HiddenBooksCanComeBack
  OBVIOUS
<1>1. ReportIsComplete
  BY DEF ShelfInv, Past, Accounted, ReportIsComplete
<1>2. HiddenBooksCanComeBack
  <2>. SUFFICES ASSUME ~hasActiveFilters PROVE filteredBooks = books
    BY DEF HiddenBooksCanComeBack
  <2>1. bookFilters.minRating \in Nat
    BY DEF ShelfInv, ShelfTypes, IsFilter
  <2>2. /\ bookFilters.query = {} /\ bookFilters.genres = {} /\ bookFilters.tags = {}
        /\ bookFilters.minRating = 0
    BY <2>1 DEF hasActiveFilters
  <2>3. \A b \in books : Matches(b)
    BY <2>2 DEF Matches, RatingOf
  <2>. QED
    BY <2>3 DEF filteredBooks
<1>. QED
  BY <1>1, <1>2


-----------------------------------------------------------------------------
(* The record list.                                                        *)

ListOf(s) == s \in Seq(ToSet(s))
IsListReq(r) == \E stage, offset, filter, batch : \E reset \in BOOLEAN :
    r = [stage |-> stage, reset |-> reset, offset |-> offset, filter |-> filter, batch |-> batch]
IsExclusion(x) == \E ids, gone, open : x = [ids |-> ids, gone |-> gone, open |-> open]

\* A request for a further page is only sent while there is more.
ListReqOK ==
    /\ IsListReq(listReq) /\ ListOf(listReq.batch)
    /\ listReq.stage # "none" /\ ~listReq.reset => more
\* Once an exclusion was taken, something is gone for good.
ExclusionOK ==
    /\ pickedRows \subseteq Records /\ IsExclusion(excluding) /\ excluding.ids \subseteq Records
    /\ excluding.gone # {} => Kept # Records
\* Rows that follow each other in what a filter matches, from a place on.
Follow(s, f, place) == \A n \in 1..Len(s) : s[n] = Nth(f, place + n)
\* The request is for the page after the rows, or for the first one, and its
\* answer is that page while no record was deleted.
RequestFits ==
    /\ dbFilter \subseteq Records /\ listReq.filter \subseteq Records
    /\ listReq.stage # "answered" => listReq.batch = <<>>
    /\ listReq.stage # "none" =>
         listReq.offset = IF listReq.reset THEN 0 ELSE pages * PAGE_SIZE
    /\ listReq.stage = "answered" /\ Kept = Records =>
         Follow(listReq.batch, listReq.filter, listReq.offset)
RowsCounted ==
    Kept = Records =>
      /\ ListOf(dbRows)
      /\ more => /\ Len(dbRows) = pages * PAGE_SIZE
                 /\ \A f : listedFor \subseteq {f} => Follow(dbRows, f, 0)
DbInv ==
    /\ DOMAIN dbStored = Records /\ dbStored = [i \in DOMAIN dbStored |-> dbStored[i]]
    /\ pages \in Nat /\ ListReqOK /\ ExclusionOK /\ RequestFits /\ RowsCounted

\* An empty list is a list of records.
LEMMA EmptyList == ListOf(<<>>) /\ Len(<<>>) = 0
BY DEF ListOf

\* Two lists of records joined are one, as long as both.
LEMMA ListsJoined ==
  ASSUME NEW s, NEW t, ListOf(s), ListOf(t)
  PROVE  ListOf(s \o t) /\ Len(s \o t) = Len(s) + Len(t)
<1>1. PICK S : S = ToSet(s) \cup ToSet(t)
  OBVIOUS
<1>2. s \in Seq(S) /\ t \in Seq(S)
  <2>1. s \in Seq(ToSet(s)) /\ t \in Seq(ToSet(t))
    BY DEF ListOf
  <2>2. (\A i \in 1..Len(s) : s[i] \in S) /\ (\A i \in 1..Len(t) : t[i] \in S)
    BY <1>1, <2>1
  <2>. QED
    BY <2>1, <2>2
<1>3. PICK u : u = s \o t
  OBVIOUS
<1>4. u \in Seq(S) /\ Len(u) = Len(s) + Len(t)
  BY <1>2, <1>3, ConcatProperties
<1>5. \A i \in 1..Len(u) : u[i] \in ToSet(u)
  BY <1>4 DEF ToSet
<1>6. u \in Seq(ToSet(u))
  BY <1>4, <1>5
<1>. QED
  BY <1>3, <1>4, <1>6 DEF ListOf

\* A page of the records is a list of records.
LEMMA BatchIsList ==
  ASSUME NEW all, NEW offset, all \subseteq Records
  PROVE  ListOf(Batch(all, offset))
<1>1. PICK page1 : page1 = {i \in all : Place(i, all) \in offset + 1..offset + PAGE_SIZE}
  OBVIOUS
<1>2. IsFiniteSet(page1)
  BY <1>1, DbAssumption, FS_Subset
<1>3. PICK n \in Nat : n = Cardinality(page1)
  BY <1>2, FS_CardinalityType
<1>4. PICK f : f = Batch(all, offset)
  OBVIOUS
<1>. DEFINE row(k) == Nth(all, offset + k)
<1>5. f = [k \in 1..n |-> row(k)]
  BY <1>1, <1>3, <1>4 DEF Batch
<1>. HIDE DEF row
<1>6. PICK g : g = [k \in 1..n |-> f[k]]
  OBVIOUS
<1>7. f = g /\ DOMAIN f = 1..n
  <2>1. DOMAIN f = 1..n
    BY <1>5
  <2>2. f = [k \in DOMAIN f |-> f[k]]
    BY <1>5
  <2>. QED
    BY <1>6, <2>1, <2>2
<1>8. \A k \in 1..n : f[k] \in ToSet(f)
  BY <1>7 DEF ToSet
<1>9. g \in Seq(ToSet(f))
  BY <1>6, <1>8
<1>. QED
  BY <1>4, <1>7, <1>9 DEF ListOf

\* A page follows the ones before it.
LEMMA BatchFollows ==
  ASSUME NEW all, NEW offset, all \subseteq Records
  PROVE  Follow(Batch(all, offset), all, offset)
<1>1. PICK m : m = Cardinality({i \in all : Place(i, all) \in offset + 1..offset + PAGE_SIZE})
  OBVIOUS
<1>. DEFINE row(k) == Nth(all, offset + k)
<1>2. PICK b : b = Batch(all, offset)
  OBVIOUS
<1>3. b = [k \in 1..m |-> row(k)]
  BY <1>1, <1>2 DEF Batch
<1>. HIDE DEF row
<1>4. \A n \in 1..Len(b) : b[n] = row(n)
  <2>1. ListOf(b)
    BY <1>2, BatchIsList
  <2>2. DOMAIN b = 1..Len(b)
    BY <2>1 DEF ListOf
  <2>3. \A n \in DOMAIN b : b[n] = row(n)
    BY <1>3
  <2>. QED
    BY <2>2, <2>3
<1>. QED
  BY <1>2, <1>4 DEF row, Follow

\* A page joined to the ones before it follows on.
LEMMA FollowsOn ==
  ASSUME NEW s, NEW t, NEW f, ListOf(s), ListOf(t), Follow(s, f, 0), Follow(t, f, Len(s))
  PROVE  Follow(s \o t, f, 0)
<1>1. PICK S : S = ToSet(s) \cup ToSet(t)
  OBVIOUS
<1>2. s \in Seq(S) /\ t \in Seq(S)
  <2>1. s \in Seq(ToSet(s)) /\ t \in Seq(ToSet(t))
    BY DEF ListOf
  <2>. QED
    BY <1>1, <2>1
<1>3. PICK u : u = s \o t
  OBVIOUS
<1>4. /\ Len(u) = Len(s) + Len(t)
      /\ \A i \in 1..Len(u) : u[i] = IF i <= Len(s) THEN s[i] ELSE t[i - Len(s)]
  BY <1>2, <1>3, ConcatProperties
<1>5. Len(s) \in Nat /\ Len(t) \in Nat
  BY <1>2
<1>6. ASSUME NEW n \in 1..Len(u) PROVE u[n] = Nth(f, 0 + n)
  <2>1. CASE n <= Len(s)
    <3>1. n \in 1..Len(s) /\ u[n] = s[n]
      BY <1>4, <1>5, <2>1
    <3>. QED
      BY <3>1 DEF Follow
  <2>2. CASE ~(n <= Len(s))
    <3>1. PICK k : k = n - Len(s)
      OBVIOUS
    <3>2. k \in 1..Len(t) /\ u[n] = t[k] /\ Len(s) + k = 0 + n
      BY <1>4, <1>5, <2>2, <3>1
    <3>. QED
      BY <3>2 DEF Follow
  <2>. QED
    BY <2>1, <2>2
<1>. QED
  BY <1>3, <1>6 DEF Follow

\* The page opens with no record, and the first page asked for.
LEMMA DbStarts == DbInit => DbInv
<1>. SUFFICES ASSUME DbInit PROVE DbInv
  OBVIOUS
<1>1. PICK r : r = listReq
  OBVIOUS
<1>2. r = [stage |-> "sent", reset |-> TRUE, offset |-> 0, filter |-> Records, batch |-> <<>>]
  BY <1>1 DEF DbInit, NoList
<1>3. IsListReq(r) /\ r.reset /\ ListOf(r.batch)
  BY <1>2, EmptyList DEF IsListReq
<1>4. ListReqOK
  BY <1>1, <1>3 DEF ListReqOK
<1>5. ExclusionOK
  BY DEF DbInit, NoExclusion, ExclusionOK, IsExclusion
<1>6. RowsCounted
  BY EmptyList DEF DbInit, RowsCounted
<1>7. RequestFits
  <2>1. dbFilter = Records
    BY DEF DbInit
  <2>. QED
    BY <1>1, <1>2, <2>1 DEF RequestFits
<1>. QED
  BY <1>4, <1>5, <1>6, <1>7 DEF DbInit, DbInv

\* What is gone stays gone.
LEMMA KeptShrinks ==
  ASSUME DbInv, [DbNext]_dbVars
  PROVE  /\ Kept' \subseteq Kept
         /\ DOMAIN dbStored' = Records /\ dbStored' = [i \in DOMAIN dbStored' |-> dbStored'[i]]
<1>0. DOMAIN dbStored = Records /\ dbStored = [i \in DOMAIN dbStored |-> dbStored[i]]
  BY DEF DbInv
<1>1. SaveTaken \/ DropTaken \/ ExclusionTaken \/ UNCHANGED dbStored
  BY DEF DbNext, dbVars, SetFilter, TypeDbPath, Apply, ScrollDb, ListServed, ListRefused, ListLands,
         ListFails, OpenRow, TogglePick, RecordServed, RecordArrives, EditField, Save, SaveAnswered,
         DeleteEverywhere, DropAnswered, PickAllLoaded, ExcludeSelected, ExclusionAnswered
<1>2. CASE SaveTaken
  BY <1>0, <1>2 DEF SaveTaken, Kept
<1>3. CASE DropTaken
  BY <1>0, <1>3 DEF DropTaken, Kept
<1>4. CASE ExclusionTaken
  BY <1>0, <1>4 DEF ExclusionTaken, Kept
<1>5. CASE UNCHANGED dbStored
  BY <1>0, <1>5 DEF Kept
<1>. QED
  BY <1>1, <1>2, <1>3, <1>4, <1>5

\* A request for more is sent only while there is more.
LEMMA ListFetched ==
  ASSUME NEW f, NEW reset \in BOOLEAN, Fetch(reset, f), reset \/ more, UNCHANGED more
  PROVE  ListReqOK'
<1>1. PICK r : r = listReq'
  OBVIOUS
<1>2. PICK o : o = IF reset THEN 0 ELSE pages * PAGE_SIZE
  OBVIOUS
<1>3. r = [stage |-> "sent", reset |-> reset, offset |-> o, filter |-> f, batch |-> <<>>]
  BY <1>1, <1>2 DEF Fetch
<1>4. IsListReq(r) /\ ListOf(r.batch) /\ r.reset = reset
  BY <1>3, EmptyList DEF IsListReq
<1>. QED
  BY <1>1, <1>4 DEF ListReqOK

\* No request at all is a request with nothing read.
LEMMA NoListOK == IsListReq(NoList) /\ ListOf(NoList.batch) /\ NoList.stage = "none"
BY EmptyList DEF NoList, IsListReq

\* Every step of the page asks for more only while there is more.
LEMMA ListReqMoves == DbInv /\ [DbNext]_dbVars => ListReqOK'
<1>. SUFFICES ASSUME DbInv, [DbNext]_dbVars PROVE ListReqOK'
  OBVIOUS
<1>0. ListReqOK
  BY DEF DbInv
<1>1. \/ \E f : \E reset \in BOOLEAN : Fetch(reset, f) /\ (reset \/ more) /\ UNCHANGED more
      \/ ListServed \/ ListRefused
      \/ listReq' = NoList
      \/ UNCHANGED <<listReq, more>>
  <2>1. CASE ScrollDb
    BY <2>1 DEF ScrollDb
  <2>2. CASE Apply \/ \E f \in DbFilters : SetFilter(f)
    BY <2>2 DEF Apply, SetFilter
  <2>3. CASE SaveAnswered \/ DropAnswered
    BY <2>3 DEF SaveAnswered, DropAnswered, listVars
  <2>4. CASE ListServed \/ ListRefused
    BY <2>4
  <2>5. CASE ListLands \/ ListFails
    BY <2>5 DEF ListLands, ListFails
  <2>6. CASE \/ \E f \in DbFilters : TypeDbPath(f)
             \/ \E i \in Records : OpenRow(i) \/ TogglePick(i)
             \/ \E r \in recordReqs : RecordServed(r) \/ RecordArrives(r)
             \/ EditField \/ Save \/ SaveTaken \/ DeleteEverywhere \/ DropTaken
             \/ PickAllLoaded \/ ExcludeSelected \/ ExclusionTaken \/ ExclusionAnswered
             \/ UNCHANGED dbVars
    BY <2>6 DEF dbVars, listVars, TypeDbPath, OpenRow, TogglePick, RecordServed, RecordArrives,
                EditField, Save, SaveTaken, DeleteEverywhere, DropTaken, PickAllLoaded,
                ExcludeSelected, ExclusionTaken, ExclusionAnswered
  <2>. QED
    BY <2>1, <2>2, <2>3, <2>4, <2>5, <2>6 DEF DbNext
<1>2. ASSUME NEW f, NEW reset \in BOOLEAN, Fetch(reset, f), reset \/ more, UNCHANGED more
      PROVE  ListReqOK'
  BY <1>2, ListFetched
<1>3. PICK stage, offset, filter, batch, reset :
        /\ reset \in BOOLEAN
        /\ listReq = [stage |-> stage, reset |-> reset, offset |-> offset, filter |-> filter, batch |-> batch]
  BY <1>0 DEF ListReqOK, IsListReq
<1>4. CASE ListServed
  <2>1. PICK b : b = Batch(listReq.filter \intersect Kept, listReq.offset)
    OBVIOUS
  <2>2. ListOf(b)
    BY <2>1, BatchIsList DEF Kept
  <2>3. PICK r : r = [listReq EXCEPT !.stage = "answered", !.batch = b]
    OBVIOUS
  <2>4. r = [stage |-> "answered", reset |-> reset, offset |-> offset, filter |-> filter, batch |-> b]
    BY <1>3, <2>3
  <2>5. IsListReq(r) /\ ListOf(r.batch) /\ r.reset = listReq.reset
    BY <1>3, <2>2, <2>4 DEF IsListReq
  <2>6. listReq' = r /\ listReq.stage = "sent" /\ UNCHANGED more
    BY <1>4, <2>1, <2>3 DEF ListServed
  <2>. QED
    BY <1>0, <2>5, <2>6 DEF ListReqOK
<1>5. CASE ListRefused
  <2>1. PICK r : r = [listReq EXCEPT !.stage = "answered"]
    OBVIOUS
  <2>2. r = [stage |-> "answered", reset |-> reset, offset |-> offset, filter |-> filter, batch |-> batch]
    BY <1>3, <2>1
  <2>3. IsListReq(r) /\ ListOf(r.batch) /\ r.reset = listReq.reset
    BY <1>0, <1>3, <2>2 DEF IsListReq, ListReqOK
  <2>4. listReq' = r /\ listReq.stage = "sent" /\ UNCHANGED more
    BY <1>5, <2>1 DEF ListRefused
  <2>. QED
    BY <1>0, <2>3, <2>4 DEF ListReqOK
<1>6. CASE listReq' = NoList
  BY <1>6, NoListOK DEF ListReqOK
<1>7. CASE UNCHANGED <<listReq, more>>
  BY <1>0, <1>7 DEF ListReqOK, IsListReq
<1>. QED
  BY <1>1, <1>2, <1>4, <1>5, <1>6, <1>7

\* An exclusion takes records that were picked, and they are gone for good.
LEMMA ExclusionMoves == DbInv /\ [DbNext]_dbVars => ExclusionOK'
<1>. SUFFICES ASSUME DbInv, [DbNext]_dbVars PROVE ExclusionOK'
  OBVIOUS
<1>0. ExclusionOK /\ Kept' \subseteq Kept /\ Kept \subseteq Records
  BY KeptShrinks DEF DbInv, Kept
<1>1. \/ \E i \in Records : TogglePick(i)
      \/ PickAllLoaded \/ ExcludeSelected \/ ExclusionTaken \/ ExclusionAnswered
      \/ UNCHANGED pickVars
  BY DEF DbNext, dbVars, SetFilter, TypeDbPath, Apply, ScrollDb, ListServed, ListRefused, ListLands,
         ListFails, OpenRow, RecordServed, RecordArrives, EditField, Save, SaveTaken, SaveAnswered,
         DeleteEverywhere, DropTaken, DropAnswered
<1>2. CASE (\E i \in Records : TogglePick(i)) \/ PickAllLoaded
  <2>1. pickedRows' \subseteq Records /\ UNCHANGED excluding
    BY <1>0, <1>2 DEF TogglePick, PickAllLoaded, ExclusionOK
  <2>. QED
    BY <1>0, <2>1 DEF ExclusionOK, IsExclusion
<1>3. CASE ExcludeSelected
  <2>1. PICK x : x = [ids |-> pickedRows, gone |-> {}, open |-> selectedRow]
    OBVIOUS
  <2>2. excluding' = x /\ UNCHANGED pickedRows
    BY <1>3, <2>1 DEF ExcludeSelected
  <2>3. IsExclusion(x) /\ x.ids \subseteq Records /\ x.gone = {}
    BY <1>0, <2>1 DEF IsExclusion, ExclusionOK
  <2>. QED
    BY <1>0, <2>2, <2>3 DEF ExclusionOK
<1>4. CASE ExclusionTaken
  <2>1. PICK some \in SUBSET excluding.ids :
          /\ some # {}
          /\ excluding' = [excluding EXCEPT !.gone = some]
          /\ dbStored' = [i \in Records |-> IF i \in some THEN Gone ELSE dbStored[i]]
          /\ UNCHANGED pickedRows
    <3>1. PICK some \in (SUBSET excluding.ids) \ {{}} :
            /\ excluding' = [excluding EXCEPT !.gone = some]
            /\ dbStored' = [i \in Records |-> IF i \in some THEN Gone ELSE dbStored[i]]
      BY <1>4 DEF ExclusionTaken
    <3>2. some \in SUBSET excluding.ids /\ some # {}
      OBVIOUS
    <3>3. UNCHANGED pickedRows
      BY <1>4 DEF ExclusionTaken
    <3>. QED
      BY <3>1, <3>2, <3>3
  <2>2. PICK ids, gone, open : excluding = [ids |-> ids, gone |-> gone, open |-> open]
    BY <1>0 DEF ExclusionOK, IsExclusion
  <2>3. PICK x : x = [excluding EXCEPT !.gone = some]
    OBVIOUS
  <2>4. x = [ids |-> ids, gone |-> some, open |-> open]
    BY <2>2, <2>3
  <2>5. IsExclusion(x) /\ x.ids = excluding.ids
    BY <2>2, <2>4 DEF IsExclusion
  <2>6. PICK i \in Records : i \in some
    BY <1>0, <2>1 DEF ExclusionOK
  <2>7. i \notin Kept'
    BY <2>1, <2>6 DEF Kept
  <2>. QED
    BY <1>0, <2>1, <2>3, <2>5, <2>6, <2>7 DEF ExclusionOK
<1>5. CASE ExclusionAnswered
  <2>1. pickedRows' \subseteq Records /\ excluding' = NoExclusion
    BY <1>0, <1>5 DEF ExclusionAnswered, ExclusionOK
  <2>. QED
    BY <2>1 DEF ExclusionOK, NoExclusion, IsExclusion
<1>6. CASE UNCHANGED pickVars
  <2>1. UNCHANGED <<pickedRows, excluding>>
    BY <1>6 DEF pickVars
  <2>. QED
    BY <1>0, <2>1 DEF ExclusionOK, IsExclusion
<1>. QED
  BY <1>1, <1>2, <1>3, <1>4, <1>5, <1>6

\* One page more is one page size more.
LEMMA OnePageMore ==
  ASSUME NEW n \in Nat, NEW size \in Nat
  PROVE  (n + 1) * size = n * size + size /\ 1 * size = size /\ n * size \in Nat
OBVIOUS

\* Every step of the page asks for the page that follows, and reads it.
LEMMA RequestMoves == DbInv /\ [DbNext]_dbVars => RequestFits'
<1>. SUFFICES ASSUME DbInv, [DbNext]_dbVars PROVE RequestFits'
  OBVIOUS
<1>0. RequestFits /\ ListReqOK /\ Kept' \subseteq Kept /\ Kept \subseteq Records
  BY KeptShrinks DEF DbInv, Kept
<1>1. \/ \E f \in SUBSET Records : \E reset \in BOOLEAN :
           Fetch(reset, f) /\ UNCHANGED pages /\ dbFilter' \in {f, dbFilter}
      \/ ListServed \/ ListRefused
      \/ listReq' = NoList /\ UNCHANGED dbFilter
      \/ UNCHANGED <<listReq, pages>> /\ dbFilter' \in {dbFilter} \cup DbFilters
  <2>1. CASE ScrollDb
    BY <1>0, <2>1 DEF ScrollDb, RequestFits
  <2>2. CASE Apply
    BY <1>0, <2>2 DEF Apply, RequestFits
  <2>3. CASE \E f \in DbFilters : SetFilter(f)
    BY <2>3, DbAssumption DEF SetFilter
  <2>4. CASE SaveAnswered \/ DropAnswered
    BY <1>0, <2>4 DEF SaveAnswered, DropAnswered, listVars, RequestFits
  <2>5. CASE ListServed \/ ListRefused
    BY <2>5
  <2>6. CASE ListLands \/ ListFails
    BY <2>6 DEF ListLands, ListFails
  <2>7. CASE \/ \E f \in DbFilters : TypeDbPath(f)
             \/ \E i \in Records : OpenRow(i) \/ TogglePick(i)
             \/ \E r \in recordReqs : RecordServed(r) \/ RecordArrives(r)
             \/ EditField \/ Save \/ SaveTaken \/ DeleteEverywhere \/ DropTaken
             \/ PickAllLoaded \/ ExcludeSelected \/ ExclusionTaken \/ ExclusionAnswered
             \/ UNCHANGED dbVars
    BY <2>7 DEF dbVars, listVars, TypeDbPath, OpenRow, TogglePick, RecordServed, RecordArrives,
                EditField, Save, SaveTaken, DeleteEverywhere, DropTaken, PickAllLoaded,
                ExcludeSelected, ExclusionTaken, ExclusionAnswered
  <2>. QED
    BY <2>1, <2>2, <2>3, <2>4, <2>5, <2>6, <2>7 DEF DbNext
<1>2. ASSUME NEW f \in SUBSET Records, NEW reset \in BOOLEAN, Fetch(reset, f), UNCHANGED pages,
             dbFilter' \in {f, dbFilter}
      PROVE  RequestFits'
  <2>1. PICK r, o : r = listReq' /\ o = IF reset THEN 0 ELSE pages * PAGE_SIZE
    OBVIOUS
  <2>2. r = [stage |-> "sent", reset |-> reset, offset |-> o, filter |-> f, batch |-> <<>>]
    BY <1>2, <2>1 DEF Fetch
  <2>. QED
    BY <1>0, <1>2, <2>1, <2>2 DEF RequestFits
<1>3. PICK stage, offset, filter, batch, reset :
        /\ reset \in BOOLEAN
        /\ listReq = [stage |-> stage, reset |-> reset, offset |-> offset, filter |-> filter, batch |-> batch]
  BY <1>0 DEF ListReqOK, IsListReq
<1>4. CASE ListServed
  <2>1. PICK b, r : b = Batch(filter \intersect Kept, offset) /\ r = listReq'
    OBVIOUS
  <2>2. r = [stage |-> "answered", reset |-> reset, offset |-> offset, filter |-> filter, batch |-> b]
    BY <1>3, <1>4, <2>1 DEF ListServed
  <2>3. UNCHANGED <<dbFilter, pages, dbStored>> /\ stage = "sent"
    BY <1>3, <1>4 DEF ListServed
  <2>4. Kept = Records => Follow(b, filter, offset)
    <3>1. ASSUME Kept = Records PROVE filter \intersect Kept = filter
      BY <1>0, <1>3, <3>1 DEF RequestFits
    <3>2. filter \subseteq Records
      BY <1>0, <1>3 DEF RequestFits
    <3>. QED
      BY <2>1, <3>1, <3>2, BatchFollows
  <2>. QED
    BY <1>0, <1>3, <2>1, <2>2, <2>3, <2>4 DEF RequestFits, Kept
<1>5. CASE ListRefused
  <2>1. PICK r : r = listReq'
    OBVIOUS
  <2>2. r = [stage |-> "answered", reset |-> reset, offset |-> offset, filter |-> filter, batch |-> batch]
    BY <1>3, <1>5, <2>1 DEF ListRefused
  <2>3. UNCHANGED <<dbFilter, pages>> /\ stage = "sent"
    BY <1>3, <1>5 DEF ListRefused
  <2>4. Follow(batch, filter, offset)
    <3>1. batch = <<>>
      BY <1>0, <1>3, <2>3 DEF RequestFits
    <3>. QED
      BY <3>1, EmptyList DEF Follow
  <2>. QED
    BY <1>0, <1>3, <2>1, <2>2, <2>3, <2>4 DEF RequestFits
<1>6. CASE listReq' = NoList /\ UNCHANGED dbFilter
  BY <1>0, <1>6 DEF RequestFits, NoList
<1>7. CASE UNCHANGED <<listReq, pages>> /\ dbFilter' \in {dbFilter} \cup DbFilters
  BY <1>0, <1>7, DbAssumption DEF RequestFits, Follow
<1>. QED
  BY <1>1, <1>2, <1>4, <1>5, <1>6, <1>7

\* Every step of the page keeps the rows those of the pages read.
LEMMA RowsMove == DbInv /\ [DbNext]_dbVars => RowsCounted' /\ pages' \in Nat
<1>. SUFFICES ASSUME DbInv, [DbNext]_dbVars PROVE RowsCounted' /\ pages' \in Nat
  OBVIOUS
<1>0. /\ RowsCounted /\ ListReqOK /\ ExclusionOK /\ RequestFits
      /\ Kept' \subseteq Kept /\ Kept \subseteq Records /\ pages \in Nat
  BY KeptShrinks DEF DbInv, Kept
<1>1. ListLands \/ ExclusionAnswered \/ UNCHANGED <<dbRows, listedFor, pages, more>>
  BY DEF DbNext, dbVars, listVars, SetFilter, TypeDbPath, Apply, ScrollDb, ListServed, ListRefused,
         ListFails, OpenRow, TogglePick, RecordServed, RecordArrives, EditField, Save, SaveTaken,
         SaveAnswered, DeleteEverywhere, DropTaken, DropAnswered, PickAllLoaded, ExcludeSelected,
         ExclusionTaken
<1>2. CASE ListLands
  <2>1. /\ listReq.stage = "answered" /\ more' = (Len(listReq.batch) = PAGE_SIZE)
        /\ pages' = (IF listReq.reset THEN 1 ELSE pages + 1)
        /\ dbRows' = IF listReq.reset THEN listReq.batch ELSE dbRows \o listReq.batch
        /\ listedFor' = (IF listReq.reset THEN {} ELSE listedFor) \union {listReq.filter}
        /\ UNCHANGED dbStored
    BY <1>2 DEF ListLands, PageAfter
  <2>2. ListOf(listReq.batch) /\ PAGE_SIZE \in Nat
    BY <1>0, DbAssumption DEF ListReqOK
  <2>5. PICK b, g, o : b = listReq.batch /\ g = listReq.filter /\ o = listReq.offset
    OBVIOUS
  <2>6. Kept' = Records => Follow(b, g, o)
    BY <1>0, <2>1, <2>5 DEF RequestFits, Kept
  <2>7. o = IF listReq.reset THEN 0 ELSE pages * PAGE_SIZE
    BY <1>0, <2>1, <2>5 DEF RequestFits
  <2>3. CASE listReq.reset
    <3>1. pages' = 1 /\ dbRows' = b /\ listedFor' = {g} /\ ListOf(b) /\ o = 0
          /\ (more' => Len(b) = PAGE_SIZE)
      BY <2>1, <2>2, <2>3, <2>5, <2>7
    <3>2. \A f : listedFor' \subseteq {f} => f = g
      BY <3>1
    <3>3. pages' * PAGE_SIZE = PAGE_SIZE /\ pages' \in Nat
      BY <2>2, <3>1, OnePageMore
    <3>. QED
      BY <2>6, <3>1, <3>2, <3>3 DEF RowsCounted
  <2>4. CASE ~listReq.reset
    <3>1. pages' = pages + 1 /\ pages' \in Nat
      BY <1>0, <2>1, <2>4
    <3>2. ASSUME Kept' = Records
          PROVE  /\ ListOf(dbRows')
                 /\ more' => /\ Len(dbRows') = pages' * PAGE_SIZE
                             /\ \A f : listedFor' \subseteq {f} => Follow(dbRows', f, 0)
      <4>1. more /\ ListOf(dbRows) /\ Len(dbRows) = pages * PAGE_SIZE
        BY <1>0, <2>1, <2>4, <3>2 DEF ListReqOK, RowsCounted
      <4>2. ListOf(dbRows') /\ Len(dbRows') = Len(dbRows) + Len(listReq.batch)
        BY <2>1, <2>2, <2>4, <4>1, ListsJoined
      <4>3. (pages + 1) * PAGE_SIZE = pages * PAGE_SIZE + PAGE_SIZE
        BY <1>0, <2>2, OnePageMore
      <4>4. more' => Len(dbRows') = pages' * PAGE_SIZE
        BY <2>1, <3>1, <4>1, <4>2, <4>3
      <4>5. ASSUME more', NEW f, listedFor' \subseteq {f} PROVE Follow(dbRows', f, 0)
        <5>1. f = g /\ listedFor \subseteq {f}
          BY <2>1, <2>4, <2>5, <4>5
        <5>2. Follow(dbRows, f, 0)
          BY <1>0, <2>1, <3>2, <4>1, <5>1 DEF RowsCounted
        <5>3. Follow(b, f, Len(dbRows))
          BY <2>4, <2>6, <2>7, <3>2, <4>1, <5>1
        <5>4. dbRows' = dbRows \o b /\ ListOf(b)
          BY <2>1, <2>2, <2>4, <2>5
        <5>. QED
          BY <4>1, <5>2, <5>3, <5>4, FollowsOn
      <4>. QED
        BY <4>2, <4>4, <4>5
    <3>. QED
      BY <3>1, <3>2 DEF RowsCounted
  <2>. QED
    BY <2>3, <2>4
<1>3. CASE ExclusionAnswered
  <2>1. excluding.gone # {} /\ UNCHANGED pages
    BY <1>3 DEF ExclusionAnswered
  <2>2. Kept' # Records
    BY <1>0, <2>1 DEF ExclusionOK
  <2>. QED
    BY <1>0, <2>1, <2>2 DEF RowsCounted
<1>4. CASE UNCHANGED <<dbRows, listedFor, pages, more>>
  BY <1>0, <1>4 DEF RowsCounted, ListOf, Follow
<1>. QED
  BY <1>1, <1>2, <1>3, <1>4

\* Every step of the page keeps its invariant.
LEMMA DbMoves == DbInv /\ [DbNext]_dbVars => DbInv'
BY KeptShrinks, ListReqMoves, ExclusionMoves, RequestMoves, RowsMove DEF DbInv

\* What is shown are the pages read, each of them once.
LEMMA PagesAreCounted == DbInv => EveryPageOnce
<1>. SUFFICES ASSUME RowsCounted PROVE EveryPageOnce
  BY DEF DbInv
<1>. SUFFICES ASSUME NEW f \in SUBSET Records, more, Kept = Records, listedFor = {f}
              PROVE  Len(dbRows) = pages * PAGE_SIZE /\ \A n \in 1..Len(dbRows) : dbRows[n] = Nth(f, n)
  BY DEF EveryPageOnce
<1>1. ListOf(dbRows) /\ Len(dbRows) = pages * PAGE_SIZE /\ Follow(dbRows, f, 0)
  BY DEF RowsCounted
<1>2. \A n \in 1..Len(dbRows) : 0 + n = n
  BY <1>1 DEF ListOf
<1>. QED
  BY <1>1, <1>2 DEF Follow


-----------------------------------------------------------------------------
(* The ingestion layer.                                                    *)

JobStatuses == {"none", "running", "completed", "failed", "cancelled"}
\* The work of an actor; what it holds of files and images is in V.
WorkOf(V) ==
    [at : V, kind : V, req : SUBSET IngestOptions, listed : SUBSET V, todo : SUBSET V,
     file : V, sha : V, image : V, thumb : BOOLEAN, path : V, vector : V,
     total : Nat, processed : Nat, failed : Nat]

\* Where a job is between two of its files, with a file, or at its end.
Projecting == {"ensure", "create", "mark", "embed", "point", "graph", "enrich"}
WithFile == {"hash", "lookup", "extract", "thumbnail", "persist", "record"} \cup Projecting
Walking == {"next", "progress", "finish", "recordFailed"} \cup WithFile
Ended == {"done", "fail", "dead"}

Tried(w) == w.listed \ w.todo
FailedOf(files) == {r \in files : r.status = "failed"}
OnFile(w) == w.at \in WithFile \cup {"recordFailed"}

\* A job that walks its list has counted the files it has tried, and each of
\* them but the one it is on has its row.
WalkOK(w, files) ==
    /\ w.listed \subseteq FolderFiles /\ w.todo \subseteq w.listed
    /\ w.at = "finish" => w.todo = {}
    /\ OnFile(w) => w.file \in Tried(w)
    /\ \A f \in Tried(w) : (OnFile(w) /\ f = w.file) \/ \E r \in files : r.file = f
    /\ \A r \in FailedOf(files) : r.file \in Tried(w) /\ (OnFile(w) => r.file # w.file)
    /\ IsFiniteSet(FailedOf(files))
    /\ w.total = Cardinality(Tried(w))
    /\ w.failed = Cardinality(FailedOf(files)) + (IF w.at = "recordFailed" THEN 1 ELSE 0)
    /\ w.processed + w.failed + (IF w.at \in WithFile THEN 1 ELSE 0) >= w.total

\* What the row of a completed job says.
SettledAs(w, files, row) ==
    /\ \A f \in w.listed : \E r \in files : r.file = f
    /\ row.total = Cardinality(w.listed)
    /\ row.failed = Cardinality(FailedOf(files))
    /\ row.processed + row.failed >= row.total

\* The image of a file is known once it is stored; S is what is stored.
ImageOK(w, S) ==
    /\ w.at \in {"hash", "lookup"} => w.image = NoImage
    /\ w.at \in {"thumbnail", "persist"} => w.sha \in Contents
    /\ w.at \in Projecting => w.image \in S
    /\ w.at = "record" => w.image \in S \/ (w.image = NoImage /\ w.sha \in S)

JobOK(w, files, row, S) ==
    /\ w.at \in {"none", "stat", "open"} =>
         files = {} /\ w.listed = {} /\ w.todo = {} /\ w.total = 0 /\ w.processed = 0 /\ w.failed = 0
    /\ w.at \notin {"none", "dead"} => w.kind = "ingest"
    /\ w.at \in Walking => WalkOK(w, files)
    /\ ImageOK(w, S)
    /\ \A r \in files : r.status # "failed" => r.image \in S
    /\ row.status = "completed" => w.at \in Ended /\ SettledAs(w, files, row)

\* A job is as right when more images are stored.
LEMMA JobStays ==
  ASSUME NEW w, NEW files, NEW row, NEW S, NEW T, S \subseteq T, JobOK(w, files, row, S)
  PROVE  JobOK(w, files, row, T)
<1>1. ImageOK(w, T)
  BY DEF JobOK, ImageOK
<1>. QED
  BY <1>1 DEF JobOK

\* On with the same file.
LEMMA JobGoesOn ==
  ASSUME NEW w, NEW u, NEW files, NEW row, NEW S, NEW T, S \subseteq T, JobOK(w, files, row, S),
         w.at \in WithFile, u.at \in WithFile, u.kind = w.kind,
         u.listed = w.listed, u.todo = w.todo, u.file = w.file,
         u.total = w.total, u.processed = w.processed, u.failed = w.failed, ImageOK(u, T)
  PROVE  JobOK(u, files, row, T)
<1>1. w.at \in Walking /\ u.at \in Walking
  BY DEF Walking
<1>2. /\ w.at \notin {"finish", "recordFailed", "none", "stat", "open", "dead", "fail", "done"}
      /\ u.at \notin {"finish", "recordFailed", "none", "stat", "open", "dead", "fail", "done"}
  BY DEF WithFile, Projecting
<1>3. WalkOK(w, files)
  BY <1>1 DEF JobOK
<1>4. OnFile(w) /\ OnFile(u) /\ Tried(u) = Tried(w)
  BY DEF OnFile, Tried
<1>5. WalkOK(u, files)
  BY <1>2, <1>3, <1>4 DEF WalkOK
<1>6. row.status # "completed"
  BY <1>2 DEF JobOK, Ended
<1>7. \A r \in files : r.status # "failed" => r.image \in T
  BY DEF JobOK
<1>8. u.kind = "ingest"
  BY <1>2 DEF JobOK
<1>. QED
  BY <1>1, <1>2, <1>5, <1>6, <1>7, <1>8 DEF JobOK

\* What a job counted as failed are the files it recorded as failed.
LEMMA FailedCount ==
  ASSUME NEW V, NEW w \in WorkOf(V), NEW files, WalkOK(w, files)
  PROVE  /\ Cardinality(FailedOf(files)) \in Nat /\ Cardinality(Tried(w)) \in Nat
         /\ w.processed \in Nat /\ w.failed \in Nat /\ w.total \in Nat
         /\ w.at # "recordFailed" => w.failed = Cardinality(FailedOf(files))
         /\ w.at \in WithFile => w.processed + w.failed + 1 >= w.total
         /\ w.at \notin WithFile => w.processed + w.failed >= w.total
<1>1. IsFiniteSet(Tried(w))
  BY IngestAssumption, FS_Subset DEF WalkOK, Tried
<1>2. Cardinality(Tried(w)) \in Nat
  BY <1>1, FS_CardinalityType
<1>3. Cardinality(FailedOf(files)) \in Nat
  BY FS_CardinalityType DEF WalkOK
<1>4. w.processed \in Nat /\ w.failed \in Nat /\ w.total \in Nat
  BY DEF WorkOf
<1>. QED
  BY <1>2, <1>3, <1>4 DEF WalkOK

\* The catch of one file.
LEMMA JobFileFails ==
  ASSUME NEW V, NEW w \in WorkOf(V), NEW u, NEW files, NEW row, NEW S, JobOK(w, files, row, S),
         w.at \in WithFile, u.at = "recordFailed", u.kind = w.kind,
         u.listed = w.listed, u.todo = w.todo, u.file = w.file,
         u.total = w.total, u.processed = w.processed, u.failed = w.failed + 1
  PROVE  JobOK(u, files, row, S)
<1>1. w.at \in Walking /\ u.at \in Walking
  BY DEF Walking
<1>2. /\ w.at \notin {"finish", "recordFailed", "none", "stat", "open", "dead", "fail", "done"}
      /\ u.at \notin WithFile
  BY DEF WithFile, Projecting
<1>3. WalkOK(w, files)
  BY <1>1 DEF JobOK
<1>4. OnFile(w) /\ OnFile(u) /\ Tried(u) = Tried(w)
  BY DEF OnFile, Tried
<1>5. /\ u.failed = Cardinality(FailedOf(files)) + 1
      /\ u.processed + u.failed >= u.total
      /\ u.processed + u.failed + 0 = u.processed + u.failed
  BY <1>2, <1>3, FailedCount
<1>6. WalkOK(u, files)
  BY <1>2, <1>3, <1>4, <1>5 DEF WalkOK
<1>7. row.status # "completed"
  BY <1>2 DEF JobOK, Ended
<1>8. ImageOK(u, S)
  BY DEF ImageOK, Projecting
<1>. QED
  BY <1>1, <1>2, <1>6, <1>7, <1>8 DEF JobOK

\* A job that ends, dies or was never begun has nothing to account for.
LEMMA JobIsOver ==
  ASSUME NEW w, NEW u, NEW files, NEW row, NEW S, JobOK(w, files, row, S),
         u.at \in Ended, u.at # "dead" => w.at \notin {"none", "dead"}, u.kind = w.kind,
         u.listed = w.listed
  PROVE  JobOK(u, files, row, S)
<1>1. u.at \notin Walking /\ u.at \notin {"none", "stat", "open"}
  BY DEF Walking, WithFile, Projecting, Ended
<1>2. ImageOK(u, S)
  BY DEF ImageOK, Projecting, Ended
<1>3. row.status = "completed" => SettledAs(u, files, row)
  BY DEF JobOK, SettledAs
<1>. QED
  BY <1>1, <1>2, <1>3 DEF JobOK, Ended

\* The next file of the list, or none is left.
LEMMA JobTakesFile ==
  ASSUME NEW V, NEW w \in WorkOf(V), NEW u, NEW files, NEW row, NEW S, JobOK(w, files, row, S),
         w.at = "next", NEW f \in w.todo, u.at = "hash", u.kind = w.kind,
         u.listed = w.listed, u.todo = w.todo \ {f}, u.file = f, u.image = NoImage,
         u.total = w.total + 1, u.processed = w.processed, u.failed = w.failed
  PROVE  JobOK(u, files, row, S)
<1>1. WalkOK(w, files)
  BY DEF JobOK, Walking
<1>2. /\ u.at \in WithFile /\ u.at \in Walking /\ OnFile(u) /\ ~OnFile(w) /\ w.at \notin WithFile
      /\ w.at \notin Ended
  BY DEF OnFile, Walking, WithFile, Projecting, Ended
<1>3. Tried(u) = Tried(w) \cup {f} /\ f \notin Tried(w)
  BY <1>1 DEF Tried, WalkOK
<1>4. IsFiniteSet(Tried(w))
  BY <1>1, IngestAssumption, FS_Subset DEF WalkOK, Tried
<1>5. Cardinality(Tried(u)) = Cardinality(Tried(w)) + 1
  BY <1>3, <1>4, FS_AddElement
<1>6. w.total = Cardinality(Tried(w)) /\ w.processed + w.failed >= w.total
  BY <1>1, <1>2, FailedCount DEF WalkOK
<1>7. /\ u.total = Cardinality(Tried(u)) /\ u.processed + u.failed + 1 >= u.total
      /\ u.failed = Cardinality(FailedOf(files)) + 0
  BY <1>1, <1>5, <1>6, FailedCount
<1>8. WalkOK(u, files)
  BY <1>1, <1>2, <1>3, <1>7 DEF WalkOK
<1>9. ImageOK(u, S)
  BY DEF ImageOK, Projecting
<1>. QED
  BY <1>2, <1>8, <1>9 DEF JobOK, Ended

\* A job with no file left to take has been through all of them.
LEMMA JobHasNoFileLeft ==
  ASSUME NEW w, NEW u, NEW files, NEW row, NEW S, JobOK(w, files, row, S),
         w.at = "next", w.todo = {}, u.at = "finish", u.kind = w.kind,
         u.listed = w.listed, u.todo = w.todo,
         u.total = w.total, u.processed = w.processed, u.failed = w.failed
  PROVE  JobOK(u, files, row, S)
<1>1. WalkOK(w, files)
  BY DEF JobOK, Walking
<1>2. /\ u.at \in Walking /\ ~OnFile(u) /\ ~OnFile(w) /\ w.at \notin WithFile /\ u.at \notin WithFile
      /\ w.at \notin Ended /\ Tried(u) = Tried(w)
  BY DEF OnFile, Walking, WithFile, Projecting, Ended, Tried
<1>3. WalkOK(u, files)
  BY <1>1, <1>2 DEF WalkOK
<1>4. ImageOK(u, S)
  BY DEF ImageOK, Projecting
<1>. QED
  BY <1>2, <1>3, <1>4 DEF JobOK, Ended

\* The row of a file that went well, and on to the next.
LEMMA JobRecords ==
  ASSUME NEW V, NEW w \in WorkOf(V), NEW u, NEW files, NEW row, NEW S, JobOK(w, files, row, S),
         w.at = "record", NEW r, r.file = w.file, r.status # "failed", r.image \in S,
         u.at \in {"next", "progress"}, u.kind = w.kind, u.listed = w.listed, u.todo = w.todo,
         u.total = w.total, u.processed = w.processed + 1, u.failed = w.failed
  PROVE  JobOK(u, files \cup {r}, row, S)
<1>1. WalkOK(w, files)
  BY DEF JobOK, Walking, WithFile
<1>2. /\ u.at \in Walking /\ ~OnFile(u) /\ OnFile(w) /\ w.at \in WithFile /\ u.at \notin WithFile
      /\ w.at \notin Ended /\ Tried(u) = Tried(w)
  BY DEF OnFile, Walking, WithFile, Projecting, Ended, Tried
<1>3. FailedOf(files \cup {r}) = FailedOf(files)
  BY DEF FailedOf
<1>4. /\ u.processed + u.failed + 0 >= u.total
      /\ u.failed = Cardinality(FailedOf(files)) + 0
  BY <1>1, <1>2, FailedCount
<1>5. \A f \in Tried(u) : \E q \in files \cup {r} : q.file = f
  BY <1>1, <1>2 DEF WalkOK
<1>6. WalkOK(u, files \cup {r})
  BY <1>1, <1>2, <1>3, <1>4, <1>5 DEF WalkOK
<1>7. ImageOK(u, S)
  BY DEF ImageOK, Projecting
<1>. QED
  BY <1>2, <1>6, <1>7 DEF JobOK, Ended

\* The row of a file that went well is refused, written or not.
LEMMA JobIsRefusedRow ==
  ASSUME NEW V, NEW w \in WorkOf(V), NEW u, NEW files, NEW row, NEW S, JobOK(w, files, row, S),
         w.at = "record", NEW more1, \A r \in more1 : r.status # "failed" /\ r.image \in S,
         u.at = "recordFailed", u.kind = w.kind, u.listed = w.listed, u.todo = w.todo, u.file = w.file,
         u.total = w.total, u.processed = w.processed + 1, u.failed = w.failed + 1
  PROVE  JobOK(u, files \cup more1, row, S)
<1>1. WalkOK(w, files)
  BY DEF JobOK, Walking, WithFile
<1>2. /\ u.at \in Walking /\ OnFile(u) /\ OnFile(w) /\ w.at \in WithFile /\ u.at \notin WithFile
      /\ w.at \notin Ended /\ Tried(u) = Tried(w)
  BY DEF OnFile, Walking, WithFile, Projecting, Ended, Tried
<1>3. FailedOf(files \cup more1) = FailedOf(files)
  BY DEF FailedOf
<1>4. /\ u.processed + u.failed + 0 >= u.total
      /\ u.failed = Cardinality(FailedOf(files)) + 1
  BY <1>1, <1>2, FailedCount
<1>5. WalkOK(u, files \cup more1)
  BY <1>1, <1>2, <1>3, <1>4 DEF WalkOK
<1>6. ImageOK(u, S)
  BY DEF ImageOK, Projecting
<1>. QED
  BY <1>2, <1>5, <1>6 DEF JobOK, Ended

\* The row of a file that failed.
LEMMA JobRecordsFailure ==
  ASSUME NEW V, NEW w \in WorkOf(V), NEW u, NEW files, NEW row, NEW S, JobOK(w, files, row, S),
         w.at = "recordFailed", NEW r, r.file = w.file, r.status = "failed",
         u.at \in {"next", "progress"}, u.kind = w.kind, u.listed = w.listed, u.todo = w.todo,
         u.total = w.total, u.processed = w.processed, u.failed = w.failed
  PROVE  JobOK(u, files \cup {r}, row, S)
<1>1. WalkOK(w, files)
  BY DEF JobOK, Walking
<1>2. /\ u.at \in Walking /\ ~OnFile(u) /\ OnFile(w) /\ w.at \notin WithFile /\ u.at \notin WithFile
      /\ w.at \notin Ended /\ Tried(u) = Tried(w) /\ w.at = "recordFailed"
  BY DEF OnFile, Walking, WithFile, Projecting, Ended, Tried
<1>3. FailedOf(files \cup {r}) = FailedOf(files) \cup {r} /\ r \notin FailedOf(files)
  BY <1>1, <1>2 DEF FailedOf, WalkOK
<1>4. /\ IsFiniteSet(FailedOf(files \cup {r}))
      /\ Cardinality(FailedOf(files \cup {r})) = Cardinality(FailedOf(files)) + 1
  <2>1. PICK F : F = FailedOf(files)
    OBVIOUS
  <2>2. IsFiniteSet(F) /\ r \notin F /\ FailedOf(files \cup {r}) = F \cup {r}
    BY <1>1, <1>3, <2>1 DEF WalkOK
  <2>3. IsFiniteSet(F \cup {r}) /\ Cardinality(F \cup {r}) = Cardinality(F) + 1
    BY <2>2, FS_AddElement
  <2>. QED
    BY <2>1, <2>2, <2>3
<1>5. w.failed = Cardinality(FailedOf(files)) + 1
  BY <1>1, <1>2 DEF WalkOK
<1>6. /\ u.processed + u.failed + 0 >= u.total
      /\ u.failed = Cardinality(FailedOf(files \cup {r})) + 0
  BY <1>1, <1>2, <1>4, <1>5, FailedCount
<1>7. \A f \in Tried(u) : \E q \in files \cup {r} : q.file = f
  BY <1>1, <1>2 DEF WalkOK
<1>8. \A q \in FailedOf(files \cup {r}) : q.file \in Tried(u)
  BY <1>1, <1>2, <1>3 DEF WalkOK
<1>9. WalkOK(u, files \cup {r})
  BY <1>1, <1>2, <1>4, <1>6, <1>7, <1>8 DEF WalkOK
<1>10. ImageOK(u, S)
  BY DEF ImageOK, Projecting
<1>11. \A q \in files \cup {r} : q.status # "failed" => q.image \in S
  BY DEF JobOK
<1>. QED
  BY <1>2, <1>9, <1>10, <1>11 DEF JobOK, Ended

\* The failed file's row may be written when the job gives up.
LEMMA JobGivesUp ==
  ASSUME NEW w, NEW u, NEW files, NEW row, NEW S, JobOK(w, files, row, S), w.at = "recordFailed",
         NEW more1, \A r \in more1 : r.status = "failed",
         u.at = "fail", u.kind = w.kind
  PROVE  JobOK(u, files \cup more1, row, S)
<1>1. u.at \notin Walking /\ u.at \notin {"none", "stat", "open"} /\ w.at \notin Ended
  BY DEF Walking, WithFile, Projecting, Ended
<1>2. ImageOK(u, S)
  BY DEF ImageOK, Projecting
<1>. QED
  BY <1>1, <1>2 DEF JobOK

\* The counters are written, of a job under way or of one that ends.
LEMMA JobCounts ==
  ASSUME NEW w, NEW u, NEW files, NEW row, NEW row2, NEW S, JobOK(w, files, row, S),
         w.at = "progress", row2.status # "completed",
         u.at = "next", u.kind = w.kind, u.listed = w.listed, u.todo = w.todo,
         u.total = w.total, u.processed = w.processed, u.failed = w.failed
  PROVE  JobOK(u, files, row2, S)
<1>1. WalkOK(w, files)
  BY DEF JobOK, Walking
<1>2. /\ u.at \in Walking /\ ~OnFile(u) /\ ~OnFile(w) /\ w.at \notin WithFile /\ u.at \notin WithFile
      /\ w.at # "recordFailed" /\ Tried(u) = Tried(w)
  BY DEF OnFile, Walking, WithFile, Projecting, Tried
<1>3. WalkOK(u, files)
  BY <1>1, <1>2 DEF WalkOK
<1>4. ImageOK(u, S)
  BY DEF ImageOK, Projecting
<1>. QED
  BY <1>2, <1>3, <1>4 DEF JobOK

\* A job that completes writes to its row what it counted.
LEMMA JobCompletes ==
  ASSUME NEW V, NEW w \in WorkOf(V), NEW u, NEW files, NEW row, NEW row2, NEW S, JobOK(w, files, row, S),
         w.at = "finish", row2.total = w.total, row2.processed = w.processed, row2.failed = w.failed,
         u.at \in {"done", "fail"}, u.kind = w.kind, u.listed = w.listed
  PROVE  JobOK(u, files, row2, S)
<1>1. WalkOK(w, files)
  BY DEF JobOK, Walking
<1>2. w.todo = {} /\ ~OnFile(w) /\ w.at \notin WithFile /\ w.at # "recordFailed"
  BY <1>1 DEF OnFile, WithFile, Projecting, WalkOK
<1>3. Tried(w) = w.listed
  BY <1>2 DEF Tried
<1>4. SettledAs(u, files, row2)
  BY <1>1, <1>2, <1>3, FailedCount DEF SettledAs, WalkOK
<1>5. u.at \notin Walking /\ u.at \notin {"none", "stat", "open"} /\ u.at \in Ended
  BY DEF Walking, WithFile, Projecting, Ended
<1>6. ImageOK(u, S)
  BY DEF ImageOK, Projecting
<1>. QED
  BY <1>4, <1>5, <1>6 DEF JobOK

\* Any other change of the row.
LEMMA JobRowChanges ==
  ASSUME NEW w, NEW files, NEW row, NEW row2, NEW S, JobOK(w, files, row, S), row2.status # "completed"
  PROVE  JobOK(w, files, row2, S)
BY DEF JobOK

\* From the request to the list of files.
LEMMA JobStarts ==
  ASSUME NEW w, NEW u, NEW files, NEW row, NEW row2, NEW S, JobOK(w, files, row, S), row2.status # "completed",
         w.at \in {"none", "stat"}, u.at \in {"stat", "open"}, u.kind = "ingest",
         u.listed = {}, u.todo = {}, u.total = 0, u.processed = 0, u.failed = 0
  PROVE  JobOK(u, files, row2, S)
<1>1. u.at \notin Walking /\ u.at \notin Ended
  BY DEF Walking, WithFile, Projecting, Ended
<1>2. ImageOK(u, S) /\ files = {}
  BY DEF ImageOK, Projecting, JobOK
<1>. QED
  BY <1>1, <1>2 DEF JobOK

\* A job that has listed its folder has everything still to do.
LEMMA JobLists ==
  ASSUME NEW w, NEW u, NEW files, NEW row, NEW S, JobOK(w, files, row, S),
         w.at = "open", u.at = "next", u.kind = w.kind, NEW fs \in SUBSET FolderFiles,
         u.listed = fs, u.todo = fs,
         u.total = w.total, u.processed = w.processed, u.failed = w.failed
  PROVE  JobOK(u, files, row, S)
<1>1. files = {} /\ u.total = 0 /\ u.processed = 0 /\ u.failed = 0 /\ w.at \notin Ended
  BY DEF JobOK, Ended
<1>2. /\ u.at \in Walking /\ ~OnFile(u) /\ u.at \notin WithFile /\ Tried(u) = {}
      /\ FailedOf(files) = {}
  BY <1>1 DEF OnFile, Walking, WithFile, Projecting, Tried, FailedOf
<1>3. IsFiniteSet({}) /\ Cardinality({}) = 0
  BY FS_EmptySet
<1>4. WalkOK(u, files)
  BY <1>1, <1>2, <1>3 DEF WalkOK
<1>5. ImageOK(u, S)
  BY DEF ImageOK, Projecting
<1>. QED
  BY <1>1, <1>2, <1>4, <1>5 DEF JobOK

-----------------------------------------------------------------------------
(* The actors.                                                             *)

FileRead == {"extract", "thumbnail", "persist"}
KeeperOK(w) ==
    /\ w.at \in FileRead => w.file \in FolderFiles
    /\ w.at \in {"thumbnail", "persist"} => w.sha \in Contents
    /\ w.at = "clear" => w.kind = "graph"
    /\ w.kind = "graph" => w.req = {"graph"}

StoreTypes ==
    /\ disk \in [FolderFiles -> Contents \cup {NoContent}]
    /\ images \in [Contents -> [path : FolderFiles \cup {NoContent}, thumb : BOOLEAN]]
    /\ \A c \in Stored : images[c].path \in FolderFiles
    /\ jobRows \in [IngestJobs -> [status : JobStatuses, total : Nat, processed : Nat, failed : Nat]]
    /\ jobFiles = [j \in IngestJobs |-> jobFiles[j]]
    /\ ingestFaults \in Nat
WorkTypes == \E V : doing \in [Actors -> WorkOf(V)]
JobsOK == \A j \in IngestJobs : JobOK(doing[j], jobFiles[j], jobRows[j], Stored)
KeepersOK == \A k \in Keepers : KeeperOK(doing[k])
LayerInv == StoreTypes /\ WorkTypes /\ JobsOK /\ KeepersOK

\* An actor that does nothing is an actor.
LEMMA NoWorkIsWork == NoWork \in WorkOf({NoContent, "none"})
<1>1. PICK s : s = "none"
  OBVIOUS
<1>2. PICK u : u = [at |-> s, kind |-> s, req |-> {}, listed |-> {}, todo |-> {},
                   file |-> NoContent, sha |-> NoContent, image |-> NoContent, thumb |-> FALSE,
                   path |-> NoContent, vector |-> NoContent, total |-> 0, processed |-> 0, failed |-> 0]
  OBVIOUS
<1>3. NoWork = u
  BY <1>1, <1>2 DEF NoWork, NoImage
<1>4. u \in WorkOf({NoContent, "none"})
  BY <1>1, <1>2 DEF WorkOf
<1>. QED
  BY <1>3, <1>4

\* The layer starts with no job, no image and nothing running.
LEMMA LayerStarts == ServiceInit => LayerInv
<1>. SUFFICES ASSUME ServiceInit PROVE LayerInv
  OBVIOUS
<1>1. doing \in [Actors -> WorkOf({NoContent, "none"})]
  BY NoWorkIsWork DEF ServiceInit
<1>2. StoreTypes
  <2>1. NoImageRow \in [path : FolderFiles \cup {NoContent}, thumb : BOOLEAN] /\ Stored = {}
    BY DEF ServiceInit, NoImageRow, Stored
  <2>2. NoJobRow \in [status : JobStatuses, total : Nat, processed : Nat, failed : Nat]
    <3>1. PICK s \in JobStatuses : s = "none"
      BY DEF JobStatuses
    <3>2. NoJobRow = [status |-> s, total |-> 0, processed |-> 0, failed |-> 0]
      BY <3>1 DEF NoJobRow
    <3>. QED
      BY <3>2
  <2>3. images \in [Contents -> [path : FolderFiles \cup {NoContent}, thumb : BOOLEAN]]
    BY <2>1 DEF ServiceInit
  <2>4. jobRows \in [IngestJobs -> [status : JobStatuses, total : Nat, processed : Nat, failed : Nat]]
    BY <2>2 DEF ServiceInit
  <2>5. jobFiles = [j \in IngestJobs |-> jobFiles[j]] /\ ingestFaults \in Nat
    BY DEF ServiceInit
  <2>6. disk \in [FolderFiles -> Contents \cup {NoContent}]
    BY DEF ServiceInit
  <2>. QED
    BY <2>1, <2>3, <2>4, <2>5, <2>6 DEF StoreTypes
<1>3. JobsOK
  <2>1. ASSUME NEW j \in IngestJobs PROVE JobOK(doing[j], jobFiles[j], jobRows[j], Stored)
    <3>1. doing[j] = NoWork /\ jobFiles[j] = {} /\ jobRows[j] = NoJobRow
      BY DEF ServiceInit, Actors
    <3>2. NoWork.at = "none" /\ NoWork.listed = {} /\ NoWork.todo = {} /\ NoWork.total = 0
          /\ NoWork.processed = 0 /\ NoWork.failed = 0 /\ NoJobRow.status = "none"
      BY DEF NoWork, NoJobRow
    <3>3. ImageOK(NoWork, Stored)
      BY <3>2 DEF ImageOK, Projecting
    <3>. QED
      BY <3>1, <3>2, <3>3 DEF JobOK, Walking, WithFile, Projecting
  <2>. QED
    BY <2>1 DEF JobsOK
<1>4. KeepersOK
  BY DEF ServiceInit, Actors, KeepersOK, KeeperOK, NoWork, FileRead
<1>. QED
  BY <1>1, <1>2, <1>3, <1>4 DEF LayerInv, WorkTypes

\* One actor moves, and the others see of it a store that grows.
LEMMA ActorMoves ==
  ASSUME LayerInv, StoreTypes', Stored \subseteq Stored', NEW a \in Actors,
         NEW V, doing \in [Actors -> WorkOf(V)], NEW W, NEW u \in WorkOf(W),
         doing' = [doing EXCEPT ![a] = u],
         \A j \in IngestJobs : j # a => jobFiles'[j] = jobFiles[j] /\ jobRows'[j] = jobRows[j],
         a \in IngestJobs => JobOK(u, jobFiles'[a], jobRows'[a], Stored'),
         a \in Keepers => KeeperOK(u)
  PROVE  LayerInv'
<1>1. doing'[a] = u /\ \A b \in Actors : b # a => doing'[b] = doing[b]
  OBVIOUS
<1>2. PICK U : U = V \cup W
  OBVIOUS
<1>3. ASSUME NEW w, w \in WorkOf(V) \/ w \in WorkOf(W) PROVE w \in WorkOf(U)
  BY <1>2, <1>3 DEF WorkOf
<1>4. doing' \in [Actors -> WorkOf(U)]
  BY <1>1, <1>3
<1>5. ASSUME NEW j \in IngestJobs PROVE JobOK(doing'[j], jobFiles'[j], jobRows'[j], Stored')
  <2>1. CASE j = a
    BY <1>1, <2>1
  <2>2. CASE j # a
    <3>1. JobOK(doing[j], jobFiles[j], jobRows[j], Stored)
      BY DEF LayerInv, JobsOK
    <3>2. doing'[j] = doing[j] /\ jobFiles'[j] = jobFiles[j] /\ jobRows'[j] = jobRows[j]
      BY <1>1, <2>2 DEF Actors
    <3>3. JobOK(doing[j], jobFiles[j], jobRows[j], Stored')
      BY <3>1, JobStays
    <3>. QED
      BY <3>2, <3>3
  <2>. QED
    BY <2>1, <2>2
<1>6. ASSUME NEW k \in Keepers PROVE KeeperOK(doing'[k])
  BY <1>1 DEF LayerInv, KeepersOK, Actors
<1>. QED
  BY <1>4, <1>5, <1>6 DEF LayerInv, WorkTypes, JobsOK, KeepersOK

\* Nothing but the place changes.
AlikeBut(u, w) ==
    /\ u.kind = w.kind /\ u.req = w.req /\ u.listed = w.listed /\ u.todo = w.todo /\ u.file = w.file
    /\ u.total = w.total /\ u.processed = w.processed

\* An actor that goes to another place takes everything with it.
LEMMA GoesTo ==
  ASSUME NEW a \in Actors, NEW V, doing \in [Actors -> WorkOf(V)], NEW at, To(a, at)
  PROVE  \E u \in WorkOf(V \cup {at}) :
           /\ Becomes(a, u) /\ u.at = at /\ AlikeBut(u, doing[a])
           /\ u.failed = doing[a].failed /\ u.sha = doing[a].sha /\ u.image = doing[a].image
<1>1. PICK w \in WorkOf(V) : w = doing[a]
  OBVIOUS
<1>2. PICK u : u = [w EXCEPT !.at = at]
  OBVIOUS
<1>3. /\ u \in WorkOf(V \cup {at}) /\ u.at = at /\ AlikeBut(u, w)
      /\ u.failed = w.failed /\ u.sha = w.sha /\ u.image = w.image
  BY <1>1, <1>2 DEF WorkOf, AlikeBut
<1>4. Becomes(a, u)
  BY <1>1, <1>2 DEF To
<1>. QED
  BY <1>1, <1>3, <1>4

\* A file that fails is counted and is recorded next.
LEMMA FailsFile ==
  ASSUME NEW a \in Actors, NEW V, doing \in [Actors -> WorkOf(V)], FileFails(a)
  PROVE  \E u \in WorkOf(V \cup {"recordFailed"}) :
           /\ Becomes(a, u) /\ u.at = "recordFailed" /\ AlikeBut(u, doing[a])
           /\ u.failed = doing[a].failed + 1
<1>1. PICK w \in WorkOf(V) : w = doing[a]
  OBVIOUS
<1>2. PICK n \in Nat : n = w.failed + 1
  BY DEF WorkOf
<1>3. PICK s : s = "recordFailed"
  OBVIOUS
<1>4. PICK u : u = [w EXCEPT !.at = s, !.failed = n]
  OBVIOUS
<1>5. u \in WorkOf(V \cup {s}) /\ u.at = s /\ AlikeBut(u, w) /\ u.failed = n
  BY <1>1, <1>4 DEF WorkOf, AlikeBut
<1>6. Becomes(a, u)
  BY <1>1, <1>2, <1>3, <1>4 DEF FileFails
<1>. QED
  BY <1>1, <1>2, <1>3, <1>5, <1>6

\* The store's types, and what is stored, stay when it is not written.
LEMMA StoreFrame ==
  ASSUME StoreTypes, UNCHANGED <<disk, images, jobRows, jobFiles>>, ingestFaults' \in Nat
  PROVE  StoreTypes' /\ Stored' = Stored
BY DEF StoreTypes, Stored, NoImageRow

\* Every fault is counted, and nothing else.
LEMMA FaultsAreCounted == ingestFaults \in Nat /\ (Fine \/ Failing) => ingestFaults' \in Nat
BY DEF Fine, Failing

\* A move that leaves the rows and the files alone.
LEMMA ActorSteps ==
  ASSUME LayerInv, NEW a \in Actors, NEW W, NEW u \in WorkOf(W), Becomes(a, u),
         UNCHANGED <<disk, images, jobRows, jobFiles>>, Fine \/ Failing,
         a \in IngestJobs => JobOK(u, jobFiles[a], jobRows[a], Stored),
         a \in Keepers => KeeperOK(u)
  PROVE  LayerInv'
<1>1. PICK V : doing \in [Actors -> WorkOf(V)]
  BY DEF LayerInv, WorkTypes
<1>2. StoreTypes /\ ingestFaults' \in Nat
  BY FaultsAreCounted DEF LayerInv, StoreTypes
<1>3. StoreTypes' /\ Stored' = Stored
  BY <1>2, StoreFrame
<1>4. doing' = [doing EXCEPT ![a] = u]
  BY DEF Becomes
<1>5. \A j \in IngestJobs : j # a => jobFiles'[j] = jobFiles[j] /\ jobRows'[j] = jobRows[j]
  OBVIOUS
<1>6. a \in IngestJobs => JobOK(u, jobFiles'[a], jobRows'[a], Stored')
  BY <1>3
<1>. QED
  BY <1>1, <1>3, <1>4, <1>5, <1>6, ActorMoves

\* A job whose rows change with its move.
LEMMA JobWrites ==
  ASSUME LayerInv, NEW j \in IngestJobs, NEW W, NEW u \in WorkOf(W), Becomes(j, u),
         UNCHANGED <<disk, images>>, Fine \/ Failing, NEW row, NEW files,
         row \in [status : JobStatuses, total : Nat, processed : Nat, failed : Nat],
         jobRows' = [jobRows EXCEPT ![j] = row], jobFiles' = [jobFiles EXCEPT ![j] = files],
         JobOK(u, files, row, Stored)
  PROVE  LayerInv'
<1>1. PICK V : doing \in [Actors -> WorkOf(V)]
  BY DEF LayerInv, WorkTypes
<1>2. ingestFaults' \in Nat
  BY FaultsAreCounted DEF LayerInv, StoreTypes
<1>3. Stored' = Stored
  BY DEF Stored, NoImageRow
<1>4. /\ jobRows' \in [IngestJobs -> [status : JobStatuses, total : Nat, processed : Nat, failed : Nat]]
      /\ jobFiles' = [i \in IngestJobs |-> jobFiles'[i]]
      /\ jobRows'[j] = row /\ jobFiles'[j] = files
  BY DEF LayerInv, StoreTypes
<1>5. StoreTypes'
  BY <1>2, <1>3, <1>4 DEF LayerInv, StoreTypes
<1>6. \A i \in IngestJobs : i # j => jobFiles'[i] = jobFiles[i] /\ jobRows'[i] = jobRows[i]
  BY DEF LayerInv, StoreTypes
<1>7. j \notin Keepers /\ j \in Actors
  BY IngestAssumption DEF Actors
<1>8. doing' = [doing EXCEPT ![j] = u]
  BY DEF Becomes
<1>. QED
  BY <1>1, <1>3, <1>4, <1>5, <1>6, <1>7, <1>8, ActorMoves

\* What there is to know of a job before it moves.
LEMMA JobStands ==
  ASSUME LayerInv, NEW j \in IngestJobs
  PROVE  /\ JobOK(doing[j], jobFiles[j], jobRows[j], Stored) /\ j \in Actors /\ j \notin Keepers
         /\ \E V : doing \in [Actors -> WorkOf(V)] /\ doing[j] \in WorkOf(V)
         /\ jobRows[j] \in [status : JobStatuses, total : Nat, processed : Nat, failed : Nat]
         /\ jobFiles = [jobFiles EXCEPT ![j] = jobFiles[j]]
         /\ jobRows = [jobRows EXCEPT ![j] = jobRows[j]]
<1>1. j \in Actors /\ j \notin Keepers
  BY IngestAssumption DEF Actors
<1>2. PICK V : doing \in [Actors -> WorkOf(V)]
  BY DEF LayerInv, WorkTypes
<1>3. /\ JobOK(doing[j], jobFiles[j], jobRows[j], Stored)
      /\ jobRows \in [IngestJobs -> [status : JobStatuses, total : Nat, processed : Nat, failed : Nat]]
  BY DEF LayerInv, JobsOK, StoreTypes
<1>4. jobRows = [jobRows EXCEPT ![j] = jobRows[j]]
  BY <1>3
<1>5. jobFiles = [jobFiles EXCEPT ![j] = jobFiles[j]]
  BY DEF LayerInv, StoreTypes
<1>. QED
  BY <1>1, <1>2, <1>3, <1>4, <1>5

\* A row of a job takes a status and keeps its counts.
LEMMA StatusChanges ==
  ASSUME NEW row \in [status : JobStatuses, total : Nat, processed : Nat, failed : Nat],
         NEW s \in JobStatuses
  PROVE  /\ [row EXCEPT !.status = s] \in [status : JobStatuses, total : Nat, processed : Nat, failed : Nat]
         /\ [row EXCEPT !.status = s].status = s
OBVIOUS

\* POST of an ingestion: the row is written and the job begins.
LEMMA StartsJob ==
  ASSUME LayerInv, NEW j \in IngestJobs, StartIngestion(j)
  PROVE  LayerInv'
<1>1. PICK V : doing \in [Actors -> WorkOf(V)] /\ doing[j] \in WorkOf(V)
  BY JobStands
<1>2. PICK s \in JobStatuses : s = "running"
  BY DEF JobStatuses
<1>3. PICK row : row = [jobRows[j] EXCEPT !.status = s]
  OBVIOUS
<1>4. /\ row \in [status : JobStatuses, total : Nat, processed : Nat, failed : Nat]
      /\ row.status # "completed"
  BY <1>2, <1>3, JobStands, StatusChanges
<1>5. /\ jobRows' = [jobRows EXCEPT ![j] = row] /\ UNCHANGED <<disk, images>>
      /\ jobFiles' = [jobFiles EXCEPT ![j] = jobFiles[j]]
  BY <1>2, <1>3, JobStands DEF StartIngestion, storeVars
<1>6. JobOK(doing[j], jobFiles[j], jobRows[j], Stored) /\ doing[j].at = "none"
  BY JobStands DEF StartIngestion
<1>7. CASE \E req \in IngestRequests :
             Becomes(j, [NoWork EXCEPT !.at = "stat", !.kind = "ingest", !.req = req])
  <2>1. PICK req \in IngestRequests :
               Becomes(j, [NoWork EXCEPT !.at = "stat", !.kind = "ingest", !.req = req])
    BY <1>7
  <2>2. PICK w \in WorkOf({NoContent, "none"}) : w = NoWork
    BY NoWorkIsWork
  <2>3. PICK at, kind : at = "stat" /\ kind = "ingest"
    OBVIOUS
  <2>4. PICK u : u = [w EXCEPT !.at = at, !.kind = kind, !.req = req]
    OBVIOUS
  <2>5. u \in WorkOf({NoContent, "none", at, kind}) /\ u.at = at /\ u.kind = kind
    BY <2>2, <2>4, IngestAssumption DEF WorkOf
  <2>6. u.listed = {} /\ u.todo = {} /\ u.total = 0 /\ u.processed = 0 /\ u.failed = 0
    BY <2>2, <2>4 DEF NoWork
  <2>7. Becomes(j, u)
    BY <2>1, <2>2, <2>3, <2>4
  <2>8. JobOK(u, jobFiles[j], row, Stored)
    BY <1>4, <1>6, <2>3, <2>5, <2>6, JobStarts
  <2>9. Fine \/ Failing
    BY DEF StartIngestion
  <2>. QED
    BY <1>4, <1>5, <2>5, <2>7, <2>8, <2>9, JobWrites
<1>8. CASE To(j, "dead")
  <2>1. PICK u \in WorkOf(V \cup {"dead"}) : Becomes(j, u) /\ u.at = "dead" /\ AlikeBut(u, doing[j])
    BY <1>1, <1>8, JobStands, GoesTo
  <2>2. JobOK(u, jobFiles[j], jobRows[j], Stored)
    BY <1>6, <2>1, JobIsOver DEF Ended, AlikeBut
  <2>3. JobOK(u, jobFiles[j], row, Stored)
    BY <1>4, <2>2, JobRowChanges
  <2>4. Fine \/ Failing
    BY DEF StartIngestion
  <2>. QED
    BY <1>4, <1>5, <2>1, <2>3, <2>4, JobWrites
<1>. QED
  BY <1>7, <1>8 DEF StartIngestion

\* What the invariant says of one actor.
LEMMA ActorStands ==
  ASSUME LayerInv, NEW a \in Actors
  PROVE  /\ \E V : doing \in [Actors -> WorkOf(V)] /\ doing[a] \in WorkOf(V)
         /\ a \in IngestJobs => JobOK(doing[a], jobFiles[a], jobRows[a], Stored)
         /\ a \in Keepers => KeeperOK(doing[a])
<1>1. PICK V : doing \in [Actors -> WorkOf(V)]
  BY DEF LayerInv, WorkTypes
<1>2. /\ a \in IngestJobs => JobOK(doing[a], jobFiles[a], jobRows[a], Stored)
      /\ a \in Keepers => KeeperOK(doing[a])
  BY DEF LayerInv, JobsOK, KeepersOK
<1>. QED
  BY <1>1, <1>2

\* The file of an actor fails; a re-index or a rebuild may only stop.
LEMMA FileIsFailed ==
  ASSUME LayerInv, NEW a \in Actors, a \in IngestJobs => doing[a].at \in WithFile, FileFails(a),
         UNCHANGED <<disk, images, jobRows, jobFiles>>, Fine \/ Failing
  PROVE  LayerInv'
<1>1. PICK V : doing \in [Actors -> WorkOf(V)] /\ doing[a] \in WorkOf(V)
  BY ActorStands
<1>2. PICK u \in WorkOf(V \cup {"recordFailed"}) :
           /\ Becomes(a, u) /\ u.at = "recordFailed" /\ AlikeBut(u, doing[a])
           /\ u.failed = doing[a].failed + 1
  BY <1>1, FailsFile
<1>3. a \in IngestJobs => JobOK(u, jobFiles[a], jobRows[a], Stored)
  BY <1>1, <1>2, ActorStands, JobFileFails DEF AlikeBut
<1>4. a \in Keepers => KeeperOK(u)
  BY <1>2, ActorStands DEF KeeperOK, AlikeBut, FileRead
<1>. QED
  BY <1>2, <1>3, <1>4, ActorSteps

\* An actor that ends leaves everyone else as right as before.
LEMMA ActorStops ==
  ASSUME LayerInv, NEW a \in Actors, NEW at \in Ended,
         a \in IngestJobs => doing[a].at \notin {"none", "dead"}, To(a, at),
         UNCHANGED <<disk, images, jobRows, jobFiles>>, Fine \/ Failing
  PROVE  LayerInv'
<1>1. PICK V : doing \in [Actors -> WorkOf(V)] /\ doing[a] \in WorkOf(V)
  BY ActorStands
<1>2. PICK u \in WorkOf(V \cup {at}) : Becomes(a, u) /\ u.at = at /\ AlikeBut(u, doing[a])
  BY <1>1, GoesTo
<1>3. a \in IngestJobs => JobOK(u, jobFiles[a], jobRows[a], Stored)
  BY <1>2, ActorStands, JobIsOver DEF AlikeBut
<1>4. a \in Keepers => KeeperOK(u)
  BY <1>2, ActorStands DEF KeeperOK, AlikeBut, FileRead, Ended
<1>. QED
  BY <1>2, <1>3, <1>4, ActorSteps

\* A folder that is there, or is not.
LEMMA StatsFolder ==
  ASSUME LayerInv, NEW j \in IngestJobs, StatFolder(j)
  PROVE  LayerInv'
<1>1. /\ doing[j].at = "stat" /\ UNCHANGED <<disk, images, jobRows, jobFiles>> /\ (Fine \/ Failing)
  BY DEF StatFolder, storeVars, bookVars
<1>2. j \in Actors
  BY DEF Actors
<1>3. CASE To(j, "open")
  <2>1. PICK V : doing \in [Actors -> WorkOf(V)] /\ doing[j] \in WorkOf(V)
    BY JobStands
  <2>2. PICK u \in WorkOf(V \cup {"open"}) :
           Becomes(j, u) /\ u.at = "open" /\ AlikeBut(u, doing[j]) /\ u.failed = doing[j].failed
    BY <1>2, <1>3, <2>1, GoesTo
  <2>3. JobOK(doing[j], jobFiles[j], jobRows[j], Stored) /\ j \notin Keepers
    BY JobStands
  <2>4. /\ doing[j].listed = {} /\ doing[j].todo = {} /\ doing[j].total = 0 /\ doing[j].processed = 0
        /\ doing[j].failed = 0 /\ doing[j].kind = "ingest" /\ jobRows[j].status # "completed"
    BY <1>1, <2>3 DEF JobOK, Ended
  <2>5. JobOK(u, jobFiles[j], jobRows[j], Stored)
    BY <1>1, <2>2, <2>3, <2>4, JobStarts DEF AlikeBut
  <2>. QED
    BY <1>1, <1>2, <2>2, <2>3, <2>5, ActorSteps
<1>4. CASE To(j, "fail")
  BY <1>1, <1>2, <1>4, ActorStops DEF Ended
<1>. QED
  BY <1>3, <1>4 DEF StatFolder

\* The files of the folder are listed and counted.
LEMMA OpensFolder ==
  ASSUME LayerInv, NEW j \in IngestJobs, OpenFolder(j)
  PROVE  LayerInv'
<1>1. /\ doing[j].at = "open" /\ UNCHANGED <<disk, images, jobRows, jobFiles>> /\ (Fine \/ Failing)
  BY DEF OpenFolder, storeVars, bookVars
<1>2. PICK fs \in SUBSET FolderFiles :
         Becomes(j, [doing[j] EXCEPT !.at = "next", !.listed = fs, !.todo = fs])
  BY DEF OpenFolder
<1>3. PICK V : doing \in [Actors -> WorkOf(V)] /\ doing[j] \in WorkOf(V)
  BY JobStands
<1>4. PICK w \in WorkOf(V) : w = doing[j]
  BY <1>3
<1>5. PICK at : at = "next"
  OBVIOUS
<1>6. PICK u : u = [w EXCEPT !.at = at, !.listed = fs, !.todo = fs]
  OBVIOUS
<1>7. /\ u \in WorkOf(V \cup {at} \cup FolderFiles) /\ u.at = at /\ u.listed = fs /\ u.todo = fs
      /\ u.kind = w.kind /\ u.total = w.total /\ u.processed = w.processed /\ u.failed = w.failed
  BY <1>4, <1>6 DEF WorkOf
<1>8. Becomes(j, u)
  BY <1>2, <1>4, <1>5, <1>6
<1>9. JobOK(doing[j], jobFiles[j], jobRows[j], Stored) /\ j \notin Keepers /\ j \in Actors
  BY JobStands
<1>10. JobOK(u, jobFiles[j], jobRows[j], Stored)
  BY <1>1, <1>4, <1>5, <1>7, <1>9, JobLists
<1>. QED
  BY <1>1, <1>7, <1>8, <1>9, <1>10, ActorSteps

\* The next file is taken, or there is none.
LEMMA TakesFile ==
  ASSUME LayerInv, NEW j \in IngestJobs, NextFile(j)
  PROVE  LayerInv'
<1>1. /\ doing[j].at = "next" /\ UNCHANGED <<disk, images, jobRows, jobFiles>> /\ (Fine \/ Failing)
  BY DEF NextFile, storeVars, bookVars, ingestBounds, Fine
<1>2. PICK V : doing \in [Actors -> WorkOf(V)] /\ doing[j] \in WorkOf(V)
  BY JobStands
<1>3. JobOK(doing[j], jobFiles[j], jobRows[j], Stored) /\ j \notin Keepers /\ j \in Actors
  BY JobStands
<1>4. CASE doing[j].todo = {} /\ To(j, "finish")
  <2>1. PICK u \in WorkOf(V \cup {"finish"}) :
           Becomes(j, u) /\ u.at = "finish" /\ AlikeBut(u, doing[j]) /\ u.failed = doing[j].failed
    BY <1>2, <1>3, <1>4, GoesTo
  <2>2. JobOK(u, jobFiles[j], jobRows[j], Stored)
    BY <1>1, <1>3, <1>4, <2>1, JobHasNoFileLeft DEF AlikeBut
  <2>. QED
    BY <1>1, <1>3, <2>1, <2>2, ActorSteps
<1>5. CASE ~(doing[j].todo = {} /\ To(j, "finish"))
  <2>1. PICK f \in doing[j].todo :
            Becomes(j, [doing[j] EXCEPT
                         !.at = "hash", !.file = f, !.todo = doing[j].todo \ {f},
                         !.total = doing[j].total + 1, !.thumb = FALSE, !.sha = NoImage,
                         !.image = NoImage, !.path = NoContent, !.vector = NoContent])
    BY <1>5 DEF NextFile
  <2>2. PICK w \in WorkOf(V) : w = doing[j]
    BY <1>2
  <2>3. PICK at, left, none : at = "hash" /\ left = w.todo \ {f} /\ none = NoContent
    OBVIOUS
  <2>4. PICK n \in Nat : n = w.total + 1
    BY DEF WorkOf
  <2>5. PICK u : u = [w EXCEPT !.at = at, !.file = f, !.todo = left, !.total = n, !.thumb = FALSE,
                               !.sha = none, !.image = none, !.path = none, !.vector = none]
    OBVIOUS
  <2>9. f \in V /\ left \in SUBSET V
    BY <2>1, <2>2, <2>3 DEF WorkOf
  <2>10. w.listed \in SUBSET V /\ w.kind \in V /\ w.req \in SUBSET IngestOptions
         /\ w.processed \in Nat /\ w.failed \in Nat
    BY DEF WorkOf
  <2>11. u = [at |-> at, kind |-> w.kind, req |-> w.req, listed |-> w.listed, todo |-> left,
              file |-> f, sha |-> none, image |-> none, thumb |-> FALSE, path |-> none,
              vector |-> none, total |-> n, processed |-> w.processed, failed |-> w.failed]
    BY <2>5 DEF WorkOf
  <2>6. /\ u \in WorkOf(V \cup {at, none}) /\ u.at = at /\ u.file = f /\ u.todo = left /\ u.total = n
        /\ u.image = none /\ u.listed = w.listed
        /\ u.kind = w.kind /\ u.processed = w.processed /\ u.failed = w.failed
    BY <2>9, <2>10, <2>11 DEF WorkOf
  <2>7. Becomes(j, u)
    BY <2>1, <2>2, <2>3, <2>4, <2>5 DEF NoImage
  <2>8. JobOK(u, jobFiles[j], jobRows[j], Stored)
    BY <1>1, <1>3, <2>1, <2>2, <2>3, <2>4, <2>6, JobTakesFile DEF NoImage
  <2>. QED
    BY <1>1, <1>3, <2>6, <2>7, <2>8, ActorSteps
<1>. QED
  BY <1>4, <1>5

\* The file is read and hashed, or fails.
LEMMA HashesFile ==
  ASSUME LayerInv, NEW j \in IngestJobs, HashFile(j)
  PROVE  LayerInv'
<1>1. /\ doing[j].at = "hash" /\ UNCHANGED <<disk, images, jobRows, jobFiles>> /\ (Fine \/ Failing)
  BY DEF HashFile, storeVars, bookVars
<1>2. JobOK(doing[j], jobFiles[j], jobRows[j], Stored) /\ j \notin Keepers /\ j \in Actors
  BY JobStands
<1>3. doing[j].at \in WithFile
  BY <1>1 DEF WithFile
<1>4. CASE FileFails(j)
  BY <1>1, <1>2, <1>3, <1>4, FileIsFailed
<1>5. CASE ~FileFails(j)
  <2>1. PICK V : doing \in [Actors -> WorkOf(V)] /\ doing[j] \in WorkOf(V)
    BY JobStands
  <2>2. PICK w \in WorkOf(V) : w = doing[j]
    BY <2>1
  <2>3. PICK at, content : at = "lookup" /\ content = disk[doing[j].file]
    OBVIOUS
  <2>4. PICK u : u = [w EXCEPT !.at = at, !.sha = content]
    OBVIOUS
  <2>5. /\ u \in WorkOf(V \cup {at, content}) /\ u.at = at /\ u.image = w.image /\ AlikeBut(u, w)
        /\ u.failed = w.failed
    BY <2>2, <2>4 DEF WorkOf, AlikeBut
  <2>6. Becomes(j, u)
    BY <1>5, <2>2, <2>3, <2>4 DEF HashFile
  <2>7. w.image = NoImage
    BY <1>1, <1>2, <2>2 DEF JobOK, ImageOK
  <2>8. ImageOK(u, Stored) /\ u.at \in WithFile
    BY <2>3, <2>5, <2>7 DEF ImageOK, Projecting, WithFile
  <2>9. JobOK(u, jobFiles[j], jobRows[j], Stored)
    BY <1>2, <1>3, <2>2, <2>5, <2>8, JobGoesOn DEF AlikeBut
  <2>. QED
    BY <1>1, <1>2, <2>5, <2>6, <2>9, ActorSteps
<1>. QED
  BY <1>4, <1>5

\* The image of the hash is looked up: known, or to be extracted.
LEMMA LooksUp ==
  ASSUME LayerInv, NEW j \in IngestJobs, LookUp(j)
  PROVE  LayerInv'
<1>1. /\ doing[j].at = "lookup" /\ UNCHANGED <<disk, images, jobRows, jobFiles>> /\ (Fine \/ Failing)
  BY DEF LookUp, storeVars, bookVars
<1>2. JobOK(doing[j], jobFiles[j], jobRows[j], Stored) /\ j \notin Keepers /\ j \in Actors
  BY JobStands
<1>3. doing[j].at \in WithFile
  BY <1>1 DEF WithFile
<1>4. CASE FileFails(j)
  BY <1>1, <1>2, <1>3, <1>4, FileIsFailed
<1>5. ASSUME NEW at, at \in {"record", "extract"}, To(j, at), at = "record" => doing[j].sha \in Stored
      PROVE  LayerInv'
  <2>1. PICK V : doing \in [Actors -> WorkOf(V)] /\ doing[j] \in WorkOf(V)
    BY JobStands
  <2>2. PICK u \in WorkOf(V \cup {at}) :
           /\ Becomes(j, u) /\ u.at = at /\ AlikeBut(u, doing[j])
           /\ u.failed = doing[j].failed /\ u.sha = doing[j].sha /\ u.image = doing[j].image
    BY <1>2, <1>5, <2>1, GoesTo
  <2>3. doing[j].image = NoImage
    BY <1>1, <1>2 DEF JobOK, ImageOK
  <2>4. ImageOK(u, Stored) /\ u.at \in WithFile
    BY <1>5, <2>2, <2>3 DEF ImageOK, Projecting, WithFile
  <2>5. JobOK(u, jobFiles[j], jobRows[j], Stored)
    BY <1>2, <1>3, <2>2, <2>4, JobGoesOn DEF AlikeBut
  <2>. QED
    BY <1>1, <1>2, <2>2, <2>5, ActorSteps
<1>. QED
  BY <1>4, <1>5 DEF LookUp

\* What a job writes of a file.
LEMMA OutcomeRow ==
  ASSUME NEW w, NEW f, w.image \in Stored \/ (w.image = NoImage /\ w.sha \in Stored)
  PROVE  FileRow(f, Outcome(w)).file = f /\ FileRow(f, Outcome(w)).status # "failed"
         /\ FileRow(f, Outcome(w)).image \in Stored
BY IngestAssumption DEF FileRow, Outcome, Stored, NoImage

\* The file is recorded as processed, skipped or changed.
LEMMA RecordsFile ==
  ASSUME LayerInv, NEW j \in IngestJobs, RecordFile(j)
  PROVE  LayerInv'
<1>1. /\ doing[j].at = "record" /\ UNCHANGED <<disk, images, jobRows>> /\ (Fine \/ Failing)
  BY DEF RecordFile, storeVars
<1>2. /\ JobOK(doing[j], jobFiles[j], jobRows[j], Stored) /\ j \notin Keepers /\ j \in Actors
      /\ jobRows[j] \in [status : JobStatuses, total : Nat, processed : Nat, failed : Nat]
      /\ jobFiles = [jobFiles EXCEPT ![j] = jobFiles[j]]
      /\ jobRows' = [jobRows EXCEPT ![j] = jobRows[j]]
  BY <1>1, JobStands
<1>3. PICK V : doing \in [Actors -> WorkOf(V)] /\ doing[j] \in WorkOf(V)
  BY JobStands
<1>4. PICK w \in WorkOf(V) : w = doing[j]
  BY <1>3
<1>5. PICK r : r = FileRow(w.file, Outcome(w))
  OBVIOUS
<1>6. r.file = w.file /\ r.status # "failed" /\ r.image \in Stored
  BY <1>1, <1>2, <1>4, <1>5, OutcomeRow DEF JobOK, ImageOK
<1>7. PICK n \in Nat, m \in Nat : n = w.processed + 1 /\ m = w.failed + 1
  BY DEF WorkOf
<1>8. AddRow(j, Outcome(doing[j])) => jobFiles' = [jobFiles EXCEPT ![j] = jobFiles[j] \cup {r}]
  BY <1>4, <1>5 DEF AddRow
<1>9. CASE RecordRefused(j)
  <2>1. PICK at : at = "recordFailed"
    OBVIOUS
  <2>2. PICK u : u = [w EXCEPT !.at = at, !.processed = n, !.failed = m]
    OBVIOUS
  <2>3. /\ u \in WorkOf(V \cup {at}) /\ u.at = at /\ u.processed = n /\ u.failed = m
        /\ u.kind = w.kind /\ u.listed = w.listed /\ u.todo = w.todo /\ u.file = w.file /\ u.total = w.total
    BY <1>4, <2>2 DEF WorkOf
  <2>4. Becomes(j, u)
    BY <1>4, <1>7, <1>9, <2>1, <2>2 DEF RecordRefused
  <2>5. PICK new \in SUBSET {r} : jobFiles' = [jobFiles EXCEPT ![j] = jobFiles[j] \cup new]
    <3>1. CASE UNCHANGED jobFiles
      <4>1. jobFiles[j] \cup {} = jobFiles[j]
        OBVIOUS
      <4>. QED
        BY <1>2, <3>1, <4>1
    <3>2. CASE ~UNCHANGED jobFiles
      BY <1>8, <3>2 DEF RecordFile
    <3>. QED
      BY <3>1, <3>2
  <2>6. \A q \in new : q.status # "failed" /\ q.image \in Stored
    BY <1>6
  <2>7. JobOK(u, jobFiles[j] \cup new, jobRows[j], Stored)
    BY <1>1, <1>2, <1>4, <1>7, <2>1, <2>3, <2>6, JobIsRefusedRow
  <2>. QED
    BY <1>1, <1>2, <2>3, <2>4, <2>5, <2>7, JobWrites
<1>10. CASE ~RecordRefused(j)
  <2>1. PICK at : at = AfterRecord(doing[j])
    OBVIOUS
  <2>2. PICK u : u = [w EXCEPT !.at = at, !.processed = n]
    OBVIOUS
  <2>3. /\ u \in WorkOf(V \cup {at}) /\ u.at = at /\ u.processed = n /\ u.failed = w.failed
        /\ u.kind = w.kind /\ u.listed = w.listed /\ u.todo = w.todo /\ u.file = w.file /\ u.total = w.total
    BY <1>4, <2>2 DEF WorkOf
  <2>4. Becomes(j, u)
    BY <1>4, <1>7, <1>10, <2>1, <2>2 DEF RecordFile
  <2>5. jobFiles' = [jobFiles EXCEPT ![j] = jobFiles[j] \cup {r}]
    BY <1>8, <1>10 DEF RecordFile
  <2>6. at \in {"next", "progress"}
    BY <2>1 DEF AfterRecord
  <2>7. JobOK(u, jobFiles[j] \cup {r}, jobRows[j], Stored)
    BY <1>1, <1>2, <1>4, <1>6, <1>7, <2>3, <2>6, JobRecords
  <2>. QED
    BY <1>1, <1>2, <2>3, <2>4, <2>5, <2>7, JobWrites
<1>. QED
  BY <1>9, <1>10

\* The file is recorded as failed, or that too fails.
LEMMA RecordsFailedFile ==
  ASSUME LayerInv, NEW j \in IngestJobs, RecordFailedFile(j)
  PROVE  LayerInv'
<1>1. /\ doing[j].at = "recordFailed" /\ UNCHANGED <<disk, images, jobRows>> /\ (Fine \/ Failing)
  BY DEF RecordFailedFile, storeVars
<1>2. /\ JobOK(doing[j], jobFiles[j], jobRows[j], Stored) /\ j \notin Keepers /\ j \in Actors
      /\ jobRows[j] \in [status : JobStatuses, total : Nat, processed : Nat, failed : Nat]
      /\ jobFiles = [jobFiles EXCEPT ![j] = jobFiles[j]]
      /\ jobRows' = [jobRows EXCEPT ![j] = jobRows[j]]
  BY <1>1, JobStands
<1>3. PICK V : doing \in [Actors -> WorkOf(V)] /\ doing[j] \in WorkOf(V)
  BY JobStands
<1>4. PICK r : r = FileRow(doing[j].file, NoOutcome)
  OBVIOUS
<1>5. r.file = doing[j].file /\ r.status = "failed"
  BY <1>4 DEF FileRow, NoOutcome
<1>6. AddRow(j, NoOutcome) => jobFiles' = [jobFiles EXCEPT ![j] = jobFiles[j] \cup {r}]
  BY <1>4 DEF AddRow
<1>7. CASE AddRow(j, NoOutcome) /\ To(j, AfterRecord(doing[j]))
  <2>1. PICK at \in {"next", "progress"} : at = AfterRecord(doing[j])
    BY DEF AfterRecord
  <2>2. PICK u \in WorkOf(V \cup {at}) :
           Becomes(j, u) /\ u.at = at /\ AlikeBut(u, doing[j]) /\ u.failed = doing[j].failed
    BY <1>2, <1>3, <1>7, <2>1, GoesTo
  <2>3. JobOK(u, jobFiles[j] \cup {r}, jobRows[j], Stored)
    BY <1>1, <1>2, <1>3, <1>5, <2>2, JobRecordsFailure DEF AlikeBut
  <2>4. jobFiles' = [jobFiles EXCEPT ![j] = jobFiles[j] \cup {r}]
    BY <1>6, <1>7
  <2>. QED
    BY <1>1, <1>2, <2>2, <2>3, <2>4, JobWrites
<1>8. CASE (AddRow(j, NoOutcome) \/ UNCHANGED jobFiles) /\ To(j, "fail")
  <2>1. PICK u \in WorkOf(V \cup {"fail"}) : Becomes(j, u) /\ u.at = "fail" /\ AlikeBut(u, doing[j])
    BY <1>2, <1>3, <1>8, GoesTo
  <2>2. PICK new \in SUBSET {r} : jobFiles' = [jobFiles EXCEPT ![j] = jobFiles[j] \cup new]
    <3>1. CASE UNCHANGED jobFiles
      <4>1. jobFiles[j] \cup {} = jobFiles[j]
        OBVIOUS
      <4>. QED
        BY <1>2, <3>1, <4>1
    <3>2. CASE ~UNCHANGED jobFiles
      BY <1>6, <1>8, <3>2
    <3>. QED
      BY <3>1, <3>2
  <2>3. \A q \in new : q.status = "failed"
    BY <1>5
  <2>4. JobOK(u, jobFiles[j] \cup new, jobRows[j], Stored)
    BY <1>1, <1>2, <2>1, <2>3, JobGivesUp DEF AlikeBut
  <2>. QED
    BY <1>1, <1>2, <2>1, <2>2, <2>4, JobWrites
<1>. QED
  BY <1>7, <1>8 DEF RecordFailedFile

\* The counters of a job under way or at its end.
LEMMA CountersRow ==
  ASSUME LayerInv, NEW j \in IngestJobs, NEW s \in JobStatuses, CountersWritten(j, s)
  PROVE  \E row \in [status : JobStatuses, total : Nat, processed : Nat, failed : Nat] :
           /\ jobRows' = [jobRows EXCEPT ![j] = row] /\ row.status = s
           /\ row.total = doing[j].total /\ row.processed = doing[j].processed
           /\ row.failed = doing[j].failed
<1>1. PICK V : doing \in [Actors -> WorkOf(V)] /\ doing[j] \in WorkOf(V)
  BY JobStands
<1>2. PICK t \in Nat, p \in Nat, f \in Nat :
         t = doing[j].total /\ p = doing[j].processed /\ f = doing[j].failed
  BY <1>1 DEF WorkOf
<1>3. PICK row : row = [status |-> s, total |-> t, processed |-> p, failed |-> f]
  OBVIOUS
<1>4. /\ row \in [status : JobStatuses, total : Nat, processed : Nat, failed : Nat]
      /\ row.status = s /\ row.total = t /\ row.processed = p /\ row.failed = f
  BY <1>3
<1>5. jobRows' = [jobRows EXCEPT ![j] = row]
  BY <1>2, <1>3 DEF CountersWritten
<1>. QED
  BY <1>2, <1>4, <1>5

\* The counts are written to the row of the job.
LEMMA Progresses ==
  ASSUME LayerInv, NEW j \in IngestJobs, Progress(j)
  PROVE  LayerInv'
<1>1. /\ doing[j].at = "progress" /\ UNCHANGED <<disk, images, jobFiles>> /\ (Fine \/ Failing)
  BY DEF Progress, storeVars
<1>2. /\ JobOK(doing[j], jobFiles[j], jobRows[j], Stored) /\ j \notin Keepers /\ j \in Actors
      /\ jobRows[j] \in [status : JobStatuses, total : Nat, processed : Nat, failed : Nat]
      /\ jobFiles' = [jobFiles EXCEPT ![j] = jobFiles[j]]
      /\ jobRows = [jobRows EXCEPT ![j] = jobRows[j]]
  BY <1>1, JobStands
<1>3. PICK V : doing \in [Actors -> WorkOf(V)] /\ doing[j] \in WorkOf(V)
  BY JobStands
<1>4. jobRows[j].status # "completed" /\ jobRows[j].status \in JobStatuses
  BY <1>1, <1>2 DEF JobOK, Ended
<1>5. CASE CountersWritten(j, jobRows[j].status)
  <2>1. PICK row \in [status : JobStatuses, total : Nat, processed : Nat, failed : Nat] :
           jobRows' = [jobRows EXCEPT ![j] = row] /\ row.status # "completed"
    BY <1>4, <1>5, CountersRow
  <2>2. CASE To(j, "next")
    <3>1. PICK u \in WorkOf(V \cup {"next"}) :
             Becomes(j, u) /\ u.at = "next" /\ AlikeBut(u, doing[j]) /\ u.failed = doing[j].failed
      BY <1>2, <1>3, <2>2, GoesTo
    <3>2. JobOK(u, jobFiles[j], row, Stored)
      BY <1>1, <1>2, <2>1, <3>1, JobCounts DEF AlikeBut
    <3>. QED
      BY <1>1, <1>2, <2>1, <3>1, <3>2, JobWrites
  <2>3. CASE To(j, "fail")
    <3>1. PICK u \in WorkOf(V \cup {"fail"}) : Becomes(j, u) /\ u.at = "fail" /\ AlikeBut(u, doing[j])
      BY <1>2, <1>3, <2>3, GoesTo
    <3>2. JobOK(u, jobFiles[j], jobRows[j], Stored)
      BY <1>1, <1>2, <3>1, JobIsOver DEF AlikeBut, Ended
    <3>3. JobOK(u, jobFiles[j], row, Stored)
      BY <2>1, <3>2, JobRowChanges
    <3>. QED
      BY <1>1, <1>2, <2>1, <3>1, <3>3, JobWrites
  <2>. QED
    BY <2>2, <2>3 DEF Progress
<1>6. CASE UNCHANGED jobRows /\ To(j, "fail")
  BY <1>1, <1>2, <1>6, ActorStops DEF Ended
<1>. QED
  BY <1>5, <1>6 DEF Progress

\* The job completes.
LEMMA Finishes ==
  ASSUME LayerInv, NEW j \in IngestJobs, Finish(j)
  PROVE  LayerInv'
<1>1. /\ doing[j].at = "finish" /\ UNCHANGED <<disk, images, jobFiles>> /\ (Fine \/ Failing)
  BY DEF Finish, storeVars
<1>2. /\ JobOK(doing[j], jobFiles[j], jobRows[j], Stored) /\ j \notin Keepers /\ j \in Actors
      /\ jobFiles' = [jobFiles EXCEPT ![j] = jobFiles[j]]
  BY <1>1, JobStands
<1>3. PICK V : doing \in [Actors -> WorkOf(V)] /\ doing[j] \in WorkOf(V)
  BY JobStands
<1>4. CASE CountersWritten(j, "completed")
  <2>1. PICK row \in [status : JobStatuses, total : Nat, processed : Nat, failed : Nat] :
           /\ jobRows' = [jobRows EXCEPT ![j] = row]
           /\ row.total = doing[j].total /\ row.processed = doing[j].processed
           /\ row.failed = doing[j].failed
    BY <1>4, CountersRow DEF JobStatuses
  <2>2. ASSUME NEW at \in {"done", "fail"}, To(j, at) PROVE LayerInv'
    <3>1. PICK u \in WorkOf(V \cup {at}) : Becomes(j, u) /\ u.at = at /\ AlikeBut(u, doing[j])
      BY <1>2, <1>3, <2>2, GoesTo
    <3>2. JobOK(u, jobFiles[j], row, Stored)
      BY <1>1, <1>2, <1>3, <2>1, <3>1, JobCompletes DEF AlikeBut
    <3>. QED
      BY <1>1, <1>2, <2>1, <3>1, <3>2, JobWrites
  <2>. QED
    BY <2>2 DEF Finish
<1>5. CASE UNCHANGED jobRows /\ To(j, "fail")
  BY <1>1, <1>2, <1>5, ActorStops DEF Ended
<1>. QED
  BY <1>4, <1>5 DEF Finish

\* The job is recorded as failed.
LEMMA FailsJob ==
  ASSUME LayerInv, NEW j \in IngestJobs, FailJob(j)
  PROVE  LayerInv'
<1>1. /\ doing[j].at = "fail" /\ UNCHANGED <<disk, images, jobFiles>> /\ (Fine \/ Failing)
  BY DEF FailJob, storeVars
<1>2. /\ JobOK(doing[j], jobFiles[j], jobRows[j], Stored) /\ j \notin Keepers /\ j \in Actors
      /\ jobRows[j] \in [status : JobStatuses, total : Nat, processed : Nat, failed : Nat]
      /\ jobFiles' = [jobFiles EXCEPT ![j] = jobFiles[j]]
  BY <1>1, JobStands
<1>3. PICK V : doing \in [Actors -> WorkOf(V)] /\ doing[j] \in WorkOf(V)
  BY JobStands
<1>4. PICK s \in JobStatuses : s = "failed"
  BY DEF JobStatuses
<1>5. PICK row : row = [jobRows[j] EXCEPT !.status = s]
  OBVIOUS
<1>6. /\ row \in [status : JobStatuses, total : Nat, processed : Nat, failed : Nat]
      /\ row.status # "completed"
  BY <1>2, <1>4, <1>5, StatusChanges
<1>7. PICK at \in {"done", "dead"} :
         To(j, at) /\ (jobRows' = [jobRows EXCEPT ![j].status = "failed"] \/ UNCHANGED jobRows)
  BY DEF FailJob
<1>8. CASE jobRows' = [jobRows EXCEPT ![j].status = "failed"]
  <2>1. jobRows' = [jobRows EXCEPT ![j] = row]
    BY <1>4, <1>5, <1>8
  <2>2. PICK u \in WorkOf(V \cup {at}) : Becomes(j, u) /\ u.at = at /\ AlikeBut(u, doing[j])
    BY <1>2, <1>3, <1>7, GoesTo
  <2>3. JobOK(u, jobFiles[j], jobRows[j], Stored)
    BY <1>1, <1>2, <2>2, JobIsOver DEF AlikeBut, Ended
  <2>4. JobOK(u, jobFiles[j], row, Stored)
    BY <1>6, <2>3, JobRowChanges
  <2>. QED
    BY <1>1, <1>2, <1>6, <2>1, <2>2, <2>4, JobWrites
<1>9. CASE UNCHANGED jobRows
  BY <1>1, <1>2, <1>7, <1>9, ActorStops DEF Ended
<1>. QED
  BY <1>7, <1>8, <1>9

\* The job is cancelled from outside.
LEMMA CancelsJob ==
  ASSUME LayerInv, NEW j \in IngestJobs, CancelIngestion(j)
  PROVE  LayerInv'
<1>1. UNCHANGED <<disk, images, jobFiles, doing>> /\ (Fine \/ Failing)
  BY DEF CancelIngestion, storeVars
<1>2. /\ JobOK(doing[j], jobFiles[j], jobRows[j], Stored) /\ j \notin Keepers /\ j \in Actors
      /\ jobRows[j] \in [status : JobStatuses, total : Nat, processed : Nat, failed : Nat]
      /\ jobFiles' = [jobFiles EXCEPT ![j] = jobFiles[j]]
  BY <1>1, JobStands
<1>3. PICK V : doing \in [Actors -> WorkOf(V)] /\ doing[j] \in WorkOf(V)
  BY JobStands
<1>4. PICK s \in JobStatuses : s = "cancelled"
  BY DEF JobStatuses
<1>5. PICK row : row = [jobRows[j] EXCEPT !.status = s]
  OBVIOUS
<1>6. /\ row \in [status : JobStatuses, total : Nat, processed : Nat, failed : Nat]
      /\ row.status # "completed"
  BY <1>2, <1>4, <1>5, StatusChanges
<1>7. jobRows' = [jobRows EXCEPT ![j] = row]
  BY <1>4, <1>5 DEF CancelIngestion
<1>8. PICK w \in WorkOf(V) : w = doing[j]
  BY <1>3
<1>9. Becomes(j, w)
  BY <1>1, <1>3, <1>8 DEF Becomes
<1>10. JobOK(w, jobFiles[j], row, Stored)
  BY <1>2, <1>6, <1>8, JobRowChanges
<1>. QED
  BY <1>1, <1>2, <1>6, <1>7, <1>9, <1>10, JobWrites

-----------------------------------------------------------------------------
(* The steps of one image.                                                 *)

\* A file that is refused fails its job's file, or its keeper's image.
LEMMA IsRefused ==
  ASSUME LayerInv, NEW a \in Actors, doing[a].at \in FileRead, Refused(a),
         UNCHANGED <<disk, images, jobRows, jobFiles>>, Fine \/ Failing
  PROVE  LayerInv'
<1>1. doing[a].at \in WithFile /\ doing[a].at \notin {"none", "dead"}
  BY DEF FileRead, WithFile
<1>2. CASE FileFails(a)
  BY <1>1, <1>2, FileIsFailed
<1>3. CASE To(a, "done")
  BY <1>1, <1>3, ActorStops DEF Ended
<1>. QED
  BY <1>2, <1>3 DEF Refused

\* The metadata is extracted, or the file is refused.
LEMMA Extracts ==
  ASSUME LayerInv, NEW a \in Actors, Extract(a)
  PROVE  LayerInv'
<1>1. /\ doing[a].at = "extract" /\ UNCHANGED <<disk, images, jobRows, jobFiles>> /\ (Fine \/ Failing)
  BY DEF Extract, storeVars, bookVars
<1>2. doing[a].at \in WithFile /\ doing[a].at \in FileRead
  BY <1>1 DEF FileRead, WithFile
<1>3. CASE Refused(a)
  BY <1>1, <1>2, <1>3, IsRefused
<1>4. CASE ~Refused(a)
  <2>9. PICK content : content = disk[doing[a].file]
    OBVIOUS
  <2>10. PICK at \in {"thumbnail", "persist"} :
            at = IF doing[a].kind = "reindex" \/ "thumbnails" \in doing[a].req
                 THEN "thumbnail" ELSE "persist"
    OBVIOUS
  <2>1. /\ content = disk[doing[a].file] /\ content # NoContent
        /\ Becomes(a, [doing[a] EXCEPT !.sha = content, !.at = at])
    BY <1>4, <2>9, <2>10 DEF Extract
  <2>2. PICK V : doing \in [Actors -> WorkOf(V)] /\ doing[a] \in WorkOf(V)
    BY ActorStands
  <2>3. PICK w \in WorkOf(V) : w = doing[a]
    BY <2>2
  <2>4. PICK u : u = [w EXCEPT !.sha = content, !.at = at]
    OBVIOUS
  <2>5. /\ u \in WorkOf(V \cup {at, content}) /\ u.at = at /\ u.sha = content /\ AlikeBut(u, w)
        /\ u.failed = w.failed
    BY <2>3, <2>4 DEF WorkOf, AlikeBut
  <2>6. Becomes(a, u)
    BY <2>1, <2>3, <2>4
  <2>7. a \in IngestJobs => JobOK(u, jobFiles[a], jobRows[a], Stored)
    <3>1. SUFFICES ASSUME a \in IngestJobs PROVE JobOK(u, jobFiles[a], jobRows[a], Stored)
      OBVIOUS
    <3>2. JobOK(w, jobFiles[a], jobRows[a], Stored)
      BY <2>3, <3>1, ActorStands
    <3>3. w.file \in FolderFiles
      <4>1. WalkOK(w, jobFiles[a]) /\ OnFile(w)
        BY <1>2, <2>3, <3>2 DEF JobOK, Walking, OnFile
      <4>. QED
        BY <4>1 DEF WalkOK, Tried
    <3>4. content \in Contents
      BY <2>1, <2>3, <3>3 DEF LayerInv, StoreTypes
    <3>5. ImageOK(u, Stored) /\ u.at \in WithFile
      BY <2>1, <2>5, <3>4 DEF ImageOK, Projecting, WithFile
    <3>. QED
      BY <1>2, <2>3, <2>5, <3>2, <3>5, JobGoesOn DEF AlikeBut
  <2>8. a \in Keepers => KeeperOK(u)
    <3>1. SUFFICES ASSUME a \in Keepers PROVE KeeperOK(u)
      OBVIOUS
    <3>2. KeeperOK(w) /\ w.at \in FileRead
      BY <1>2, <2>3, <3>1, ActorStands
    <3>3. content \in Contents
      BY <2>1, <2>3, <3>2 DEF KeeperOK, LayerInv, StoreTypes
    <3>. QED
      BY <2>1, <2>5, <3>2, <3>3 DEF KeeperOK, AlikeBut
  <2>. QED
    BY <1>1, <2>5, <2>6, <2>7, <2>8, ActorSteps
<1>. QED
  BY <1>3, <1>4

\* The thumbnail is made, or the file is refused.
LEMMA Thumbnails ==
  ASSUME LayerInv, NEW a \in Actors, Thumbnail(a)
  PROVE  LayerInv'
<1>1. /\ doing[a].at = "thumbnail" /\ UNCHANGED <<disk, images, jobRows, jobFiles>> /\ (Fine \/ Failing)
  BY DEF Thumbnail, storeVars, bookVars
<1>2. doing[a].at \in WithFile /\ doing[a].at \in FileRead
  BY <1>1 DEF FileRead, WithFile
<1>3. PICK V : doing \in [Actors -> WorkOf(V)] /\ doing[a] \in WorkOf(V)
  BY ActorStands
<1>4. PICK u \in WorkOf(V \cup {"persist"}) :
         /\ Becomes(a, u) /\ u.at = "persist" /\ AlikeBut(u, doing[a])
         /\ u.failed = doing[a].failed /\ u.sha = doing[a].sha
  <2>1. CASE To(a, "persist")
    BY <1>3, <2>1, GoesTo
  <2>2. CASE Becomes(a, [doing[a] EXCEPT !.at = "persist", !.thumb = TRUE])
    <3>1. PICK w \in WorkOf(V) : w = doing[a]
      BY <1>3
    <3>2. PICK at : at = "persist"
      OBVIOUS
    <3>3. PICK u : u = [w EXCEPT !.at = at, !.thumb = TRUE]
      OBVIOUS
    <3>4. /\ u \in WorkOf(V \cup {at}) /\ u.at = at /\ AlikeBut(u, w)
          /\ u.failed = w.failed /\ u.sha = w.sha
      BY <3>1, <3>3 DEF WorkOf, AlikeBut
    <3>5. Becomes(a, u)
      BY <2>2, <3>1, <3>2, <3>3
    <3>. QED
      BY <3>1, <3>2, <3>4, <3>5
  <2>. QED
    BY <2>1, <2>2 DEF Thumbnail
<1>5. a \in IngestJobs => JobOK(u, jobFiles[a], jobRows[a], Stored)
  <2>1. SUFFICES ASSUME a \in IngestJobs PROVE JobOK(u, jobFiles[a], jobRows[a], Stored)
    OBVIOUS
  <2>2. JobOK(doing[a], jobFiles[a], jobRows[a], Stored)
    BY <2>1, ActorStands
  <2>3. doing[a].sha \in Contents
    BY <1>1, <2>2 DEF JobOK, ImageOK
  <2>4. ImageOK(u, Stored) /\ u.at \in WithFile
    BY <1>4, <2>3 DEF ImageOK, Projecting, WithFile
  <2>. QED
    BY <1>2, <1>4, <2>2, <2>4, JobGoesOn DEF AlikeBut
<1>6. a \in Keepers => KeeperOK(u)
  <2>1. SUFFICES ASSUME a \in Keepers PROVE KeeperOK(u)
    OBVIOUS
  <2>2. KeeperOK(doing[a])
    BY <2>1, ActorStands
  <2>. QED
    BY <1>1, <1>2, <1>4, <2>2 DEF KeeperOK, AlikeBut
<1>. QED
  BY <1>1, <1>4, <1>5, <1>6, ActorSteps

\* Where a job goes when an image is projected.
LEMMA JobPlaces ==
  ASSUME NEW w, w.kind = "ingest"
  PROVE  /\ AfterEnrich(w) = "record" /\ AfterGraph(w) \in {"enrich", "record"}
         /\ AfterVector(w) \in {"graph", "enrich", "record"}
         /\ AfterPersist(w) \in {"ensure", "graph", "enrich", "record"}
         /\ Unindexed(w) \in {"graph", "enrich", "record"}
BY DEF AfterEnrich, AfterGraph, AfterVector, AfterPersist, Unindexed

\* Where an image goes after each projection.
LEMMA KeeperPlaces ==
  ASSUME NEW w
  PROVE  {AfterEnrich(w), AfterGraph(w), AfterVector(w), AfterPersist(w), Unindexed(w)}
           \subseteq {"done", "record", "each", "enrich", "graph", "ensure"}
BY DEF AfterEnrich, AfterGraph, AfterVector, AfterPersist, Unindexed

\* The image goes on.
LEMMA ImageIsProjected ==
  ASSUME LayerInv, NEW a \in Actors, doing[a].at \in Projecting, NEW W, NEW u \in WorkOf(W),
         Becomes(a, u), AlikeBut(u, doing[a]), u.failed = doing[a].failed, u.image = doing[a].image,
         u.at \notin FileRead \cup {"clear"}, a \in IngestJobs => u.at \in Projecting \cup {"record"},
         UNCHANGED <<disk, images, jobRows, jobFiles>>, Fine \/ Failing
  PROVE  LayerInv'
<1>1. a \in IngestJobs => JobOK(u, jobFiles[a], jobRows[a], Stored)
  <2>1. SUFFICES ASSUME a \in IngestJobs PROVE JobOK(u, jobFiles[a], jobRows[a], Stored)
    OBVIOUS
  <2>2. JobOK(doing[a], jobFiles[a], jobRows[a], Stored)
    BY <2>1, ActorStands
  <2>3. doing[a].image \in Stored
    BY <2>2 DEF JobOK, ImageOK
  <2>4. u.at \in WithFile /\ doing[a].at \in WithFile
    BY <2>1 DEF WithFile
  <2>5. ImageOK(u, Stored)
    BY <2>1, <2>3 DEF ImageOK, Projecting
  <2>. QED
    BY <2>2, <2>4, <2>5, JobGoesOn DEF AlikeBut
<1>2. a \in Keepers => KeeperOK(u)
  BY ActorStands DEF KeeperOK, AlikeBut, FileRead
<1>. QED
  BY <1>1, <1>2, ActorSteps

\* An image that goes on to its next projection.
LEMMA ImageGoesTo ==
  ASSUME LayerInv, NEW a \in Actors, doing[a].at \in Projecting, NEW at, To(a, at),
         at \notin FileRead \cup {"clear"}, a \in IngestJobs => at \in Projecting \cup {"record"},
         UNCHANGED <<disk, images, jobRows, jobFiles>>, Fine \/ Failing
  PROVE  LayerInv'
<1>1. PICK V : doing \in [Actors -> WorkOf(V)] /\ doing[a] \in WorkOf(V)
  BY ActorStands
<1>2. PICK u \in WorkOf(V \cup {at}) :
         /\ Becomes(a, u) /\ u.at = at /\ AlikeBut(u, doing[a])
         /\ u.failed = doing[a].failed /\ u.image = doing[a].image
  BY <1>1, GoesTo
<1>. QED
  BY <1>2, ImageIsProjected

\* A job that projects has an image, and is a job.
LEMMA JobHasImage ==
  ASSUME LayerInv, NEW a \in IngestJobs, doing[a].at \in Projecting
  PROVE  doing[a].kind = "ingest" /\ doing[a].image \in Stored /\ doing[a].image # NoImage
<1>1. JobOK(doing[a], jobFiles[a], jobRows[a], Stored)
  BY JobStands
<1>2. doing[a].at \notin {"none", "dead"}
  BY DEF Projecting
<1>. QED
  BY <1>1, <1>2, IngestAssumption DEF JobOK, ImageOK, Stored, NoImage

\* The collection is known to be ready, or is to be looked for.
LEMMA EnsuresCollection ==
  ASSUME LayerInv, NEW a \in Actors, EnsureCollection(a)
  PROVE  LayerInv'
<1>1. /\ doing[a].at = "ensure" /\ UNCHANGED <<disk, images, jobRows, jobFiles>> /\ (Fine \/ Failing)
  BY DEF EnsureCollection, storeVars, bookVars
<1>2. doing[a].at \in Projecting
  BY <1>1 DEF Projecting
<1>3. ASSUME a \in IngestJobs
      PROVE  AfterEnsure(doing[a]) = "embed" /\ NotEnsured(doing[a]) \in {"graph", "enrich", "record"}
  BY <1>2, <1>3, JobHasImage, JobPlaces DEF AfterEnsure, NotEnsured
<1>4. /\ AfterEnsure(doing[a]) \in {"each", "embed"}
      /\ NotEnsured(doing[a]) \in {"done", "record", "each", "enrich", "graph", "ensure"}
  BY KeeperPlaces DEF AfterEnsure, NotEnsured
<1>5. CASE To(a, NotEnsured(doing[a]))
  BY <1>1, <1>2, <1>3, <1>4, <1>5, ImageGoesTo DEF FileRead, Projecting
<1>6. CASE ~To(a, NotEnsured(doing[a]))
  <2>1. PICK at, path :
           /\ Becomes(a, [doing[a] EXCEPT !.at = at, !.path = path])
           /\ at \in {AfterEnsure(doing[a]), "mark", "create"}
    BY <1>6 DEF EnsureCollection
  <2>2. PICK V : doing \in [Actors -> WorkOf(V)] /\ doing[a] \in WorkOf(V)
    BY ActorStands
  <2>3. PICK w \in WorkOf(V) : w = doing[a]
    BY <2>2
  <2>4. PICK u : u = [w EXCEPT !.at = at, !.path = path]
    OBVIOUS
  <2>5. /\ u \in WorkOf(V \cup {at, path}) /\ u.at = at /\ AlikeBut(u, w)
        /\ u.failed = w.failed /\ u.image = w.image
    BY <2>3, <2>4 DEF WorkOf, AlikeBut
  <2>6. Becomes(a, u)
    BY <2>1, <2>3, <2>4
  <2>. QED
    BY <1>1, <1>2, <1>3, <1>4, <2>1, <2>3, <2>5, <2>6, ImageIsProjected DEF FileRead, Projecting
<1>. QED
  BY <1>5, <1>6

\* The collection is created, or is there.
LEMMA CreatesCollection ==
  ASSUME LayerInv, NEW a \in Actors, CreateCollection(a)
  PROVE  LayerInv'
<1>1. /\ doing[a].at = "create" /\ UNCHANGED <<disk, images, jobRows, jobFiles>> /\ (Fine \/ Failing)
  BY DEF CreateCollection, storeVars, bookVars
<1>2. doing[a].at \in Projecting
  BY <1>1 DEF Projecting
<1>3. ASSUME a \in IngestJobs
      PROVE  NotEnsured(doing[a]) \in {"graph", "enrich", "record"}
  BY <1>2, <1>3, JobHasImage, JobPlaces DEF NotEnsured
<1>4. NotEnsured(doing[a]) \in {"done", "record", "each", "enrich", "graph", "ensure"}
  BY KeeperPlaces DEF NotEnsured
<1>5. CASE To(a, NotEnsured(doing[a]))
  BY <1>1, <1>2, <1>3, <1>4, <1>5, ImageGoesTo DEF FileRead, Projecting
<1>6. CASE To(a, "mark")
  BY <1>1, <1>2, <1>6, ImageGoesTo DEF FileRead, Projecting
<1>. QED
  BY <1>5, <1>6 DEF CreateCollection

\* The collection is remembered as ready.
LEMMA MarksReady ==
  ASSUME LayerInv, NEW a \in Actors, MarkReady(a)
  PROVE  LayerInv'
<1>1. /\ doing[a].at = "mark" /\ UNCHANGED <<disk, images, jobRows, jobFiles>> /\ (Fine \/ Failing)
      /\ To(a, AfterEnsure(doing[a]))
  BY DEF MarkReady, storeVars, bookVars, ingestBounds, Fine
<1>2. doing[a].at \in Projecting
  BY <1>1 DEF Projecting
<1>3. a \in IngestJobs => AfterEnsure(doing[a]) = "embed"
  BY <1>2, JobHasImage DEF AfterEnsure
<1>4. AfterEnsure(doing[a]) \in {"each", "embed"}
  BY DEF AfterEnsure
<1>. QED
  BY <1>1, <1>2, <1>3, <1>4, ImageGoesTo DEF FileRead, Projecting

\* The image is embedded, or is left unindexed.
LEMMA Embeds ==
  ASSUME LayerInv, NEW a \in Actors, Embed(a)
  PROVE  LayerInv'
<1>1. /\ doing[a].at = "embed" /\ UNCHANGED <<disk, images, jobRows, jobFiles>>
  BY DEF Embed, storeVars, bookVars
<1>2. doing[a].at \in Projecting
  BY <1>1 DEF Projecting
<1>3. Fine \/ Failing
  BY DEF Embed
<1>4. CASE To(a, Unindexed(doing[a]))
  <2>1. a \in IngestJobs => Unindexed(doing[a]) \in {"graph", "enrich", "record"}
    BY <1>2, JobHasImage, JobPlaces
  <2>2. Unindexed(doing[a]) \in {"done", "record", "each", "enrich", "graph", "ensure"}
    BY KeeperPlaces
  <2>. QED
    BY <1>1, <1>2, <1>3, <1>4, <2>1, <2>2, ImageGoesTo DEF FileRead, Projecting
<1>5. CASE ~To(a, Unindexed(doing[a]))
  <2>1. PICK v : Becomes(a, [doing[a] EXCEPT !.at = "point", !.vector = v])
    BY <1>5 DEF Embed
  <2>2. PICK V : doing \in [Actors -> WorkOf(V)] /\ doing[a] \in WorkOf(V)
    BY ActorStands
  <2>3. PICK w \in WorkOf(V) : w = doing[a]
    BY <2>2
  <2>4. PICK at : at = "point"
    OBVIOUS
  <2>5. PICK u : u = [w EXCEPT !.at = at, !.vector = v]
    OBVIOUS
  <2>6. /\ u \in WorkOf(V \cup {at, v}) /\ u.at = at /\ AlikeBut(u, w)
        /\ u.failed = w.failed /\ u.image = w.image
    BY <2>3, <2>5 DEF WorkOf, AlikeBut
  <2>7. Becomes(a, u)
    BY <2>1, <2>3, <2>4, <2>5
  <2>. QED
    BY <1>1, <1>2, <1>3, <2>3, <2>4, <2>6, <2>7, ImageIsProjected DEF FileRead, Projecting
<1>. QED
  BY <1>4, <1>5

\* The point of the image is upserted, or fails.
LEMMA UpsertsPoint ==
  ASSUME LayerInv, NEW a \in Actors, UpsertPoint(a)
  PROVE  LayerInv'
<1>1. /\ doing[a].at = "point" /\ UNCHANGED <<disk, images, jobRows, jobFiles>> /\ (Fine \/ Failing)
  BY DEF UpsertPoint, storeVars, bookVars
<1>2. doing[a].at \in Projecting
  BY <1>1 DEF Projecting
<1>3. PICK at \in {Unindexed(doing[a]), AfterVector(doing[a])} : To(a, at)
  BY DEF UpsertPoint
<1>4. a \in IngestJobs => at \in {"graph", "enrich", "record"}
  BY <1>2, <1>3, JobHasImage, JobPlaces
<1>5. at \in {"done", "record", "each", "enrich", "graph", "ensure"}
  BY <1>3, KeeperPlaces
<1>. QED
  BY <1>1, <1>2, <1>3, <1>4, <1>5, ImageGoesTo DEF FileRead, Projecting

\* The node of the image is merged, or fails.
LEMMA SyncsGraph ==
  ASSUME LayerInv, NEW a \in Actors, SyncGraph(a)
  PROVE  LayerInv'
<1>1. /\ doing[a].at = "graph" /\ UNCHANGED <<disk, images, jobRows, jobFiles>> /\ (Fine \/ Failing)
  BY DEF SyncGraph, bookVars
<1>2. doing[a].at \in Projecting
  BY <1>1 DEF Projecting
<1>3. PICK at : To(a, at) /\ (at = AfterGraph(doing[a]) \/ (doing[a].kind = "graph" /\ at = "done"))
  BY DEF SyncGraph
<1>4. a \in IngestJobs => at \in {"enrich", "record"}
  BY <1>2, <1>3, JobHasImage, JobPlaces
<1>5. at \in {"done", "record", "each", "enrich", "graph", "ensure"}
  BY <1>3, KeeperPlaces
<1>. QED
  BY <1>1, <1>2, <1>3, <1>4, <1>5, ImageGoesTo DEF FileRead, Projecting

\* The image is enriched, or fails.
LEMMA Enriches ==
  ASSUME LayerInv, NEW a \in Actors, Enrich(a)
  PROVE  LayerInv'
<1>1. /\ doing[a].at = "enrich" /\ UNCHANGED <<disk, images, jobRows, jobFiles>> /\ (Fine \/ Failing)
      /\ To(a, AfterEnrich(doing[a]))
  BY DEF Enrich, bookVars
<1>2. doing[a].at \in Projecting
  BY <1>1 DEF Projecting
<1>3. a \in IngestJobs => AfterEnrich(doing[a]) = "record"
  BY <1>2, JobHasImage, JobPlaces
<1>4. AfterEnrich(doing[a]) \in {"done", "record", "each", "enrich", "graph", "ensure"}
  BY KeeperPlaces
<1>. QED
  BY <1>1, <1>2, <1>3, <1>4, ImageGoesTo DEF FileRead, Projecting

\* The row of an image, whoever writes it.
LEMMA RowIsStored ==
  ASSUME LayerInv, NEW w, w.sha \in Contents, w.file \in FolderFiles, w.thumb \in BOOLEAN,
         StoreRow(w), UNCHANGED <<disk, jobRows, jobFiles>>, Fine \/ Failing
  PROVE  StoreTypes' /\ Stored \subseteq Stored' /\ w.sha \in Stored'
<1>1. images \in [Contents -> [path : FolderFiles \cup {NoContent}, thumb : BOOLEAN]]
  BY DEF LayerInv, StoreTypes
<1>2. PICK t \in BOOLEAN : t = (images[w.sha].thumb \/ w.thumb)
  OBVIOUS
<1>3. PICK r : r = [path |-> w.file, thumb |-> t]
  OBVIOUS
<1>4. images' = [images EXCEPT ![w.sha] = r]
  BY <1>2, <1>3 DEF StoreRow
<1>5. /\ r \in [path : FolderFiles \cup {NoContent}, thumb : BOOLEAN]
      /\ r.path = w.file /\ r # NoImageRow
  BY <1>3, IngestAssumption DEF NoImageRow
<1>6. images' \in [Contents -> [path : FolderFiles \cup {NoContent}, thumb : BOOLEAN]]
  BY <1>1, <1>4, <1>5
<1>7. images'[w.sha] = r /\ \A c \in Contents : c # w.sha => images'[c] = images[c]
  BY <1>1, <1>4
<1>8. Stored' = Stored \cup {w.sha}
  BY <1>5, <1>7 DEF Stored, NoImageRow
<1>9. \A c \in Stored' : images'[c].path \in FolderFiles
  BY <1>5, <1>7, <1>8 DEF LayerInv, StoreTypes, Stored
<1>10. ingestFaults' \in Nat
  BY FaultsAreCounted DEF LayerInv, StoreTypes
<1>. QED
  BY <1>6, <1>8, <1>9, <1>10 DEF LayerInv, StoreTypes

\* The row of the image is written, or that fails.
LEMMA PersistsImage ==
  ASSUME LayerInv, NEW a \in Actors, PersistImage(a)
  PROVE  LayerInv'
<1>1. doing[a].at = "persist" /\ UNCHANGED <<disk, jobRows, jobFiles>> /\ (Fine \/ Failing)
  BY DEF PersistImage, bookVars
<1>2. doing[a].at \in WithFile /\ doing[a].at \in FileRead
  BY <1>1 DEF FileRead, WithFile
<1>3. PICK V : doing \in [Actors -> WorkOf(V)] /\ doing[a] \in WorkOf(V)
  BY ActorStands
<1>4. PICK w \in WorkOf(V) : w = doing[a]
  BY <1>3
<1>5. /\ a \in IngestJobs => JobOK(w, jobFiles[a], jobRows[a], Stored)
      /\ a \in Keepers => KeeperOK(w)
  BY <1>4, ActorStands
<1>6. w.sha \in Contents /\ w.file \in FolderFiles
  <2>1. CASE a \in IngestJobs
    <3>1. WalkOK(w, jobFiles[a]) /\ OnFile(w)
      BY <1>2, <1>4, <1>5, <2>1 DEF JobOK, Walking, OnFile
    <3>. QED
      BY <1>1, <1>4, <1>5, <2>1, <3>1 DEF WalkOK, Tried, JobOK, ImageOK
  <2>2. CASE a \in Keepers
    BY <1>1, <1>2, <1>4, <1>5, <2>2 DEF KeeperOK
  <2>. QED
    BY <2>1, <2>2 DEF Actors
<1>7. w.thumb \in BOOLEAN
  BY DEF WorkOf
<1>8. CASE Refused(a) /\ UNCHANGED images
  BY <1>1, <1>2, <1>8, IsRefused
<1>9. CASE Refused(a) /\ StoreRow(w)
  <2>1. StoreTypes' /\ Stored \subseteq Stored'
    BY <1>1, <1>6, <1>7, <1>9, RowIsStored
  <2>2. CASE FileFails(a)
    <3>1. PICK u \in WorkOf(V \cup {"recordFailed"}) :
             Becomes(a, u) /\ u.at = "recordFailed" /\ AlikeBut(u, doing[a]) /\ u.failed = doing[a].failed + 1
      BY <1>3, <2>2, FailsFile
    <3>2. a \in IngestJobs => JobOK(u, jobFiles[a], jobRows[a], Stored)
      BY <1>2, <1>4, <1>5, <3>1, JobFileFails DEF AlikeBut
    <3>3. a \in IngestJobs => JobOK(u, jobFiles'[a], jobRows'[a], Stored')
      BY <1>1, <2>1, <3>2, JobStays
    <3>4. a \in Keepers => KeeperOK(u)
      BY <1>4, <1>5, <3>1 DEF KeeperOK, AlikeBut, FileRead
    <3>. QED
      BY <1>1, <1>3, <2>1, <3>1, <3>3, <3>4, ActorMoves DEF Becomes
  <2>3. CASE To(a, "done")
    <3>1. PICK u \in WorkOf(V \cup {"done"}) : Becomes(a, u) /\ u.at = "done" /\ AlikeBut(u, doing[a])
      BY <1>3, <2>3, GoesTo
    <3>2. a \in IngestJobs => JobOK(u, jobFiles[a], jobRows[a], Stored)
      BY <1>1, <1>4, <1>5, <3>1, JobIsOver DEF AlikeBut, Ended
    <3>3. a \in IngestJobs => JobOK(u, jobFiles'[a], jobRows'[a], Stored')
      BY <1>1, <2>1, <3>2, JobStays
    <3>4. a \in Keepers => KeeperOK(u)
      BY <1>4, <1>5, <3>1 DEF KeeperOK, AlikeBut, FileRead
    <3>. QED
      BY <1>1, <1>3, <2>1, <3>1, <3>3, <3>4, ActorMoves DEF Becomes
  <2>. QED
    BY <1>9, <2>2, <2>3 DEF Refused
<1>10. CASE ~Refused(a)
  <2>1. PICK image : image = (IF w.kind = "ingest" THEN w.sha ELSE w.image)
    OBVIOUS
  <2>2. PICK at : at = AfterPersist(w)
    OBVIOUS
  <2>3. PICK u : u = [w EXCEPT !.image = image, !.at = at]
    OBVIOUS
  <2>4. /\ u \in WorkOf(V \cup {at, image}) /\ u.at = at /\ AlikeBut(u, w) /\ u.failed = w.failed
        /\ u.image = image
    BY <1>4, <2>3 DEF WorkOf, AlikeBut
  <2>5. Becomes(a, u) /\ StoreRow(w)
    BY <1>4, <1>10, <2>1, <2>2, <2>3 DEF PersistImage
  <2>6. StoreTypes' /\ Stored \subseteq Stored' /\ w.sha \in Stored'
    BY <1>1, <1>6, <1>7, <2>5, RowIsStored
  <2>7. a \in IngestJobs => JobOK(u, jobFiles'[a], jobRows'[a], Stored')
    <3>1. SUFFICES ASSUME a \in IngestJobs PROVE JobOK(u, jobFiles[a], jobRows[a], Stored')
      BY <1>1
    <3>2. w.kind = "ingest"
      BY <1>1, <1>4, <1>5, <3>1 DEF JobOK
    <3>3. at \in {"ensure", "graph", "enrich", "record"} /\ image = w.sha
      BY <2>1, <2>2, <3>2, JobPlaces
    <3>4. ImageOK(u, Stored') /\ u.at \in WithFile
      BY <2>4, <2>6, <3>3 DEF ImageOK, Projecting, WithFile
    <3>. QED
      BY <1>2, <1>4, <1>5, <2>4, <2>6, <3>1, <3>4, JobGoesOn DEF AlikeBut
  <2>8. a \in Keepers => KeeperOK(u)
    <3>1. at \in {"done", "record", "each", "enrich", "graph", "ensure"}
      BY <2>2, KeeperPlaces
    <3>. QED
      BY <1>5, <2>4, <3>1 DEF KeeperOK, AlikeBut, FileRead
  <2>. QED
    BY <1>1, <1>3, <1>4, <2>4, <2>5, <2>6, <2>7, <2>8, ActorMoves DEF Becomes
<1>. QED
  BY <1>4, <1>8, <1>9, <1>10 DEF PersistImage

-----------------------------------------------------------------------------
(* Re-index and rebuilds; the files, the process.                          *)

\* A keeper that stays a keeper leaves the jobs as they were.
LEMMA KeeperSteps ==
  ASSUME LayerInv, NEW k \in Keepers, NEW W, NEW u \in WorkOf(W), Becomes(k, u), KeeperOK(u),
         UNCHANGED <<disk, images, jobRows, jobFiles>>, Fine \/ Failing
  PROVE  LayerInv'
<1>1. k \in Actors /\ k \notin IngestJobs
  BY IngestAssumption DEF Actors
<1>. QED
  BY <1>1, ActorSteps

\* A keeper that goes to another place.
LEMMA KeeperGoesTo ==
  ASSUME LayerInv, NEW k \in Keepers, NEW at, To(k, at), at \notin FileRead \cup {"clear"},
         UNCHANGED <<disk, images, jobRows, jobFiles>>, Fine \/ Failing
  PROVE  LayerInv'
<1>1. k \in Actors
  BY DEF Actors
<1>2. PICK V : doing \in [Actors -> WorkOf(V)] /\ doing[k] \in WorkOf(V)
  BY <1>1, ActorStands
<1>3. PICK u \in WorkOf(V \cup {at}) : Becomes(k, u) /\ u.at = at /\ AlikeBut(u, doing[k])
  BY <1>1, <1>2, GoesTo
<1>4. KeeperOK(u)
  BY <1>1, <1>3, ActorStands DEF KeeperOK, AlikeBut, FileRead
<1>. QED
  BY <1>3, <1>4, KeeperSteps

\* A reindex of one image begins.
LEMMA StartsReindex ==
  ASSUME LayerInv, NEW k \in Keepers, Reindex(k)
  PROVE  LayerInv'
<1>1. UNCHANGED <<disk, images, jobRows, jobFiles>> /\ (Fine \/ Failing)
  BY DEF Reindex, Keep, storeVars, bookVars, Fine
<1>2. PICK w \in WorkOf({NoContent, "none"}) : w = NoWork
  BY NoWorkIsWork
<1>3. PICK c \in Stored, req \in IngestRequests :
        LET v == [NoWork EXCEPT !.kind = "reindex", !.req = req, !.image = c,
                                !.file = images[c].path, !.thumb = images[c].thumb]
        IN  Keep(k, [v EXCEPT !.at = IF "metadata" \in req THEN "extract" ELSE AfterPersist(v)])
  BY DEF Reindex
<1>4. PICK kind, file, thumb : kind = "reindex" /\ file = images[c].path /\ thumb = images[c].thumb
  OBVIOUS
<1>5. PICK v : v = [w EXCEPT !.kind = kind, !.req = req, !.image = c, !.file = file, !.thumb = thumb]
  OBVIOUS
<1>6. PICK at : at = IF "metadata" \in req THEN "extract" ELSE AfterPersist(v)
  OBVIOUS
<1>7. PICK u : u = [v EXCEPT !.at = at]
  OBVIOUS
<1>14. thumb \in BOOLEAN
  BY <1>3, <1>4 DEF LayerInv, StoreTypes, Stored
<1>8. v \in WorkOf({NoContent, "none", kind, c, file}) /\ v.kind = kind /\ v.req = req /\ v.file = file
  BY <1>2, <1>5, <1>14, IngestAssumption DEF WorkOf
<1>9. /\ u \in WorkOf({NoContent, "none", kind, c, file, at})
      /\ u.at = at /\ u.kind = kind /\ u.file = file
  BY <1>7, <1>8 DEF WorkOf
<1>10. Becomes(k, u)
  BY <1>2, <1>3, <1>4, <1>5, <1>6, <1>7 DEF Keep
<1>11. file \in FolderFiles
  BY <1>4 DEF LayerInv, StoreTypes
<1>12. at \in {"extract", "done", "record", "each", "enrich", "graph", "ensure"}
  BY <1>6, KeeperPlaces
<1>13. KeeperOK(u)
  BY <1>4, <1>9, <1>11, <1>12 DEF KeeperOK, FileRead
<1>. QED
  BY <1>1, <1>9, <1>10, <1>13, KeeperSteps

\* A rebuild of the graph or of the collection begins.
LEMMA StartsRebuild ==
  ASSUME LayerInv, NEW k \in Keepers, RebuildGraph(k) \/ RebuildQdrant(k)
  PROVE  LayerInv'
<1>1. UNCHANGED <<disk, images, jobRows, jobFiles>> /\ (Fine \/ Failing)
  BY DEF RebuildGraph, RebuildQdrant, Keep, storeVars, bookVars, Fine
<1>2. PICK w \in WorkOf({NoContent, "none"}) : w = NoWork
  BY NoWorkIsWork
<1>3. CASE RebuildGraph(k)
  <2>1. PICK at, kind : at = "clear" /\ kind = "graph"
    OBVIOUS
  <2>2. PICK req \in SUBSET IngestOptions : req = {"graph"}
    BY DEF IngestOptions
  <2>3. PICK u : u = [w EXCEPT !.at = at, !.kind = kind, !.req = req]
    OBVIOUS
  <2>4. u \in WorkOf({NoContent, "none", kind, at}) /\ u.at = at /\ u.kind = kind /\ u.req = req
    BY <1>2, <2>3 DEF WorkOf
  <2>5. Becomes(k, u)
    BY <1>2, <1>3, <2>1, <2>2, <2>3 DEF RebuildGraph, Keep
  <2>6. KeeperOK(u)
    BY <2>1, <2>2, <2>4 DEF KeeperOK, FileRead
  <2>. QED
    BY <1>1, <2>4, <2>5, <2>6, KeeperSteps
<1>4. CASE RebuildQdrant(k)
  <2>1. PICK at, kind : at = "drop" /\ kind = "qdrant"
    OBVIOUS
  <2>2. PICK req \in SUBSET IngestOptions : req = {"qdrant"}
    BY DEF IngestOptions
  <2>3. PICK all : all = Stored
    OBVIOUS
  <2>4. PICK u : u = [w EXCEPT !.at = at, !.kind = kind, !.req = req, !.todo = all]
    OBVIOUS
  <2>5. u \in WorkOf({NoContent, "none", kind, at} \cup all) /\ u.at = at /\ u.kind = kind
    BY <1>2, <2>4 DEF WorkOf
  <2>6. Becomes(k, u)
    BY <1>2, <1>4, <2>1, <2>2, <2>3, <2>4 DEF RebuildQdrant, Keep
  <2>7. KeeperOK(u)
    BY <2>1, <2>5 DEF KeeperOK, FileRead
  <2>. QED
    BY <1>1, <2>5, <2>6, <2>7, KeeperSteps
<1>. QED
  BY <1>3, <1>4

AlikeButTodo(u, w) == u.kind = w.kind /\ u.req = w.req /\ u.file = w.file

\* A keeper that takes its list, or one image of it.
LEMMA KeeperTurns ==
  ASSUME LayerInv, NEW k \in Keepers, NEW at, NEW todo, at \notin FileRead \cup {"clear"},
         Becomes(k, [doing[k] EXCEPT !.at = at, !.todo = todo]),
         UNCHANGED <<disk, images, jobRows, jobFiles>>, Fine \/ Failing
  PROVE  LayerInv'
<1>1. k \in Actors
  BY DEF Actors
<1>2. PICK V : doing \in [Actors -> WorkOf(V)] /\ doing[k] \in WorkOf(V)
  BY <1>1, ActorStands
<1>3. PICK w \in WorkOf(V) : w = doing[k]
  BY <1>2
<1>4. PICK u : u = [w EXCEPT !.at = at, !.todo = todo]
  OBVIOUS
<1>5. u \in WorkOf(V \cup {at} \cup todo) /\ u.at = at /\ AlikeButTodo(u, w)
  BY <1>3, <1>4 DEF WorkOf, AlikeButTodo
<1>6. Becomes(k, u)
  BY <1>3, <1>4
<1>7. KeeperOK(u)
  BY <1>1, <1>3, <1>5, ActorStands DEF KeeperOK, FileRead, AlikeButTodo
<1>. QED
  BY <1>5, <1>6, <1>7, KeeperSteps

\* The graph is cleared, the images are listed.
LEMMA ClearsOrLists ==
  ASSUME LayerInv, NEW k \in Keepers, ClearGraph(k) \/ ListImages(k)
  PROVE  LayerInv'
<1>1. UNCHANGED <<disk, images, jobRows, jobFiles>> /\ (Fine \/ Failing)
  BY DEF ClearGraph, ListImages, storeVars, bookVars
<1>2. CASE To(k, "done")
  BY <1>1, <1>2, KeeperGoesTo DEF FileRead
<1>3. CASE ClearGraph(k) /\ ~To(k, "done")
  <2>1. PICK at, todo : at = "list" /\ todo = {}
    OBVIOUS
  <2>2. Becomes(k, [doing[k] EXCEPT !.at = at, !.todo = todo])
    BY <1>3, <2>1 DEF ClearGraph
  <2>3. at \notin FileRead \cup {"clear"}
    BY <2>1 DEF FileRead
  <2>. QED
    BY <1>1, <2>2, <2>3, KeeperTurns
<1>4. CASE ListImages(k) /\ ~To(k, "done")
  <2>1. PICK at, todo : at = "each" /\ todo = Stored
    OBVIOUS
  <2>2. Becomes(k, [doing[k] EXCEPT !.at = at, !.todo = todo])
    BY <1>4, <2>1 DEF ListImages
  <2>3. at \notin FileRead \cup {"clear"}
    BY <2>1 DEF FileRead
  <2>. QED
    BY <1>1, <2>2, <2>3, KeeperTurns
<1>. QED
  BY <1>2, <1>3, <1>4

\* The collection is dropped.
LEMMA Drops ==
  ASSUME LayerInv, NEW k \in Keepers, DropCollection(k)
  PROVE  LayerInv'
<1>1. UNCHANGED <<disk, images, jobRows, jobFiles>> /\ (Fine \/ Failing) /\ To(k, "reset")
  BY DEF DropCollection, storeVars, bookVars
<1>. QED
  BY <1>1, KeeperGoesTo DEF FileRead

\* The collection is forgotten to be ready.
LEMMA Resets ==
  ASSUME LayerInv, NEW k \in Keepers, ResetReady(k)
  PROVE  LayerInv'
<1>1. /\ UNCHANGED <<disk, images, jobRows, jobFiles>> /\ (Fine \/ Failing)
      /\ Becomes(k, [doing[k] EXCEPT !.at = "ensure", !.image = NoImage])
  BY DEF ResetReady, storeVars, bookVars, ingestBounds, Fine
<1>2. k \in Actors
  BY DEF Actors
<1>3. PICK V : doing \in [Actors -> WorkOf(V)] /\ doing[k] \in WorkOf(V)
  BY <1>2, ActorStands
<1>4. PICK w \in WorkOf(V) : w = doing[k]
  BY <1>3
<1>5. PICK at, none : at = "ensure" /\ none = NoImage
  OBVIOUS
<1>6. PICK u : u = [w EXCEPT !.at = at, !.image = none]
  OBVIOUS
<1>7. u \in WorkOf(V \cup {at, none}) /\ u.at = at /\ AlikeButTodo(u, w)
  BY <1>4, <1>6 DEF WorkOf, AlikeButTodo
<1>8. Becomes(k, u)
  BY <1>1, <1>4, <1>5, <1>6
<1>9. KeeperOK(u)
  BY <1>2, <1>4, <1>5, <1>7, ActorStands DEF KeeperOK, FileRead, AlikeButTodo
<1>. QED
  BY <1>1, <1>7, <1>8, <1>9, KeeperSteps

\* The next image of a rebuild is taken, or there is none.
LEMMA TakesEach ==
  ASSUME LayerInv, NEW k \in Keepers, EachImage(k)
  PROVE  LayerInv'
<1>1. UNCHANGED <<disk, images, jobRows, jobFiles>> /\ (Fine \/ Failing)
  BY DEF EachImage, storeVars, bookVars, ingestBounds, Fine
<1>2. CASE To(k, "done")
  BY <1>1, <1>2, KeeperGoesTo DEF FileRead
<1>3. CASE ~To(k, "done")
  <2>1. PICK c \in doing[k].todo :
            Becomes(k, [doing[k] EXCEPT !.image = c, !.todo = doing[k].todo \ {c},
                                        !.at = AfterPersist(doing[k])])
    BY <1>3 DEF EachImage
  <2>2. k \in Actors
    BY DEF Actors
  <2>3. PICK V : doing \in [Actors -> WorkOf(V)] /\ doing[k] \in WorkOf(V)
    BY <2>2, ActorStands
  <2>4. PICK w \in WorkOf(V) : w = doing[k]
    BY <2>3
  <2>5. PICK at, left : at = AfterPersist(w) /\ left = w.todo \ {c}
    OBVIOUS
  <2>6. PICK u : u = [w EXCEPT !.image = c, !.todo = left, !.at = at]
    OBVIOUS
  <2>7. u \in WorkOf(V \cup {at, c} \cup left) /\ u.at = at /\ AlikeButTodo(u, w)
    BY <2>4, <2>6 DEF WorkOf, AlikeButTodo
  <2>8. Becomes(k, u)
    BY <2>1, <2>4, <2>5, <2>6
  <2>9. at \in {"done", "record", "each", "enrich", "graph", "ensure"}
    BY <2>5, KeeperPlaces
  <2>10. KeeperOK(u)
    BY <2>2, <2>4, <2>7, <2>9, ActorStands DEF KeeperOK, FileRead, AlikeButTodo
  <2>. QED
    BY <1>1, <2>7, <2>8, <2>10, KeeperSteps
<1>. QED
  BY <1>2, <1>3

\* Files that change under a job change nothing it has counted.
LEMMA FilesChange == LayerInv /\ EditFile => LayerInv'
<1>. SUFFICES ASSUME LayerInv, EditFile PROVE LayerInv'
  OBVIOUS
<1>1. UNCHANGED <<images, jobRows, jobFiles, doing, ingestFaults>>
  BY DEF EditFile, storeVars, bookVars
<1>2. disk' \in [FolderFiles -> Contents \cup {NoContent}]
  BY DEF EditFile, LayerInv, StoreTypes
<1>3. Stored' = Stored
  BY <1>1 DEF Stored, NoImageRow
<1>4. StoreTypes'
  BY <1>1, <1>2, <1>3 DEF LayerInv, StoreTypes
<1>. QED
  BY <1>1, <1>3, <1>4 DEF LayerInv, WorkTypes, JobsOK, KeepersOK

\* The server dies and every job and keeper with it: the rows stay.
LEMMA ServerGoesDown == LayerInv /\ ServerDies => LayerInv'
<1>. SUFFICES ASSUME LayerInv, ServerDies PROVE LayerInv'
  OBVIOUS
<1>1. UNCHANGED <<disk, images, jobRows, jobFiles>> /\ (Fine \/ Failing)
  BY DEF ServerDies, storeVars, bookVars
<1>2. StoreTypes' /\ Stored' = Stored
  BY <1>1, StoreFrame, FaultsAreCounted DEF LayerInv, StoreTypes
<1>3. PICK V : doing \in [Actors -> WorkOf(V)]
  BY DEF LayerInv, WorkTypes
<1>4. PICK at : at = "dead"
  OBVIOUS
<1>5. ASSUME NEW a \in Actors
      PROVE  /\ doing'[a] \in WorkOf(V \cup {at})
             /\ doing'[a] = doing[a] \/ (doing'[a].at = "dead" /\ doing'[a].kind = doing[a].kind
                                         /\ doing'[a].listed = doing[a].listed
                                         /\ doing'[a].req = doing[a].req)
  <2>1. PICK w \in WorkOf(V) : w = doing[a]
    BY <1>3
  <2>2. PICK u : u = [w EXCEPT !.at = at]
    OBVIOUS
  <2>3. /\ u \in WorkOf(V \cup {at}) /\ u.at = at /\ u.kind = w.kind /\ u.listed = w.listed
        /\ u.req = w.req
    BY <2>1, <2>2 DEF WorkOf
  <2>4. w \in WorkOf(V \cup {at})
    BY DEF WorkOf
  <2>5. doing'[a] = u \/ doing'[a] = w
    BY <1>4, <2>1, <2>2 DEF ServerDies
  <2>. QED
    BY <1>4, <2>1, <2>3, <2>4, <2>5
<1>6. doing' \in [Actors -> WorkOf(V \cup {at})]
  BY <1>5 DEF ServerDies
<1>7. ASSUME NEW j \in IngestJobs PROVE JobOK(doing'[j], jobFiles[j], jobRows[j], Stored)
  BY <1>5, JobStands, JobIsOver DEF Ended
<1>8. ASSUME NEW k \in Keepers PROVE KeeperOK(doing'[k])
  <2>1. k \in Actors
    BY DEF Actors
  <2>2. KeeperOK(doing[k])
    BY <2>1, ActorStands
  <2>. QED
    BY <1>5, <2>1, <2>2 DEF KeeperOK, FileRead
<1>. QED
  BY <1>1, <1>2, <1>6, <1>7, <1>8 DEF LayerInv, WorkTypes, JobsOK, KeepersOK

\* Every step of the ingestion service keeps the invariant.
LEMMA LayerMoves == LayerInv /\ [ServiceNext]_serviceVars => LayerInv'
<1>. SUFFICES ASSUME LayerInv, [ServiceNext]_serviceVars PROVE LayerInv'
  OBVIOUS
<1>1. ASSUME NEW j \in IngestJobs, JobNext(j) PROVE LayerInv'
  BY <1>1, StartsJob, StatsFolder, OpensFolder, TakesFile, HashesFile, LooksUp, RecordsFile,
     RecordsFailedFile, Progresses, Finishes, FailsJob, CancelsJob DEF JobNext
<1>2. ASSUME NEW a \in Actors, ImageNext(a) PROVE LayerInv'
  BY <1>2, Extracts, Thumbnails, PersistsImage, EnsuresCollection, CreatesCollection, MarksReady,
     Embeds, UpsertsPoint, SyncsGraph, Enriches DEF ImageNext
<1>3. ASSUME NEW k \in Keepers, KeeperNext(k) PROVE LayerInv'
  BY <1>3, StartsReindex, StartsRebuild, ClearsOrLists, Drops, Resets, TakesEach DEF KeeperNext
<1>4. CASE UNCHANGED serviceVars
  <2>1. UNCHANGED <<disk, images, jobRows, jobFiles, doing, ingestFaults>>
    BY <1>4 DEF serviceVars, storeVars, bookVars, ingestBounds
  <2>2. StoreTypes' /\ Stored' = Stored
    BY <2>1, StoreFrame DEF LayerInv, StoreTypes
  <2>. QED
    BY <2>1, <2>2 DEF LayerInv, WorkTypes, JobsOK, KeepersOK
<1>. QED
  BY <1>1, <1>2, <1>3, <1>4, FilesChange, ServerGoesDown DEF ServiceNext

\* A job that completed has every file recorded, and counts of them.
LEMMA RowsTellTheFiles == LayerInv => FilesAreAccounted /\ CountsAreOfRows
BY DEF LayerInv, JobsOK, JobOK, SettledAs, FailedOf, FilesAreAccounted, CountsAreOfRows

-----------------------------------------------------------------------------
(* The nodes of what the jobs indexed, as long as nothing fails.           *)

\* A rebuild of the graph that goes on brings the node back.
Restoring(c) ==
    \/ c \in nodes
    \/ \E k \in Keepers :
         /\ doing[k].kind = "graph"
         /\ \/ doing[k].at = "list"
            \/ doing[k].at \in {"each", "graph"} /\ c \in doing[k].todo
            \/ doing[k].at = "graph" /\ c = doing[k].image

HasGraph(w) == w.at \in {"enrich", "record"}
JobNodes(w, files) ==
    "graph" \in w.req =>
      /\ \A r \in files : r.status = "indexed" => Restoring(r.image)
      /\ HasGraph(w) => w.image = NoImage \/ Restoring(w.image)
GraphOK == \A j \in IngestJobs : JobNodes(doing[j], jobFiles[j])

\* An actor that becomes another leaves everyone else.
LEMMA Becoming ==
  ASSUME LayerInv, NEW a \in Actors, NEW u, Becomes(a, u)
  PROVE  doing'[a] = u /\ \A b \in Actors : b # a => doing'[b] = doing[b]
BY DEF LayerInv, WorkTypes, Becomes

\* A move of a job, or of what rebuilds no graph, takes no node back.
LEMMA NodesStay ==
  ASSUME LayerInv, NEW a \in Actors, NEW u, Becomes(a, u), nodes \subseteq nodes',
         a \in IngestJobs \/ doing[a].kind # "graph" \/ doing[a].at \notin {"list", "each", "graph"},
         NEW c, Restoring(c)
  PROVE  Restoring(c)'
<1>1. CASE c \in nodes
  BY <1>1 DEF Restoring
<1>2. CASE c \notin nodes
  <2>1. PICK k \in Keepers :
         /\ doing[k].kind = "graph"
         /\ \/ doing[k].at = "list"
            \/ doing[k].at \in {"each", "graph"} /\ c \in doing[k].todo
            \/ doing[k].at = "graph" /\ c = doing[k].image
    BY <1>2 DEF Restoring
  <2>2. k # a /\ k \in Actors
    BY <2>1, IngestAssumption DEF Actors
  <2>3. doing'[k] = doing[k]
    BY <2>2, Becoming
  <2>. QED
    BY <2>1, <2>3 DEF Restoring
<1>. QED
  BY <1>1, <1>2

\* The jobs that do not move.
LEMMA GraphKept ==
  ASSUME LayerInv, GraphOK, NEW a \in Actors, NEW u, Becomes(a, u),
         \A c \in Stored : Restoring(c) => Restoring(c)',
         \A j \in IngestJobs : j # a => jobFiles'[j] = jobFiles[j],
         a \in IngestJobs => JobNodes(doing[a], jobFiles[a])'
  PROVE  GraphOK'
<1>. SUFFICES ASSUME NEW j \in IngestJobs, j # a PROVE JobNodes(doing[j], jobFiles[j])'
  BY DEF GraphOK
<1>2. doing'[j] = doing[j] /\ jobFiles'[j] = jobFiles[j]
  BY Becoming DEF Actors
<1>3. JobOK(doing[j], jobFiles[j], jobRows[j], Stored) /\ JobNodes(doing[j], jobFiles[j])
  BY JobStands DEF GraphOK
<1>4. ASSUME NEW r \in jobFiles[j], r.status = "indexed", "graph" \in doing[j].req PROVE Restoring(r.image)'
  <2>1. r.image \in Stored /\ Restoring(r.image)
    BY <1>3, <1>4 DEF JobOK, JobNodes
  <2>2. PICK c \in Stored : c = r.image
    BY <2>1
  <2>3. Restoring(c)
    BY <2>1, <2>2
  <2>4. Restoring(c)'
    BY <2>3
  <2>. QED
    BY <2>2, <2>4 DEF Restoring
<1>5. ASSUME HasGraph(doing[j]), doing[j].image # NoImage, "graph" \in doing[j].req
      PROVE  Restoring(doing[j].image)'
  <2>1. doing[j].image \in Stored
    BY <1>3, <1>5 DEF JobOK, ImageOK, HasGraph, Projecting
  <2>2. PICK c \in Stored : c = doing[j].image
    BY <2>1
  <2>3. Restoring(c)
    BY <1>3, <1>5, <2>2 DEF JobNodes
  <2>4. Restoring(c)'
    BY <2>3
  <2>. QED
    BY <1>2, <2>2, <2>4 DEF Restoring
<1>. QED
  BY <1>2, <1>4, <1>5 DEF JobNodes, HasGraph, Restoring

\* A job that writes no row of a file.
LEMMA QuietMove ==
  ASSUME LayerInv, GraphOK, NEW j \in IngestJobs, NEW u, Becomes(j, u), UNCHANGED jobFiles,
         nodes \subseteq nodes', u.req = doing[j].req,
         "graph" \in u.req /\ HasGraph(u) =>
           u.image = NoImage \/ u.image \in nodes' \/ (HasGraph(doing[j]) /\ u.image = doing[j].image)
  PROVE  GraphOK'
<1>1. j \in Actors
  BY DEF Actors
<1>2. doing'[j] = u
  BY <1>1, Becoming
<1>3. ASSUME NEW c, Restoring(c) PROVE Restoring(c)'
  BY <1>1, <1>3, NodesStay
<1>4. JobNodes(doing[j], jobFiles[j])
  BY DEF GraphOK
<1>5. ASSUME NEW r \in jobFiles[j], r.status = "indexed", "graph" \in u.req PROVE Restoring(r.image)'
  <2>1. PICK c : c = r.image
    OBVIOUS
  <2>2. Restoring(c)'
    BY <1>3, <1>4, <1>5, <2>1 DEF JobNodes
  <2>. QED
    BY <2>1, <2>2 DEF Restoring
<1>6. ASSUME "graph" \in u.req, HasGraph(u), u.image # NoImage PROVE Restoring(u.image)'
  <2>1. CASE u.image \in nodes'
    BY <2>1 DEF Restoring
  <2>2. CASE HasGraph(doing[j]) /\ u.image = doing[j].image
    <3>1. PICK c : c = u.image
      OBVIOUS
    <3>2. Restoring(c)'
      BY <1>3, <1>4, <1>6, <2>2, <3>1 DEF JobNodes
    <3>. QED
      BY <3>1, <3>2 DEF Restoring
  <2>. QED
    BY <1>6, <2>1, <2>2
<1>7. JobNodes(doing[j], jobFiles[j])'
  BY <1>2, <1>5, <1>6 DEF JobNodes, HasGraph, Restoring
<1>. QED
  BY <1>1, <1>3, <1>7, GraphKept

\* A job that goes elsewhere.
LEMMA QuietlyTo ==
  ASSUME LayerInv, GraphOK, NEW j \in IngestJobs, NEW at, To(j, at), UNCHANGED jobFiles,
         nodes \subseteq nodes',
         at \in {"enrich", "record"} =>
           \/ "graph" \notin doing[j].req
           \/ doing[j].image = NoImage \/ doing[j].image \in nodes' \/ HasGraph(doing[j])
  PROVE  GraphOK'
<1>1. j \in Actors
  BY DEF Actors
<1>2. PICK V : doing \in [Actors -> WorkOf(V)] /\ doing[j] \in WorkOf(V)
  BY JobStands
<1>3. PICK u \in WorkOf(V \cup {at}) :
         /\ Becomes(j, u) /\ u.at = at /\ AlikeBut(u, doing[j])
         /\ u.failed = doing[j].failed /\ u.sha = doing[j].sha /\ u.image = doing[j].image
  BY <1>1, <1>2, GoesTo
<1>. QED
  BY <1>3, QuietMove DEF AlikeBut, HasGraph

\* A file that fails takes no node away.
LEMMA QuietlyFails ==
  ASSUME LayerInv, GraphOK, NEW j \in IngestJobs, FileFails(j), UNCHANGED <<jobFiles, nodes>>
  PROVE  GraphOK'
<1>1. j \in Actors
  BY DEF Actors
<1>2. PICK V : doing \in [Actors -> WorkOf(V)] /\ doing[j] \in WorkOf(V)
  BY JobStands
<1>3. PICK u \in WorkOf(V \cup {"recordFailed"}) :
           /\ Becomes(j, u) /\ u.at = "recordFailed" /\ AlikeBut(u, doing[j])
           /\ u.failed = doing[j].failed + 1
  BY <1>1, <1>2, FailsFile
<1>. QED
  BY <1>3, QuietMove DEF AlikeBut, HasGraph

\* The moves of a job between its files.
LEMMA QuietJobs ==
  ASSUME LayerInv, GraphOK, NEW j \in IngestJobs, ~Failing,
         StatFolder(j) \/ LookUp(j) \/ Progress(j) \/ Finish(j) \/ FailJob(j) \/ Enrich(j)
  PROVE  GraphOK'
<1>1. UNCHANGED <<jobFiles, nodes>>
  BY DEF StatFolder, LookUp, Progress, Finish, FailJob, Enrich, storeVars, bookVars
<1>2. CASE StatFolder(j)
  BY <1>1, <1>2, QuietlyTo DEF StatFolder
<1>3. CASE LookUp(j)
  <2>1. doing[j].image = NoImage
    BY <1>3, JobStands DEF JobOK, ImageOK, LookUp
  <2>. QED
    BY <1>1, <1>3, <2>1, QuietlyTo DEF LookUp
<1>4. CASE Progress(j)
  BY <1>1, <1>4, QuietlyTo DEF Progress
<1>5. CASE Finish(j)
  BY <1>1, <1>5, QuietlyTo DEF Finish
<1>6. CASE FailJob(j)
  BY <1>1, <1>6, QuietlyTo DEF FailJob
<1>7. CASE Enrich(j)
  BY <1>1, <1>7, QuietlyTo DEF Enrich, HasGraph
<1>. QED
  BY <1>2, <1>3, <1>4, <1>5, <1>6, <1>7

\* The moves of a job that read a folder or a file.
LEMMA QuietReads ==
  ASSUME LayerInv, GraphOK, NEW j \in IngestJobs, ~Failing,
         OpenFolder(j) \/ NextFile(j) \/ HashFile(j) \/ Extract(j) \/ Thumbnail(j)
  PROVE  GraphOK'
<1>1. UNCHANGED <<jobFiles, nodes>>
  BY DEF OpenFolder, NextFile, HashFile, Extract, Thumbnail, storeVars, bookVars
<1>2. PICK V : doing \in [Actors -> WorkOf(V)] /\ doing[j] \in WorkOf(V)
  BY JobStands
<1>3. PICK w \in WorkOf(V) : w = doing[j]
  BY <1>2
<1>4. CASE OpenFolder(j)
  <2>1. PICK fs : Becomes(j, [doing[j] EXCEPT !.at = "next", !.listed = fs, !.todo = fs])
    BY <1>4 DEF OpenFolder
  <2>2. PICK u : u = [w EXCEPT !.at = "next", !.listed = fs, !.todo = fs]
    OBVIOUS
  <2>3. u.req = w.req /\ u.at = "next"
    BY <2>2 DEF WorkOf
  <2>. QED
    BY <1>1, <1>3, <2>1, <2>2, <2>3, QuietMove DEF HasGraph
<1>5. CASE NextFile(j)
  <2>1. CASE To(j, "finish")
    BY <1>1, <2>1, QuietlyTo
  <2>2. CASE ~To(j, "finish")
    <3>1. PICK f, left, n :
            Becomes(j, [doing[j] EXCEPT
                         !.at = "hash", !.file = f, !.todo = left,
                         !.total = n, !.thumb = FALSE, !.sha = NoImage,
                         !.image = NoImage, !.path = NoContent, !.vector = NoContent])
      BY <1>5, <2>2 DEF NextFile
    <3>2. PICK u : u = [w EXCEPT
                         !.at = "hash", !.file = f, !.todo = left,
                         !.total = n, !.thumb = FALSE, !.sha = NoImage,
                         !.image = NoImage, !.path = NoContent, !.vector = NoContent]
      OBVIOUS
    <3>3. u.req = w.req /\ u.at = "hash"
      BY <3>2 DEF WorkOf
    <3>. QED
      BY <1>1, <1>3, <3>1, <3>2, <3>3, QuietMove DEF HasGraph
  <2>. QED
    BY <2>1, <2>2
<1>6. CASE HashFile(j)
  <2>1. CASE FileFails(j)
    BY <1>1, <2>1, QuietlyFails
  <2>2. CASE ~FileFails(j)
    <3>1. PICK content : Becomes(j, [doing[j] EXCEPT !.at = "lookup", !.sha = content])
      BY <1>6, <2>2 DEF HashFile
    <3>2. PICK u : u = [w EXCEPT !.at = "lookup", !.sha = content]
      OBVIOUS
    <3>3. u.req = w.req /\ u.at = "lookup"
      BY <3>2 DEF WorkOf
    <3>. QED
      BY <1>1, <1>3, <3>1, <3>2, <3>3, QuietMove DEF HasGraph
  <2>. QED
    BY <2>1, <2>2
<1>7. CASE Extract(j)
  <2>1. CASE Refused(j)
    BY <1>1, <2>1, QuietlyFails, QuietlyTo DEF Refused
  <2>2. CASE ~Refused(j)
    <3>1. PICK content : content = disk[doing[j].file]
      OBVIOUS
    <3>2. PICK at \in {"thumbnail", "persist"} :
            at = IF doing[j].kind = "reindex" \/ "thumbnails" \in doing[j].req
                 THEN "thumbnail" ELSE "persist"
      OBVIOUS
    <3>3. Becomes(j, [doing[j] EXCEPT !.sha = content, !.at = at])
      BY <1>7, <2>2, <3>1, <3>2 DEF Extract
    <3>4. PICK u : u = [w EXCEPT !.sha = content, !.at = at]
      OBVIOUS
    <3>5. u.req = w.req /\ u.at = at
      BY <3>4 DEF WorkOf
    <3>. QED
      BY <1>1, <1>3, <3>2, <3>3, <3>4, <3>5, QuietMove DEF HasGraph
  <2>. QED
    BY <2>1, <2>2
<1>8. CASE Thumbnail(j)
  <2>1. CASE To(j, "persist")
    BY <1>1, <2>1, QuietlyTo
  <2>2. CASE ~To(j, "persist")
    <3>1. Becomes(j, [doing[j] EXCEPT !.at = "persist", !.thumb = TRUE])
      BY <1>8, <2>2 DEF Thumbnail
    <3>2. PICK u : u = [w EXCEPT !.at = "persist", !.thumb = TRUE]
      OBVIOUS
    <3>3. u.req = w.req /\ u.at = "persist"
      BY <3>2 DEF WorkOf
    <3>. QED
      BY <1>1, <1>3, <3>1, <3>2, <3>3, QuietMove DEF HasGraph
  <2>. QED
    BY <2>1, <2>2
<1>. QED
  BY <1>4, <1>5, <1>6, <1>7, <1>8

\* A job projects its image: with the graph on, the node comes before the row.
LEMMA GraphPlaces ==
  ASSUME NEW w, "graph" \in w.req
  PROVE  AfterVector(w) = "graph" /\ Unindexed(w) = "graph" /\ AfterPersist(w) \in {"ensure", "graph"}
BY DEF AfterVector, Unindexed, AfterPersist

\* No projection of an ingestion takes a node away.
LEMMA QuietProjections ==
  ASSUME LayerInv, GraphOK, NEW j \in IngestJobs, ~Failing,
         \/ PersistImage(j) \/ EnsureCollection(j) \/ CreateCollection(j) \/ MarkReady(j)
         \/ Embed(j) \/ UpsertPoint(j) \/ SyncGraph(j)
  PROVE  GraphOK'
<1>1. PICK V : doing \in [Actors -> WorkOf(V)] /\ doing[j] \in WorkOf(V)
  BY JobStands
<1>2. PICK w \in WorkOf(V) : w = doing[j]
  BY <1>1
<1>3. CASE PersistImage(j)
  <2>1. UNCHANGED <<jobFiles, nodes>>
    BY <1>3 DEF PersistImage, bookVars
  <2>2. PICK image : image = (IF doing[j].kind = "ingest" THEN doing[j].sha ELSE doing[j].image)
    OBVIOUS
  <2>3. PICK at : at = AfterPersist(doing[j])
    OBVIOUS
  <2>4. Becomes(j, [doing[j] EXCEPT !.image = image, !.at = at])
    BY <1>3, <2>2, <2>3 DEF PersistImage
  <2>5. PICK u : u = [w EXCEPT !.image = image, !.at = at]
    OBVIOUS
  <2>6. u.req = w.req /\ u.at = at
    BY <2>5 DEF WorkOf
  <2>7. "graph" \in u.req => at \in {"ensure", "graph"}
    BY <1>2, <2>3, <2>6, GraphPlaces
  <2>. QED
    BY <1>2, <2>1, <2>4, <2>5, <2>6, <2>7, QuietMove DEF HasGraph
<1>4. ASSUME NEW at, To(j, at), UNCHANGED <<jobFiles, nodes>>, doing[j].at \in Projecting,
             at \in {AfterVector(doing[j]), Unindexed(doing[j]), NotEnsured(doing[j]),
                     AfterEnsure(doing[j]), "mark", "create"}
      PROVE  GraphOK'
  <2>1. "graph" \in doing[j].req => at \notin {"enrich", "record"}
    BY <1>4, GraphPlaces DEF NotEnsured, AfterEnsure
  <2>. QED
    BY <1>4, <2>1, QuietlyTo
<1>5. CASE EnsureCollection(j)
  <2>1. PICK at, path : /\ Becomes(j, [doing[j] EXCEPT !.at = at, !.path = path])
                        /\ at \in {AfterEnsure(doing[j]), "mark", "create"}
    BY <1>5 DEF EnsureCollection
  <2>2. PICK u : u = [w EXCEPT !.at = at, !.path = path]
    OBVIOUS
  <2>3. u.req = w.req /\ u.at = at
    BY <2>2 DEF WorkOf
  <2>4. at \notin {"enrich", "record"} /\ UNCHANGED <<jobFiles, nodes>>
    BY <1>5, <2>1 DEF AfterEnsure, EnsureCollection, storeVars, bookVars
  <2>. QED
    BY <1>2, <2>1, <2>2, <2>3, <2>4, QuietMove DEF HasGraph
<1>6. CASE CreateCollection(j)
  BY <1>4, <1>6 DEF CreateCollection, storeVars, bookVars, Projecting
<1>7. CASE MarkReady(j)
  BY <1>4, <1>7 DEF MarkReady, storeVars, bookVars, Projecting
<1>8. CASE Embed(j)
  <2>1. UNCHANGED <<jobFiles, nodes>> /\ doing[j].at \in Projecting
    BY <1>8 DEF Embed, storeVars, bookVars, Projecting
  <2>2. CASE To(j, Unindexed(doing[j]))
    BY <1>4, <2>1, <2>2
  <2>3. CASE ~To(j, Unindexed(doing[j]))
    <3>1. PICK v : Becomes(j, [doing[j] EXCEPT !.at = "point", !.vector = v])
      BY <1>8, <2>3 DEF Embed
    <3>2. PICK u : u = [w EXCEPT !.at = "point", !.vector = v]
      OBVIOUS
    <3>3. u.req = w.req /\ u.at = "point"
      BY <3>2 DEF WorkOf
    <3>. QED
      BY <1>2, <2>1, <3>1, <3>2, <3>3, QuietMove DEF HasGraph
  <2>. QED
    BY <2>2, <2>3
<1>9. CASE UpsertPoint(j)
  <2>1. UNCHANGED <<jobFiles, nodes>> /\ doing[j].at \in Projecting
    BY <1>9 DEF UpsertPoint, storeVars, bookVars, Projecting
  <2>2. To(j, AfterVector(doing[j])) \/ To(j, Unindexed(doing[j]))
    BY <1>9 DEF UpsertPoint
  <2>. QED
    BY <1>4, <2>1, <2>2
<1>10. CASE SyncGraph(j)
  <2>1. UNCHANGED jobFiles /\ nodes' = nodes \cup {doing[j].image} /\ To(j, AfterGraph(doing[j]))
    BY <1>10 DEF SyncGraph, bookVars
  <2>. QED
    BY <2>1, QuietlyTo
<1>. QED
  BY <1>3, <1>5, <1>6, <1>7, <1>8, <1>9, <1>10

\* A job writes the row of a file: of an image with its node, or of a failure.
LEMMA RowsWithNodes ==
  ASSUME LayerInv, GraphOK, NEW j \in IngestJobs, ~Failing, RecordFile(j) \/ RecordFailedFile(j)
  PROVE  GraphOK'
<1>1. PICK V : doing \in [Actors -> WorkOf(V)] /\ doing[j] \in WorkOf(V)
  BY JobStands
<1>2. PICK w \in WorkOf(V) : w = doing[j]
  BY <1>1
<1>3. UNCHANGED nodes /\ j \in Actors
  BY DEF RecordFile, RecordFailedFile, storeVars, Actors
<1>4. PICK u, r :
         /\ Becomes(j, u) /\ u.req = w.req /\ u.at \in {"next", "progress"}
         /\ jobFiles' = [jobFiles EXCEPT ![j] = jobFiles[j] \cup {r}]
         /\ r.status = "indexed" => HasGraph(w) /\ w.image # NoImage /\ r.image = w.image
  <2>1. CASE RecordFile(j)
    <3>1. PICK at : at = AfterRecord(doing[j])
      OBVIOUS
    <3>2. PICK n : n = doing[j].processed + 1
      OBVIOUS
    <3>3. PICK u : u = [w EXCEPT !.at = at, !.processed = n]
      OBVIOUS
    <3>4. u.req = w.req /\ u.at = at
      BY <3>3 DEF WorkOf
    <3>5. at \in {"next", "progress"}
      BY <3>1 DEF AfterRecord
    <3>6. Becomes(j, u)
      BY <1>2, <2>1, <3>1, <3>2, <3>3 DEF RecordFile
    <3>7. PICK r : r = FileRow(w.file, Outcome(w))
      OBVIOUS
    <3>8. jobFiles' = [jobFiles EXCEPT ![j] = jobFiles[j] \cup {r}]
      BY <1>2, <2>1, <3>7 DEF RecordFile, AddRow
    <3>9. r.status = "indexed" => w.image # NoImage /\ r.image = w.image
      BY <3>7 DEF FileRow, Outcome
    <3>10. HasGraph(w)
      BY <1>2, <2>1 DEF HasGraph, RecordFile
    <3>. QED
      BY <3>4, <3>5, <3>6, <3>8, <3>9, <3>10
  <2>2. CASE RecordFailedFile(j)
    <3>1. PICK at \in {"next", "progress"} : at = AfterRecord(doing[j])
      BY DEF AfterRecord
    <3>2. To(j, at)
      BY <2>2, <3>1 DEF RecordFailedFile
    <3>3. PICK u \in WorkOf(V \cup {at}) : Becomes(j, u) /\ u.at = at /\ AlikeBut(u, doing[j])
      BY <1>1, <1>3, <3>2, GoesTo
    <3>4. PICK r : r = FileRow(w.file, NoOutcome)
      OBVIOUS
    <3>5. jobFiles' = [jobFiles EXCEPT ![j] = jobFiles[j] \cup {r}]
      BY <1>2, <2>2, <3>4 DEF RecordFailedFile, AddRow
    <3>6. r.status # "indexed"
      BY <3>4 DEF FileRow, NoOutcome
    <3>. QED
      BY <1>2, <3>1, <3>3, <3>5, <3>6 DEF AlikeBut
  <2>. QED
    BY <2>1, <2>2
<1>5. jobFiles'[j] = jobFiles[j] \cup {r} /\ \A i \in IngestJobs : i # j => jobFiles'[i] = jobFiles[i]
  BY <1>4 DEF LayerInv, StoreTypes
<1>6. doing'[j] = u
  BY <1>3, <1>4, Becoming
<1>7. ASSUME NEW c, Restoring(c) PROVE Restoring(c)'
  BY <1>3, <1>4, <1>7, NodesStay
<1>8. JobNodes(w, jobFiles[j])
  BY <1>2 DEF GraphOK
<1>9. ASSUME NEW q \in jobFiles[j] \cup {r}, q.status = "indexed", "graph" \in w.req
      PROVE  Restoring(q.image)'
  <2>1. PICK c : c = q.image
    OBVIOUS
  <2>2. Restoring(c)
    BY <1>4, <1>8, <1>9, <2>1 DEF JobNodes
  <2>3. Restoring(c)'
    BY <1>7, <2>2
  <2>. QED
    BY <2>1, <2>3 DEF Restoring
<1>10. JobNodes(doing[j], jobFiles[j])'
  BY <1>4, <1>5, <1>6, <1>9 DEF JobNodes, HasGraph, Restoring
<1>. QED
  BY <1>3, <1>4, <1>5, <1>7, <1>10, GraphKept

\* A job that begins has recorded nothing yet.
LEMMA QuietStart ==
  ASSUME LayerInv, GraphOK, NEW j \in IngestJobs, ~Failing, StartIngestion(j)
  PROVE  GraphOK'
<1>1. PICK req \in IngestRequests :
         Becomes(j, [NoWork EXCEPT !.at = "stat", !.kind = "ingest", !.req = req])
  BY DEF StartIngestion
<1>2. PICK u : u = [NoWork EXCEPT !.at = "stat", !.kind = "ingest", !.req = req]
  OBVIOUS
<1>3. u.at = "stat" /\ Becomes(j, u)
  BY <1>1, <1>2 DEF NoWork
<1>4. UNCHANGED <<jobFiles, nodes>> /\ j \in Actors
  BY DEF StartIngestion, storeVars, Actors
<1>5. jobFiles[j] = {}
  BY JobStands DEF JobOK, StartIngestion
<1>6. doing'[j] = u
  BY <1>3, <1>4, Becoming
<1>7. JobNodes(doing[j], jobFiles[j])'
  BY <1>3, <1>4, <1>5, <1>6 DEF JobNodes, HasGraph
<1>8. \A c \in Stored : Restoring(c) => Restoring(c)'
  BY <1>3, <1>4, NodesStay
<1>. QED
  BY <1>3, <1>4, <1>7, <1>8, GraphKept

\* A rebuild moves.
LEMMA RebuildMoves ==
  ASSUME LayerInv, GraphOK, NEW k \in Keepers, NEW u, Becomes(k, u), UNCHANGED jobFiles,
         \A c \in Stored : Restoring(c) => Restoring(c)'
  PROVE  GraphOK'
<1>1. k \in Actors /\ k \notin IngestJobs
  BY IngestAssumption DEF Actors
<1>. QED
  BY <1>1, GraphKept

\* A keeper that does not rebuild the graph takes no node away.
LEMMA OtherKeepers ==
  ASSUME LayerInv, GraphOK, NEW k \in Keepers, NEW u, Becomes(k, u), UNCHANGED jobFiles,
         nodes \subseteq nodes',
         doing[k].kind # "graph" \/ doing[k].at \notin {"list", "each", "graph"}
  PROVE  GraphOK'
<1>1. k \in Actors
  BY DEF Actors
<1>2. \A c \in Stored : Restoring(c) => Restoring(c)'
  BY <1>1, NodesStay
<1>. QED
  BY <1>2, RebuildMoves

\* What the keeper was on goes on to be restored by it.
LEMMA StillRestored ==
  ASSUME LayerInv, NEW k \in Keepers, NEW u, Becomes(k, u), nodes \subseteq nodes', doing[k].kind = "graph",
         NEW c, Restoring(c),
         \/ c \in nodes'
         \/ u.kind = "graph" /\ u.at \in {"each", "graph"} /\ c \in u.todo
         \/ u.kind = "graph" /\ u.at = "graph" /\ c = u.image
         \/ ~(\/ doing[k].at = "list"
              \/ doing[k].at \in {"each", "graph"} /\ c \in doing[k].todo
              \/ doing[k].at = "graph" /\ c = doing[k].image)
  PROVE  Restoring(c)'
<1>1. k \in Actors
  BY DEF Actors
<1>2. doing'[k] = u /\ \A b \in Keepers : b # k => doing'[b] = doing[b]
  BY <1>1, Becoming DEF Actors
<1>3. CASE c \in nodes'
  BY <1>3 DEF Restoring
<1>4. CASE \/ u.kind = "graph" /\ u.at \in {"each", "graph"} /\ c \in u.todo
           \/ u.kind = "graph" /\ u.at = "graph" /\ c = u.image
  BY <1>2, <1>4 DEF Restoring
<1>5. CASE ~(\/ doing[k].at = "list"
             \/ doing[k].at \in {"each", "graph"} /\ c \in doing[k].todo
             \/ doing[k].at = "graph" /\ c = doing[k].image)
  <2>1. CASE c \in nodes
    BY <2>1 DEF Restoring
  <2>2. CASE c \notin nodes
    <3>1. PICK b \in Keepers :
         /\ doing[b].kind = "graph"
         /\ \/ doing[b].at = "list"
            \/ doing[b].at \in {"each", "graph"} /\ c \in doing[b].todo
            \/ doing[b].at = "graph" /\ c = doing[b].image
      BY <2>2 DEF Restoring
    <3>2. doing'[b] = doing[b]
      BY <1>2, <1>5, <3>1
    <3>. QED
      BY <3>1, <3>2 DEF Restoring
  <2>. QED
    BY <2>1, <2>2
<1>. QED
  BY <1>3, <1>4, <1>5

\* The steps of a keeper outside the graph take no node away.
LEMMA KeepersElsewhere ==
  ASSUME LayerInv, GraphOK, NEW k \in Keepers, ~Failing,
         \/ Reindex(k) \/ RebuildGraph(k) \/ RebuildQdrant(k) \/ DropCollection(k) \/ ResetReady(k)
         \/ Extract(k) \/ Thumbnail(k) \/ PersistImage(k) \/ EnsureCollection(k) \/ CreateCollection(k)
         \/ MarkReady(k) \/ Embed(k) \/ UpsertPoint(k) \/ Enrich(k)
  PROVE  GraphOK'
<1>1. UNCHANGED <<jobFiles, nodes>> /\ doing[k].at \notin {"list", "each", "graph"}
  BY DEF Reindex, RebuildGraph, RebuildQdrant, Keep, Going, DropCollection, ResetReady, Extract,
         Thumbnail, PersistImage, EnsureCollection, CreateCollection, MarkReady, Embed,
         UpsertPoint, Enrich, storeVars, bookVars
<1>2. PICK u : Becomes(k, u)
  <2>1. CASE Reindex(k) \/ RebuildGraph(k) \/ RebuildQdrant(k)
    BY <2>1 DEF Reindex, RebuildGraph, RebuildQdrant, Keep
  <2>2. CASE DropCollection(k) \/ ResetReady(k) \/ Enrich(k) \/ MarkReady(k)
    BY <2>2 DEF DropCollection, ResetReady, Enrich, MarkReady, To
  <2>3. CASE Extract(k) \/ Thumbnail(k) \/ PersistImage(k)
    BY <2>3 DEF Extract, Thumbnail, PersistImage, Refused, FileFails, To
  <2>4. CASE EnsureCollection(k) \/ CreateCollection(k)
    BY <2>4 DEF EnsureCollection, CreateCollection, To
  <2>5. CASE Embed(k) \/ UpsertPoint(k)
    BY <2>5 DEF Embed, UpsertPoint, To
  <2>. QED
    BY <2>1, <2>2, <2>3, <2>4, <2>5
<1>. QED
  BY <1>1, <1>2, OtherKeepers

\* A rebuild takes every node away and owes every image until it has merged
\* it.
LEMMA GraphKeepers ==
  ASSUME LayerInv, GraphOK, NEW k \in Keepers, ~Failing,
         ClearGraph(k) \/ ListImages(k) \/ EachImage(k) \/ SyncGraph(k)
  PROVE  GraphOK'
<1>1. k \in Actors /\ UNCHANGED jobFiles
  BY DEF Actors, ClearGraph, ListImages, EachImage, SyncGraph, bookVars
<1>2. PICK V : doing \in [Actors -> WorkOf(V)] /\ doing[k] \in WorkOf(V)
  BY <1>1, ActorStands
<1>3. PICK w \in WorkOf(V) : w = doing[k]
  BY <1>2
<1>4. KeeperOK(w)
  BY <1>1, <1>3, ActorStands
<1>5. CASE ClearGraph(k)
  <2>1. PICK at, todo : at = "list" /\ todo = {}
    OBVIOUS
  <2>2. Becomes(k, [doing[k] EXCEPT !.at = at, !.todo = todo])
    BY <1>5, <2>1 DEF ClearGraph
  <2>3. PICK u : u = [w EXCEPT !.at = at, !.todo = todo]
    OBVIOUS
  <2>4. u.at = at /\ u.kind = w.kind
    BY <2>3 DEF WorkOf
  <2>5. w.kind = "graph" /\ Becomes(k, u)
    BY <1>3, <1>4, <1>5, <2>2, <2>3 DEF KeeperOK, ClearGraph
  <2>6. doing'[k] = u
    BY <1>1, <2>5, Becoming
  <2>7. \A c : Restoring(c)'
    BY <2>1, <2>4, <2>5, <2>6 DEF Restoring
  <2>. QED
    BY <1>1, <2>5, <2>7, RebuildMoves
<1>6. CASE w.kind # "graph" /\ ~ClearGraph(k)
  <2>1. nodes \subseteq nodes'
    BY <1>6 DEF ListImages, EachImage, SyncGraph, storeVars
  <2>2. PICK u : Becomes(k, u)
    BY <1>6 DEF ListImages, EachImage, SyncGraph, To
  <2>. QED
    BY <1>1, <1>3, <1>6, <2>1, <2>2, OtherKeepers
<1>7. CASE ListImages(k) /\ w.kind = "graph"
  <2>1. PICK at, todo : at = "each" /\ todo = Stored
    OBVIOUS
  <2>2. Becomes(k, [doing[k] EXCEPT !.at = at, !.todo = todo]) /\ UNCHANGED nodes
    BY <1>7, <2>1 DEF ListImages, storeVars
  <2>3. PICK u : u = [w EXCEPT !.at = at, !.todo = todo]
    OBVIOUS
  <2>4. u.at = at /\ u.kind = w.kind /\ u.todo = todo /\ Becomes(k, u)
    BY <1>3, <2>2, <2>3 DEF WorkOf
  <2>5. \A c \in Stored : Restoring(c) => Restoring(c)'
    BY <1>3, <1>7, <2>1, <2>2, <2>4, StillRestored
  <2>. QED
    BY <1>1, <2>4, <2>5, RebuildMoves
<1>8. CASE EachImage(k) /\ w.kind = "graph" /\ w.todo = {}
  <2>1. To(k, "done") /\ UNCHANGED nodes /\ w.at = "each"
    BY <1>3, <1>8 DEF EachImage, storeVars
  <2>2. PICK u : Becomes(k, u)
    BY <2>1 DEF To
  <2>3. \A c \in Stored : Restoring(c) => Restoring(c)'
    BY <1>3, <1>8, <2>1, <2>2, StillRestored
  <2>. QED
    BY <1>1, <2>2, <2>3, RebuildMoves
<1>9. CASE EachImage(k) /\ w.kind = "graph" /\ w.todo # {}
  <2>1. PICK i \in w.todo :
            Becomes(k, [doing[k] EXCEPT !.image = i, !.todo = doing[k].todo \ {i},
                                        !.at = AfterPersist(doing[k])])
    BY <1>3, <1>9 DEF EachImage
  <2>2. PICK at, left : at = AfterPersist(w) /\ left = w.todo \ {i}
    OBVIOUS
  <2>3. PICK u : u = [w EXCEPT !.image = i, !.todo = left, !.at = at]
    OBVIOUS
  <2>4. u.at = at /\ u.kind = w.kind /\ u.todo = left /\ u.image = i /\ Becomes(k, u)
    BY <1>3, <2>1, <2>2, <2>3 DEF WorkOf
  <2>5. at = "graph"
    BY <1>4, <1>9, <2>2 DEF KeeperOK, AfterPersist, AfterVector
  <2>6. UNCHANGED nodes /\ w.at = "each"
    BY <1>3, <1>9 DEF EachImage, storeVars
  <2>7. \A c \in Stored : Restoring(c) => Restoring(c)'
    BY <1>3, <1>9, <2>2, <2>4, <2>5, <2>6, StillRestored
  <2>. QED
    BY <1>1, <2>4, <2>7, RebuildMoves
<1>10. CASE SyncGraph(k) /\ w.kind = "graph"
  <2>1. /\ nodes' = nodes \cup {w.image} /\ w.at = "graph"
        /\ To(k, AfterGraph(w))
    BY <1>3, <1>10 DEF SyncGraph
  <2>2. AfterGraph(w) = "each"
    BY <1>4, <1>10 DEF KeeperOK, AfterGraph, AfterEnrich
  <2>3. PICK at : at = "each"
    OBVIOUS
  <2>4. PICK u : u = [w EXCEPT !.at = at]
    OBVIOUS
  <2>5. u.at = at /\ u.kind = w.kind /\ u.todo = w.todo /\ Becomes(k, u)
    BY <1>3, <2>1, <2>2, <2>3, <2>4 DEF WorkOf, To
  <2>6. \A c \in Stored : Restoring(c) => Restoring(c)'
    BY <1>3, <1>10, <2>1, <2>3, <2>5, StillRestored
  <2>. QED
    BY <1>1, <2>5, <2>6, RebuildMoves
<1>. QED
  BY <1>5, <1>6, <1>7, <1>8, <1>9, <1>10

\* What is owed to the graph holds on while nothing of it changes.
LEMMA GraphRests ==
  ASSUME LayerInv, GraphOK, UNCHANGED <<jobFiles, nodes, doing>>
  PROVE  GraphOK'
BY DEF GraphOK, JobNodes, HasGraph, Restoring

NodesInv == ingestFaults = 0 => GraphOK

\* Every step of the service keeps what is owed to the graph.
LEMMA NodesMove == LayerInv /\ NodesInv /\ [ServiceNext]_serviceVars => NodesInv'
<1>. SUFFICES ASSUME LayerInv, NodesInv, [ServiceNext]_serviceVars, ingestFaults' = 0
              PROVE  GraphOK'
  BY DEF NodesInv
<1>1. ingestFaults \in Nat
  BY DEF LayerInv, StoreTypes
<1>2. ~Failing
  BY <1>1 DEF Failing
<1>3. CASE UNCHANGED <<jobFiles, nodes, doing, ingestFaults>>
  BY <1>3, GraphRests DEF NodesInv
<1>4. ASSUME NEW j \in IngestJobs, JobNext(j) PROVE GraphOK'
  <2>1. Fine
    BY <1>2, <1>4 DEF JobNext, StartIngestion, StatFolder, OpenFolder, NextFile, HashFile, LookUp,
       RecordFile, RecordFailedFile, Progress, Finish, FailJob, CancelIngestion, ingestBounds, Fine
  <2>2. GraphOK
    BY <2>1 DEF Fine, NodesInv
  <2>3. ~CancelIngestion(j)
    BY <1>2 DEF CancelIngestion
  <2>. QED
    BY <1>2, <1>4, <2>2, <2>3, QuietJobs, QuietReads, RowsWithNodes, QuietStart DEF JobNext
<1>5. ASSUME NEW a \in Actors, ImageNext(a) PROVE GraphOK'
  <2>1. Fine
    BY <1>2, <1>5 DEF ImageNext, Extract, Thumbnail, PersistImage, EnsureCollection,
       CreateCollection, MarkReady, Embed, UpsertPoint, SyncGraph, Enrich, ingestBounds, Fine
  <2>2. GraphOK
    BY <2>1 DEF Fine, NodesInv
  <2>3. CASE a \in IngestJobs
    BY <1>2, <1>5, <2>2, <2>3, QuietJobs, QuietReads, QuietProjections DEF ImageNext
  <2>4. CASE a \in Keepers
    BY <1>2, <1>5, <2>2, <2>4, KeepersElsewhere, GraphKeepers DEF ImageNext
  <2>. QED
    BY <2>3, <2>4 DEF Actors
<1>6. ASSUME NEW k \in Keepers, KeeperNext(k) PROVE GraphOK'
  <2>1. Fine
    BY <1>2, <1>6 DEF KeeperNext, Reindex, RebuildGraph, RebuildQdrant, Keep, ClearGraph, ListImages,
       DropCollection, ResetReady, EachImage, ingestBounds, Fine
  <2>2. GraphOK
    BY <2>1 DEF Fine, NodesInv
  <2>. QED
    BY <1>2, <1>6, <2>2, KeepersElsewhere, GraphKeepers DEF KeeperNext
<1>7. CASE EditFile
  BY <1>3, <1>7 DEF EditFile, storeVars, bookVars
<1>8. CASE ServerDies
  BY <1>2, <1>8 DEF ServerDies
<1>9. CASE UNCHANGED serviceVars
  BY <1>3, <1>9 DEF serviceVars, storeVars, bookVars, ingestBounds
<1>. QED
  BY <1>4, <1>5, <1>6, <1>7, <1>8, <1>9 DEF ServiceNext

\* Nothing is owed to the graph at the start.
LEMMA NodesStart == ServiceInit => NodesInv
BY DEF ServiceInit, NodesInv, GraphOK, JobNodes, HasGraph, NoWork, Actors

\* While nothing runs and nothing failed, every image recorded has its node.
LEMMA NodesAreBack == LayerInv /\ NodesInv => NodesFollowRows
<1>. SUFFICES ASSUME LayerInv, NodesInv, ingestFaults = 0, \A a \in Actors : ~Going(a),
                     NEW j \in IngestJobs, "graph" \in doing[j].req,
                     NEW r \in jobFiles[j], r.status = "indexed"
              PROVE  r.image \in nodes
  BY DEF NodesFollowRows
<1>1. Restoring(r.image)
  BY DEF NodesInv, GraphOK, JobNodes
<1>2. ASSUME NEW k \in Keepers PROVE doing[k].at \in {"none", "done", "dead"}
  BY DEF Going, Actors
<1>. QED
  BY <1>1, <1>2 DEF Restoring

-----------------------------------------------------------------------------
(* Rows and columns.                                                       *)

\* Of two numbers, the larger and the smaller.
LEMMA LargerSmaller ==
  ASSUME NEW a \in Int, NEW b \in Int
  PROVE  /\ Larger(a, b) = (IF a >= b THEN a ELSE b)
         /\ Smaller(a, b) = (IF a =< b THEN a ELSE b)
<1>1. /\ \A x \in {a, b} : (\A y \in {a, b} : x >= y) <=> x = IF a >= b THEN a ELSE b
      /\ \A x \in {a, b} : (\A y \in {a, b} : x =< y) <=> x = IF a =< b THEN a ELSE b
  OBVIOUS
<1>2. PICK m : m = IF a >= b THEN a ELSE b
  OBVIOUS
<1>3. PICK n : n = IF a =< b THEN a ELSE b
  OBVIOUS
<1>4. Larger(a, b) = m
  <2>1. m \in {a, b} /\ \A y \in {a, b} : m >= y
    BY <1>2
  <2>2. \A x \in {a, b} : (\A y \in {a, b} : x >= y) => x = m
    BY <1>1, <1>2
  <2>. QED
    BY <2>1, <2>2 DEF Larger, Max
<1>5. Smaller(a, b) = n
  <2>1. n \in {a, b} /\ \A y \in {a, b} : n =< y
    BY <1>3
  <2>2. \A x \in {a, b} : (\A y \in {a, b} : x =< y) => x = n
    BY <1>1, <1>3
  <2>. QED
    BY <2>1, <2>2 DEF Smaller, Min
<1>. QED
  BY <1>2, <1>3, <1>4, <1>5

\* Products by one positive number are ordered as their factors.
LEMMA Ordered ==
  ASSUME NEW a \in Int, NEW b \in Int, NEW c \in Nat, c # 0
  PROVE  /\ a * c \in Int
         /\ a =< b <=> a * c =< b * c
         /\ a < b <=> a * c + c =< b * c
OBVIOUS

\* Less than one apart is not behind.
LEMMA NotBehind ==
  ASSUME NEW a \in Int, NEW b \in Int, NEW c \in Nat, c # 0, a * c < b * c + c
  PROVE  a =< b
<1>1. SUFFICES ASSUME b < a
               PROVE  FALSE
  OBVIOUS
<1>2. b * c + c =< a * c /\ a * c \in Int /\ b * c \in Int
  BY <1>1, Ordered
<1>. QED
  BY <1>2

\* A division leaves a rest that is less than the divisor.
LEMMA Divided ==
  ASSUME NEW x \in Nat, NEW c \in Nat, c # 0
  PROVE  /\ x \div c \in Nat
         /\ (x \div c) * c =< x /\ x < (x \div c) * c + c
         /\ x % c = x - (x \div c) * c
OBVIOUS

\* So many rows hold x items, and one less does not.
LEMMA RowsHold ==
  ASSUME NEW x \in Nat, NEW c \in Nat, c # 0
  PROVE  /\ RowsOf(x, c) \in Nat
         /\ x =< RowsOf(x, c) * c /\ RowsOf(x, c) * c =< x + c - 1
<1>1. PICK y \in Nat : y = x + c - 1
  OBVIOUS
<1>. QED
  BY <1>1, Divided DEF RowsOf

\* Whole rows less are that many rows less.
LEMMA RowsLess ==
  ASSUME NEW x \in Nat, NEW c \in Nat, c # 0, NEW t \in Nat, t * c =< x
  PROVE  RowsOf(x - t * c, c) = RowsOf(x, c) - t
<1>1. PICK y \in Nat : y = x - t * c
  OBVIOUS
<1>2. PICK p \in Nat : p = RowsOf(x, c) /\ x =< p * c /\ p * c =< x + c - 1
  BY RowsHold
<1>3. PICK r \in Nat : r = RowsOf(y, c) /\ y =< r * c /\ r * c =< y + c - 1
  BY RowsHold
<1>4. (p - t) * c = p * c - t * c
  OBVIOUS
<1>5. p * c \in Int /\ t * c \in Int /\ r * c \in Int /\ p - t \in Int
  OBVIOUS
<1>6. r * c < (p - t) * c + c /\ (p - t) * c < r * c + c
  BY <1>1, <1>2, <1>3, <1>4, <1>5
<1>7. r =< p - t /\ p - t =< r
  BY <1>6, NotBehind
<1>. QED
  BY <1>1, <1>2, <1>3, <1>7

\* Rows that fit into those of x items are among them.
LEMMA RowsCover ==
  ASSUME NEW x \in Nat, NEW c \in Nat, c # 0, NEW p \in Int, p * c =< x
  PROVE  p =< RowsOf(x, c)
<1>1. PICK r \in Nat : r = RowsOf(x, c) /\ x =< r * c
  BY RowsHold
<1>2. p * c \in Int /\ r * c \in Int
  OBVIOUS
<1>3. p * c < r * c + c
  BY <1>1, <1>2
<1>. QED
  BY <1>1, <1>3, NotBehind

\* The slice that starts with row t, for a viewport whose first item is vf, is not
\* below the viewport, nor above it unless it is the last one.
IsSlice(t, c, vf, n, b, w) ==
  LET x == IF vf - b =< n - w THEN vf - b ELSE n - w
  IN  t * c =< (IF x >= 0 THEN x ELSE 0) /\ (IF x >= 0 THEN x ELSE 0) < t * c + c

\* A frame that moves nothing has found the viewport in the slice.
LEMMA StaysFilled ==
  ASSUME NEW c \in Nat, c # 0, NEW b \in Nat, NEW w \in Nat, NEW v \in Nat, NEW n \in Nat,
         c =< b, b + (v + 3) * c =< w, w < n,
         NEW sc \in Nat, NEW k \in Nat, NEW t \in Nat, k > 0 => t > 0,
         NEW vf \in Nat,
         vf = IF t * c + (sc - k) * c >= 0 THEN t * c + (sc - k) * c ELSE 0,
         IsSlice(t, c, vf, n, b, w)
  PROVE  sc >= k /\ (n - (t * c + w) < c \/ sc + v =< k + RowsOf(w, c))
<1>1. PICK s \in Nat : s = t * c
  OBVIOUS
<1>2. PICK d \in Int : d = (sc - k) * c
  OBVIOUS
<1>3. PICK e \in Nat : e = v * c
  OBVIOUS
<1>4. (v + 3) * c = e + 3 * c
  BY <1>3
<1>5. vf = IF s + d >= 0 THEN s + d ELSE 0
  BY <1>1, <1>2
<1>6. LET x == IF vf - b =< n - w THEN vf - b ELSE n - w
      IN  s =< (IF x >= 0 THEN x ELSE 0) /\ (IF x >= 0 THEN x ELSE 0) < s + c
  BY <1>1 DEF IsSlice
<1>7. sc >= k
  <2>1. SUFFICES ASSUME sc < k
                 PROVE  FALSE
    OBVIOUS
  <2>2. d + c =< 0
    <3>1. sc - k \in Int /\ sc - k < 0 /\ 0 * c = 0
      BY <2>1
    <3>2. (sc - k) * c + c =< 0 * c
      BY <3>1, Ordered
    <3>. QED
      BY <1>2, <3>1, <3>2
  <2>3. t > 0 /\ 0 * c = 0
    BY <2>1
  <2>4. 0 * c + c =< t * c
    BY <2>3, Ordered
  <2>. QED
    BY <1>1, <1>5, <1>6, <2>2, <2>3, <2>4
<1>8. n - (s + w) < c \/ sc + v =< k + RowsOf(w, c)
  <2>1. SUFFICES ASSUME ~(n - (s + w) < c)
                 PROVE  sc + v =< k + RowsOf(w, c)
    OBVIOUS
  <2>2. d < b + c
    BY <1>5, <1>6, <2>1
  <2>3. d + e =< w
    BY <1>4, <2>2
  <2>4. (sc - k + v) * c = d + e /\ sc - k + v \in Int
    BY <1>2, <1>3
  <2>5. sc - k + v =< RowsOf(w, c)
    BY <2>3, <2>4, RowsCover
  <2>6. RowsOf(w, c) \in Nat
    BY RowsHold
  <2>. QED
    BY <2>5, <2>6
<1>. QED
  BY <1>1, <1>7, <1>8

\* A slice that was drawn anew is where the viewport is, when what was measured is
\* off by less than a row above and two below.
LEMMA MovesFilled ==
  ASSUME NEW c \in Nat, c # 0, NEW b \in Nat, NEW w \in Nat, NEW v \in Nat, NEW n \in Nat,
         c =< b, b + (v + 3) * c =< w, w < n,
         NEW sc \in Nat, NEW k \in Nat, NEW s \in Nat, NEW t \in Nat,
         s - k * c < c, k * c - s < 2 * c,
         NEW vf \in Nat,
         vf = IF s + (sc - k) * c >= 0 THEN s + (sc - k) * c ELSE 0,
         IsSlice(t, c, vf, n, b, w)
  PROVE  sc >= t /\ (n - (t * c + w) < c \/ sc + v =< t + RowsOf(w, c))
<1>1. PICK u \in Nat : u = t * c
  OBVIOUS
<1>2. PICK d \in Nat : d = sc * c
  OBVIOUS
<1>3. PICK e \in Nat : e = v * c
  OBVIOUS
<1>4. PICK f \in Nat : f = k * c
  OBVIOUS
<1>5. (v + 3) * c = e + 3 * c /\ (sc - k) * c = d - f
  BY <1>2, <1>3, <1>4
<1>6. vf = IF s + (d - f) >= 0 THEN s + (d - f) ELSE 0
  BY <1>5
<1>7. LET x == IF vf - b =< n - w THEN vf - b ELSE n - w
      IN  u =< (IF x >= 0 THEN x ELSE 0) /\ (IF x >= 0 THEN x ELSE 0) < u + c
  BY <1>1 DEF IsSlice
<1>8. s - f < c /\ f - s < 2 * c
  BY <1>4
<1>9. sc >= t
  <2>1. u < d + c
    BY <1>6, <1>7, <1>8
  <2>. QED
    BY <1>1, <1>2, <2>1, NotBehind
<1>10. n - (u + w) < c \/ sc + v =< t + RowsOf(w, c)
  <2>1. SUFFICES ASSUME ~(n - (u + w) < c)
                 PROVE  sc + v =< t + RowsOf(w, c)
    OBVIOUS
  <2>2. d < u + b + 3 * c
    BY <1>6, <1>7, <1>8, <2>1
  <2>3. d - u + e =< w
    BY <1>5, <2>2
  <2>4. (sc - t + v) * c = d - u + e /\ sc - t + v \in Int
    BY <1>1, <1>2, <1>3
  <2>5. sc - t + v =< RowsOf(w, c)
    BY <2>3, <2>4, RowsCover
  <2>6. RowsOf(w, c) \in Nat
    BY RowsHold
  <2>. QED
    BY <2>5, <2>6
<1>. QED
  BY <1>1, <1>9, <1>10

\* Rows that are as many in g columns as in c: those before an item of them are
\* off by less than one.
LEMMA SameRows ==
  ASSUME NEW c \in Nat, c # 0, NEW g \in Nat, g # 0, NEW x \in Nat, NEW k \in Nat,
         k * g < x, RowsOf(x, g) = RowsOf(x, c)
  PROVE  k * g - k * c < c /\ k * c - k * g < c
<1>1. PICK r \in Nat : /\ r = RowsOf(x, c) /\ x =< r * c /\ r * c =< x + c - 1
                       /\ x =< r * g /\ r * g =< x + g - 1
  BY RowsHold
<1>2. k * g \in Nat /\ k * c \in Nat /\ r * g \in Nat /\ r * c \in Nat
  OBVIOUS
<1>3. k < r
  <2>1. k * g < r * g
    BY <1>1, <1>2
  <2>2. ~(r =< k)
    BY <1>2, <2>1, Ordered
  <2>. QED
    BY <2>2
<1>4. CASE c =< g
  <2>1. PICK a \in Nat : a = g - c
    BY <1>4
  <2>2. k * a = k * g - k * c /\ r * a = r * g - r * c
    BY <2>1
  <2>3. CASE a = 0
    BY <2>1, <2>3
  <2>4. CASE a # 0
    <3>1. k * a + a =< r * a /\ k * a \in Int /\ r * a \in Int
      BY <1>3, <2>4, Ordered
    <3>2. k * a >= 0
      OBVIOUS
    <3>. QED
      BY <1>1, <1>2, <2>1, <2>2, <3>1, <3>2
  <2>. QED
    BY <2>3, <2>4
<1>5. CASE g < c
  <2>1. PICK a \in Nat : a = c - g /\ a # 0
    BY <1>5
  <2>2. k * a = k * c - k * g /\ r * a = r * c - r * g
    BY <2>1
  <2>3. k * a + a =< r * a /\ k * a \in Int /\ r * a \in Int
    BY <1>3, <2>1, Ordered
  <2>4. k * a >= 0
    OBVIOUS
  <2>. QED
    BY <1>1, <1>2, <2>1, <2>2, <2>3, <2>4
<1>. QED
  BY <1>4, <1>5

\* Of n items in c columns, those from s to e are replaced by a window that starts
\* with row t, and the page keeps its height.
HeightKept(c, w, n, k, s, e, g, bottom, t) ==
    /\ c # 0 /\ w < n /\ s < e
    /\ s = k * g /\ (g = 0 => k = 0)
    /\ \/ e = n /\ n =< s + w
       \/ e = s + w /\ e < n
    /\ bottom = IF g = 0 THEN 0 ELSE RowsOf(n - e, g)
    /\ t * c =< n - w
    /\ k + RowsOf(e - s, c) + bottom = t + RowsOf(w, c) + RowsOf(n - (t * c + w), c)

\* The page keeps its height when the slice moves: what lay above the old slice is
\* off by less than a row one way, and by less than two the other.
LEMMA HeightTells ==
  ASSUME NEW c \in Nat, NEW w \in Nat, NEW n \in Nat, NEW k \in Nat, NEW s \in Nat, NEW e \in Nat,
         NEW g \in Nat, NEW bottom \in Nat, NEW t \in Nat,
         HeightKept(c, w, n, k, s, e, g, bottom, t)
  PROVE  s - k * c < c /\ k * c - s < 2 * c
<1>. /\ c # 0 /\ w < n /\ s < e
     /\ s = k * g /\ (g = 0 => k = 0)
     /\ \/ e = n /\ n =< s + w
        \/ e = s + w /\ e < n
     /\ bottom = IF g = 0 THEN 0 ELSE RowsOf(n - e, g)
     /\ t * c =< n - w
     /\ k + RowsOf(e - s, c) + bottom = t + RowsOf(w, c) + RowsOf(n - (t * c + w), c)
  BY DEF HeightKept
<1>1. PICK x \in Nat : x = n - w
  OBVIOUS
<1>2. t * c \in Nat /\ k * c \in Nat
  OBVIOUS
<1>3. RowsOf(n - (t * c + w), c) = RowsOf(x, c) - t
  <2>1. n - (t * c + w) = x - t * c
    BY <1>1, <1>2
  <2>. QED
    BY <1>1, <2>1, RowsLess
<1>4. PICK p \in Nat : p = RowsOf(x, c) /\ x =< p * c /\ p * c =< x + c - 1
  BY RowsHold
<1>5. PICK q \in Nat : q = RowsOf(w, c) /\ w =< q * c /\ q * c =< w + c - 1
  BY RowsHold
<1>6. CASE g = 0
  BY <1>2, <1>6
<1>7. CASE g # 0 /\ e = n
  <2>1. PICK y \in Nat : y = e - s
    OBVIOUS
  <2>2. PICK r \in Nat : r = RowsOf(y, c) /\ y =< r * c /\ r * c =< y + c - 1
    BY RowsHold
  <2>3. bottom = 0
    <3>1. PICK z \in Nat : z = RowsOf(0, g) /\ z * g =< g - 1
      BY <1>7, RowsHold
    <3>2. z * g < 0 * g + g
      BY <3>1
    <3>3. z =< 0
      BY <1>7, <3>2, NotBehind
    <3>4. n - e = 0
      BY <1>7
    <3>. QED
      BY <1>7, <3>1, <3>3, <3>4
  <2>4. k + r = q + p
    BY <1>3, <1>4, <1>5, <2>1, <2>2, <2>3
  <2>5. (k + r) * c = k * c + r * c /\ (q + p) * c = q * c + p * c
    OBVIOUS
  <2>6. r * c \in Nat /\ q * c \in Nat /\ p * c \in Nat
    OBVIOUS
  <2>7. k * c + r * c = q * c + p * c
    BY <2>4, <2>5
  <2>. QED
    BY <1>1, <1>2, <1>4, <1>5, <1>7, <2>1, <2>2, <2>6, <2>7
<1>8. CASE g # 0 /\ e # n
  <2>1. e = s + w /\ e < n /\ e - s = w
    BY <1>8
  <2>2. n - e = x - k * g /\ k * g < x
    BY <1>1, <2>1
  <2>3. bottom = RowsOf(x, g) - k
    <3>1. k * g =< x /\ g # 0 /\ bottom = RowsOf(x - k * g, g)
      BY <1>1, <1>8, <2>2
    <3>2. RowsOf(x - k * g, g) = RowsOf(x, g) - k
      BY <3>1, RowsLess
    <3>. QED
      BY <3>1, <3>2
  <2>4. RowsOf(x, g) \in Nat
    BY <1>8, RowsHold
  <2>5. RowsOf(x, g) = RowsOf(x, c)
    <3>1. RowsOf(e - s, c) = q
      BY <1>5, <2>1
    <3>2. RowsOf(n - (t * c + w), c) = p - t
      BY <1>3, <1>4
    <3>3. k + q + bottom = t + q + (p - t)
      BY <1>5, <3>1, <3>2
    <3>4. k + bottom = p
      <4>1. PICK y : y = k + q + bottom
        OBVIOUS
      <4>2. y = t + q + (p - t)
        BY <3>3, <4>1
      <4>. QED
        BY <1>4, <1>5, <4>1, <4>2
    <3>. QED
      BY <1>4, <2>3, <2>4, <3>4
  <2>6. k * g - k * c < c /\ k * c - k * g < c
    BY <1>8, <2>2, <2>5, SameRows
  <2>. QED
    BY <1>2, <2>6
<1>. QED
  BY <1>6, <1>7, <1>8

-----------------------------------------------------------------------------
(* The windowed gallery.                                                   *)

Slices == [start : Nat, end : Nat]

\* A slice that starts with a row of g columns.
AtRow(s, k, g) == k \in Nat /\ s = k * g /\ (g = 0 => k = 0)

\* A slice is a window long unless the list is not windowed.
SliceFits(r, n) == \/ r.end = r.start + windowCount
                   \/ ~Enabled(n) /\ r.start = 0 /\ r.end =< windowCount

\* The sizes of the window.
LEMMA WindowSizes ==
  ASSUME NEW c \in ColumnCounts
  PROVE  /\ windowCount \in Nat /\ behindCount \in Nat /\ ViewRows \in Nat
         /\ c \in Nat /\ c # 0 /\ c =< behindCount /\ c =< windowCount
         /\ behindCount + (ViewRows + 3) * c =< windowCount
<1>1. /\ PageSize \in Nat /\ WindowPages \in Nat /\ ViewRows \in Nat
      /\ c \in Nat /\ c # 0 /\ c =< behindCount
      /\ behindCount + (ViewRows + 3) * c =< windowCount
  BY WindowAssumption
<1>2. windowCount \in Nat
  BY <1>1 DEF windowCount
<1>3. behindCount \in Int
  <2>1. PICK h : h = (WindowPages - 1) \div 2
    OBVIOUS
  <2>2. h \in Int
    BY <1>1, <2>1
  <2>. QED
    BY <1>1, <2>1, <2>2 DEF behindCount
<1>4. (ViewRows + 3) * c >= 0 /\ (ViewRows + 3) * c \in Int
  BY <1>1
<1>. QED
  BY <1>1, <1>2, <1>3, <1>4

\* What is mounted of a list.
LEMMA ShownIs ==
  ASSUME NEW c \in ColumnCounts, NEW r \in Slices, NEW n \in Nat
  PROVE  /\ Shown(r, n) \in Slices /\ Shown(r, n).end =< n
         /\ MountedOf(r, n) \in Nat
         /\ MountedOf(r, n) = IF Shown(r, n).end - Shown(r, n).start >= 0
                              THEN Shown(r, n).end - Shown(r, n).start ELSE 0
         /\ ~Enabled(n) => Shown(r, n).start = 0 /\ Shown(r, n).end = n
         /\ Enabled(n) /\ r.end = r.start + windowCount =>
              /\ Shown(r, n).start = r.start
              /\ Shown(r, n).end = IF r.end =< n THEN r.end ELSE n
<1>. USE WindowSizes
<1>1. r.start \in Nat /\ r.end \in Nat
  BY DEF Slices
<1>2. Smaller(r.end, n) = IF r.end =< n THEN r.end ELSE n
  BY <1>1, LargerSmaller
<1>3. Smaller(n, windowCount) = IF n =< windowCount THEN n ELSE windowCount
  BY LargerSmaller
<1>4. ~Enabled(n) => Shown(r, n) = [start |-> 0, end |-> n]
  BY DEF Shown
<1>5. Enabled(n) /\ r.end > r.start => Shown(r, n) = [start |-> r.start, end |-> Smaller(r.end, n)]
  BY DEF Shown, Slices
<1>6. Enabled(n) /\ ~(r.end > r.start) => Shown(r, n) = [start |-> 0, end |-> Smaller(n, windowCount)]
  BY DEF Shown
<1>7. Shown(r, n) \in Slices /\ Shown(r, n).end =< n
  BY <1>1, <1>2, <1>3, <1>4, <1>5, <1>6 DEF Slices
<1>8. PICK a \in Nat, b \in Nat : a = Shown(r, n).start /\ b = Shown(r, n).end
  BY <1>7 DEF Slices
<1>9. MountedOf(r, n) = IF b - a >= 0 THEN b - a ELSE 0
  <2>1. Larger(0, b - a) = IF 0 >= b - a THEN 0 ELSE b - a
    BY LargerSmaller
  <2>. QED
    BY <1>8, <2>1 DEF MountedOf
<1>10. Enabled(n) /\ r.end = r.start + windowCount =>
         a = r.start /\ b = IF r.end =< n THEN r.end ELSE n
  BY <1>1, <1>2, <1>5, <1>8
<1>11. ~Enabled(n) => a = 0 /\ b = n
  BY <1>4, <1>8
<1>. QED
  BY <1>7, <1>8, <1>9, <1>10, <1>11

\* The spacers stand for whole rows.
LEMMA SpacersAre ==
  ASSUME NEW c \in ColumnCounts, NEW r \in Slices, NEW n \in Nat, NEW g \in Nat, NEW k,
         AtRow(r.start, k, g), SliceFits(r, n)
  PROVE  /\ Spacers(r, n, g).top \in Nat /\ Spacers(r, n, g).bottom \in Nat
         /\ ~Enabled(n) => Spacers(r, n, g).top = 0 /\ Spacers(r, n, g).bottom = 0
         /\ Enabled(n) =>
              /\ Spacers(r, n, g).top = k
              /\ Spacers(r, n, g).bottom =
                   IF g = 0 THEN 0 ELSE RowsOf(n - Shown(r, n).end, g)
<1>. USE WindowSizes
<1>1. k \in Nat /\ r.start = k * g /\ (g = 0 => k = 0)
  BY DEF AtRow
<1>2. CASE ~Enabled(n) \/ g = 0
  BY <1>1, <1>2 DEF Spacers, NotMeasured
<1>3. CASE Enabled(n) /\ g # 0
  <2>1. Shown(r, n).start = r.start /\ Shown(r, n).end \in Nat /\ Shown(r, n).end =< n
    BY <1>3, ShownIs DEF SliceFits, Slices
  <2>2. PICK e \in Nat : e = Shown(r, n).end /\ e =< n
    BY <2>1
  <2>3. Larger(0, n - e) = n - e
    <3>1. Larger(0, n - e) = IF 0 >= n - e THEN 0 ELSE n - e
      BY LargerSmaller
    <3>. QED
      BY <2>2, <3>1
  <2>4. r.start \div g = k
    <3>1. PICK q \in Nat : /\ q = r.start \div g
                           /\ q * g =< k * g /\ k * g < q * g + g
      BY <1>1, <1>3, Divided
    <3>2. k * g \in Nat /\ q * g \in Nat
      BY <1>1
    <3>3. q * g < k * g + g
      BY <1>3, <3>1, <3>2
    <3>4. q =< k /\ k =< q
      BY <1>1, <1>3, <3>1, <3>3, NotBehind
    <3>. QED
      BY <1>1, <3>1, <3>4
  <2>5. Spacers(r, n, g) = [top |-> k, bottom |-> RowsOf(n - e, g)]
    BY <1>3, <2>1, <2>2, <2>3, <2>4 DEF Spacers, NotMeasured
  <2>6. n - e \in Nat
    BY <2>2
  <2>7. RowsOf(n - e, g) \in Nat
    BY <1>3, <2>6, RowsHold
  <2>. QED
    BY <1>1, <1>3, <2>2, <2>5, <2>7
<1>. QED
  BY <1>2, <1>3

\* The columns that are read off m cards.
LEMMA MeasuredIs ==
  ASSUME columns \in ColumnCounts, NEW r, NEW m \in Nat
  PROVE  /\ Measured(r, m) \in Nat /\ Measured(r, m) # 0
         /\ m >= columns => Measured(r, m) = columns
<1>1. columns \in Nat /\ columns # 0
  BY WindowSizes
<1>2. Smaller(columns, m) = IF columns =< m THEN columns ELSE m
  BY <1>1, LargerSmaller
<1>3. PICK a \in Nat : a = Smaller(columns, m)
  BY <1>1, <1>2
<1>4. Larger(1, a) = IF 1 >= a THEN 1 ELSE a
  BY LargerSmaller
<1>. QED
  BY <1>1, <1>2, <1>3, <1>4 DEF Measured

\* The first item of the viewport, as a frame finds it.
FirstSeen(s, d) == IF s + d >= 0 THEN s + d ELSE 0

\* A measure of a windowed list gives a slice, a window long, that starts with a row.
LEMMA RecomputedIs ==
  ASSUME columns \in ColumnCounts, NEW n \in Nat, NEW r \in Slices, NEW m \in Nat,
         NEW top \in Nat, NEW sc \in Nat, Enabled(n)
  PROVE  \E t \in Nat :
           LET c == Measured(r, m)
           IN  /\ Recomputed(n, r, m, top, sc) = [start |-> t * c, end |-> t * c + windowCount]
               /\ t * c =< n - windowCount
               /\ IsSlice(t, c, FirstSeen(r.start, (sc - top) * c), n, behindCount, windowCount)
<1>1. PICK c \in Nat : c = Measured(r, m) /\ c # 0
  BY MeasuredIs
<1>2. windowCount \in Nat /\ behindCount \in Nat /\ windowCount < n
  BY WindowSizes DEF Enabled
<1>3. PICK w \in Nat : w = windowCount
  BY <1>2
<1>4. PICK b \in Nat : b = behindCount
  BY <1>2
<1>. USE <1>1, <1>3, <1>4, <1>2
<1>5. PICK s \in Nat : s = r.start
  BY DEF Slices
<1>6. PICK d \in Int : d = (sc - top) * c
  OBVIOUS
<1>7. Larger(0, s + d) = FirstSeen(s, d) /\ FirstSeen(s, d) \in Nat
  <2>1. Larger(0, s + d) = IF 0 >= s + d THEN 0 ELSE s + d
    BY LargerSmaller
  <2>. QED
    BY <2>1 DEF FirstSeen
<1>8. PICK vf \in Nat : vf = FirstSeen(s, d)
  BY <1>7
<1>9. vf - b \in Int /\ n - w \in Int
  BY <1>2, <1>8
<1>10. PICK x \in Int : x = IF vf - b =< n - w THEN vf - b ELSE n - w
  BY <1>9
<1>11. Smaller(vf - b, n - w) = x
  BY <1>10, <1>9, LargerSmaller
<1>12. PICK y \in Nat : y = IF x >= 0 THEN x ELSE 0
  BY <1>10
<1>13. Larger(0, x) = y
  BY <1>12, LargerSmaller
<1>14. PICK t \in Nat : t = y \div c /\ t * c =< y /\ y < t * c + c /\ y % c = y - t * c
  BY Divided
<1>15. PICK u \in Nat : u = t * c
  OBVIOUS
<1>16. StartAt(vf, n, c) = u
  <2>1. StartAt(vf, n, c) = y - (y % c)
    BY <1>2, <1>11, <1>13 DEF StartAt
  <2>. QED
    BY <1>14, <1>15, <2>1
<1>17. y =< n - w
  BY <1>2, <1>10, <1>12
<1>18. u + w =< n
  BY <1>14, <1>15, <1>17
<1>19. Smaller(n, u + w) = u + w
  <2>1. Smaller(n, u + w) = IF n =< u + w THEN n ELSE u + w
    BY LargerSmaller
  <2>. QED
    BY <1>18, <2>1
<1>20. Recomputed(n, r, m, top, sc) = [start |-> u, end |-> u + w]
  <2>1. Larger(0, r.start + (sc - top) * Measured(r, m)) = vf
    BY <1>5, <1>6, <1>7, <1>8
  <2>2. StartAt(Larger(0, r.start + (sc - top) * Measured(r, m)), n, Measured(r, m)) = u
    BY <1>16, <2>1
  <2>3. Recomputed(n, r, m, top, sc) = [start |-> u, end |-> Smaller(n, u + windowCount)]
    BY <2>2 DEF Recomputed
  <2>. QED
    BY <1>19, <2>3
<1>21. IsSlice(t, c, vf, n, b, w)
  BY <1>10, <1>12, <1>14 DEF IsSlice
<1>22. FirstSeen(r.start, (sc - top) * c) = vf
  BY <1>5, <1>6, <1>8
<1>23. t * c =< n - w
  BY <1>14, <1>15, <1>17
<1>. QED
  BY <1>15, <1>20, <1>21, <1>22, <1>23

-----------------------------------------------------------------------------
\* What is drawn: a slice, spacers that stand for its place, in columns that were
\* measured once, and a viewport inside of it all.
SpacersDrawn == \E g \in Nat : \E k \in Nat :
    /\ AtRow(slice.start, k, g)
    /\ topSpacer = Spacers(slice, length, g).top
    /\ bottomSpacer = Spacers(slice, length, g).bottom
PageDrawn ==
    /\ length \in Nat /\ columns \in ColumnCounts /\ slice \in Slices /\ geom \in Nat
    /\ SliceFits(slice, length)
    /\ \E k \in Nat : AtRow(slice.start, k, geom)
    /\ topSpacer \in Nat /\ bottomSpacer \in Nat /\ SpacersDrawn
    /\ scroll \in Nat /\ scroll =< Larger(0, Height - ViewRows)

\* A page has the height of its rows.
LEMMA HeightIs ==
  ASSUME NEW r \in Slices, NEW n \in Nat, NEW c \in ColumnCounts,
         NEW top \in Nat, NEW bottom \in Nat
  PROVE  LET h == HeightOf(r, n, [top |-> top, bottom |-> bottom], c)
         IN  h \in Nat /\ h = top + RowsOf(MountedOf(r, n), c) + bottom
<1>1. MountedOf(r, n) \in Nat /\ c \in Nat /\ c # 0
  BY ShownIs, WindowSizes
<1>2. RowsOf(MountedOf(r, n), c) \in Nat
  BY <1>1, RowsHold
<1>. QED
  BY <1>2 DEF HeightOf

\* Every render draws the page so.
LEMMA DrawnKeeps ==
  ASSUME NEW r \in Slices, NEW n \in Nat, NEW g \in Nat, NEW c \in ColumnCounts,
         NEW k, AtRow(r.start, k, g), SliceFits(r, n), scroll \in Nat,
         Drawn(r, n, g, c)
  PROVE  /\ PageDrawn' /\ scroll' =< scroll
         /\ topSpacer' = Spacers(r, n, g).top /\ bottomSpacer' = Spacers(r, n, g).bottom
         /\ Height' = Draw(r, n, g, c).height
         /\ scroll' = Smaller(scroll, Larger(0, Height' - ViewRows))
<1>1. PICK a \in Nat, b \in Nat : a = Spacers(r, n, g).top /\ b = Spacers(r, n, g).bottom
  BY SpacersAre
<1>2. Spacers(r, n, g) = [top |-> a, bottom |-> b]
  BY <1>1 DEF Spacers
<1>3. PICK h \in Nat : h = HeightOf(r, n, [top |-> a, bottom |-> b], c)
  BY HeightIs
<1>4. Draw(r, n, g, c) = [spacers |-> [top |-> a, bottom |-> b], height |-> h,
                         scroll |-> Smaller(scroll, Larger(0, h - ViewRows))]
  BY <1>2, <1>3 DEF Draw
<1>5. /\ length' = n /\ slice' = r /\ geom' = g /\ columns' = c
      /\ topSpacer' = a /\ bottomSpacer' = b
      /\ scroll' = Smaller(scroll, Larger(0, h - ViewRows))
  BY <1>4 DEF Drawn
<1>6. ViewRows \in Nat
  BY WindowSizes
<1>7. Height' = h
  BY <1>3, <1>5 DEF Height, HeightOf, RowsOf, MountedOf, Shown, Enabled, windowCount
<1>8. PICK x \in Nat : x = Larger(0, h - ViewRows)
  <2>1. Larger(0, h - ViewRows) = IF 0 >= h - ViewRows THEN 0 ELSE h - ViewRows
    BY <1>6, LargerSmaller
  <2>. QED
    BY <1>6, <2>1
<1>9. scroll' \in Nat /\ scroll' =< scroll /\ scroll' =< x
  <2>1. Smaller(scroll, x) = IF scroll =< x THEN scroll ELSE x
    BY LargerSmaller
  <2>. QED
    BY <1>5, <1>8, <2>1
<1>10. SpacersDrawn'
  <2>1. Spacers(slice, length, g)' = Spacers(r, n, g)
    BY <1>5
  <2>2. AtRow(slice.start, k, g)' /\ k \in Nat
    BY <1>5 DEF AtRow
  <2>. QED
    BY <1>1, <1>5, <2>1, <2>2 DEF SpacersDrawn
<1>11. (\E j \in Nat : AtRow(slice.start, j, geom))'
  BY <1>5 DEF AtRow
<1>12. SliceFits(slice, length)'
  BY <1>5 DEF SliceFits, Enabled, windowCount
<1>13. scroll' =< Larger(0, Height - ViewRows)'
  BY <1>7, <1>8, <1>9
<1>14. PageDrawn'
  BY <1>5, <1>9, <1>10, <1>11, <1>12, <1>13 DEF PageDrawn
<1>. QED
  BY <1>1, <1>4, <1>5, <1>7, <1>9, <1>14

-----------------------------------------------------------------------------
\* A frame that waits was asked for by a windowed list; when it is not of the list
\* that is shown, the observer, attached anew, asks for another one.
FrameWaits ==
    /\ frame = NoFrame \/ (frame \in Nat /\ Enabled(frame))
    /\ observes \in BOOLEAN
    /\ (Enabled(length) /\ frame # NoFrame /\ frame # length) => observes
WindowInv == PageDrawn /\ FrameWaits

\* The spacers are whole rows, of any slice.
LEMMA SpacersCount ==
  ASSUME NEW c \in ColumnCounts, NEW r \in Slices, NEW n \in Nat, NEW g \in Nat
  PROVE  Spacers(r, n, g).top \in Nat /\ Spacers(r, n, g).bottom \in Nat
<1>1. CASE ~Enabled(n) \/ g = 0
  BY <1>1 DEF Spacers, NotMeasured
<1>2. CASE Enabled(n) /\ g # 0
  <2>1. PICK s \in Nat : s = Shown(r, n).start
    BY ShownIs DEF Slices
  <2>2. PICK e \in Nat : e = Shown(r, n).end /\ e =< n
    BY ShownIs DEF Slices
  <2>3. Larger(0, n - e) = n - e
    <3>1. Larger(0, n - e) = IF 0 >= n - e THEN 0 ELSE n - e
      BY LargerSmaller
    <3>. QED
      BY <2>2, <3>1
  <2>4. Spacers(r, n, g) = [top |-> s \div g, bottom |-> RowsOf(n - e, g)]
    BY <1>2, <2>1, <2>2, <2>3 DEF Spacers, NotMeasured
  <2>5. s \div g \in Nat /\ n - e \in Nat
    <3>1. s \div g \in Nat
      BY <1>2, Divided
    <3>. QED
      BY <2>2, <3>1
  <2>6. RowsOf(n - e, g) \in Nat
    BY <1>2, <2>5, RowsHold
  <2>. QED
    BY <2>4, <2>5, <2>6
<1>. QED
  BY <1>1, <1>2

\* The browser keeps the viewport inside a page of any height.
LEMMA ScrollKept ==
  ASSUME NEW c \in ColumnCounts, NEW h \in Nat, scroll \in Nat
  PROVE  /\ Smaller(scroll, Larger(0, h - ViewRows)) \in Nat
         /\ Smaller(scroll, Larger(0, h - ViewRows)) =< scroll
         /\ Larger(0, h - ViewRows) \in Nat
         /\ Smaller(scroll, Larger(0, h - ViewRows)) =< Larger(0, h - ViewRows)
<1>1. ViewRows \in Nat
  BY WindowSizes
<1>2. PICK x \in Nat : x = Larger(0, h - ViewRows)
  <2>1. Larger(0, h - ViewRows) = IF 0 >= h - ViewRows THEN 0 ELSE h - ViewRows
    BY <1>1, LargerSmaller
  <2>. QED
    BY <1>1, <2>1
<1>3. Smaller(scroll, x) = IF scroll =< x THEN scroll ELSE x
  BY LargerSmaller
<1>. QED
  BY <1>2, <1>3

\* A list that is not windowed is mounted whole.
LEMMA PlainFilled ==
  PageDrawn /\ ~Enabled(length) => ViewIsFilled
<1>. SUFFICES ASSUME PageDrawn, ~Enabled(length)
             PROVE  ViewIsFilled
  OBVIOUS
<1>1. /\ length \in Nat /\ columns \in ColumnCounts /\ slice \in Slices
      /\ SliceFits(slice, length) /\ scroll \in Nat
  BY DEF PageDrawn
<1>2. PICK g \in Nat, k \in Nat :
        /\ AtRow(slice.start, k, g)
        /\ topSpacer = Spacers(slice, length, g).top
        /\ bottomSpacer = Spacers(slice, length, g).bottom
  BY DEF PageDrawn, SpacersDrawn
<1>3. topSpacer = 0 /\ bottomSpacer = 0
  BY <1>1, <1>2, SpacersAre
<1>4. columns \in Nat /\ columns # 0 /\ ViewRows \in Nat
  BY <1>1, WindowSizes
<1>5. PICK m \in Nat : m = MountedOf(slice, length)
  BY <1>1, ShownIs
<1>6. PICK q \in Nat : q = RowsOf(m, columns)
  BY <1>4, RowsHold
<1>7. Height = q
  BY <1>3, <1>5, <1>6 DEF Height, HeightOf
<1>8. Smaller(scroll + ViewRows, q) =< q /\ Smaller(scroll + ViewRows, q) \in Int
  <2>1. PICK x \in Nat : x = scroll + ViewRows
    BY <1>1, <1>4
  <2>2. Smaller(x, q) = IF x =< q THEN x ELSE q
    BY LargerSmaller
  <2>. QED
    BY <2>1, <2>2
<1>9. ~\E j \in scroll..(Smaller(scroll + ViewRows, q) - 1) : j < 0 \/ j >= 0 + q
  BY <1>1, <1>8
<1>10. BlankRows = {j \in scroll..Smaller(scroll + ViewRows, q) - 1 : j < 0 \/ j >= 0 + q}
  BY <1>3, <1>5, <1>6, <1>7 DEF BlankRows
<1>11. BlankRows = {}
  BY <1>9, <1>10
<1>. QED
  BY <1>11 DEF ViewIsFilled

\* A viewport that is below the top spacer, and has cards down to its last row or
\* to the last row of the list, is filled.
LEMMA FilledIf ==
  /\ PageDrawn /\ topSpacer =< scroll
  /\ \/ length - Shown(slice, length).end < columns
     \/ scroll + ViewRows =< topSpacer + RowsOf(MountedOf(slice, length), columns)
  => ViewIsFilled
<1>. SUFFICES ASSUME PageDrawn, topSpacer =< scroll,
                    \/ length - Shown(slice, length).end < columns
                    \/ scroll + ViewRows =< topSpacer + RowsOf(MountedOf(slice, length), columns)
             PROVE  ViewIsFilled
  OBVIOUS
<1>1. /\ length \in Nat /\ columns \in ColumnCounts /\ slice \in Slices
      /\ topSpacer \in Nat /\ bottomSpacer \in Nat /\ scroll \in Nat
  BY DEF PageDrawn
<1>2. columns \in Nat /\ columns # 0 /\ ViewRows \in Nat
  BY <1>1, WindowSizes
<1>3. PICK q \in Nat : q = RowsOf(MountedOf(slice, length), columns)
  BY <1>1, <1>2, ShownIs, RowsHold
<1>4. PICK h \in Nat : h = Height
  BY <1>1, HeightIs DEF Height
<1>5. PICK x \in Int : x = Smaller(scroll + ViewRows, h) /\ x =< scroll + ViewRows
  <2>1. PICK y \in Nat : y = scroll + ViewRows
    BY <1>1, <1>2
  <2>2. Smaller(y, h) = IF y =< h THEN y ELSE h
    BY LargerSmaller
  <2>. QED
    BY <2>1, <2>2
<1>6. BlankRows = {j \in scroll..(x - 1) : j < topSpacer \/ j >= topSpacer + q}
  BY <1>3, <1>4, <1>5 DEF BlankRows
<1>7. \A j \in BlankRows : j \in Int /\ scroll =< j /\ j < x /\ j >= topSpacer + q
  BY <1>1, <1>3, <1>5, <1>6
<1>8. BlankRows # {} => length - Shown(slice, length).end < columns
  <2>1. SUFFICES ASSUME NEW j \in BlankRows
                 PROVE  length - Shown(slice, length).end < columns
    OBVIOUS
  <2>2. ~(scroll + ViewRows =< topSpacer + q)
    BY <1>1, <1>2, <1>3, <1>5, <1>7
  <2>. QED
    BY <1>3, <2>2
<1>. QED
  BY <1>3, <1>7, <1>8 DEF ViewIsFilled

\* The same of the state after a step.
LEMMA PlainFilledNext == PageDrawn' /\ ~Enabled(length)' => ViewIsFilled'
BY PlainFilled, PTL

\* The same of the state after a step.
LEMMA FilledIfNext ==
  /\ PageDrawn' /\ topSpacer' =< scroll'
  /\ \/ (length - Shown(slice, length).end < columns)'
     \/ (scroll + ViewRows =< topSpacer + RowsOf(MountedOf(slice, length), columns))'
  => ViewIsFilled'
<1>1. (topSpacer =< scroll)' <=> topSpacer' =< scroll'
  OBVIOUS
<1>. QED
  BY <1>1, FilledIf, PTL

-----------------------------------------------------------------------------
\* The grid starts with the first page of its list.
LEMMA WindowStarts == WindowInit => WindowInv
<1>. SUFFICES ASSUME WindowInit
             PROVE  WindowInv
  OBVIOUS
<1>1. length \in Nat /\ columns \in ColumnCounts /\ windowCount \in Nat /\ ViewRows \in Nat
  BY WindowAssumption, WindowSizes DEF WindowInit
<1>2. PICK e \in Nat : /\ e = Smaller(length, windowCount)
                       /\ e = IF length =< windowCount THEN length ELSE windowCount
  BY <1>1, LargerSmaller
<1>3. slice = [start |-> 0, end |-> e] /\ geom = 0 /\ topSpacer = 0 /\ bottomSpacer = 0 /\ scroll = 0
  BY <1>2 DEF WindowInit, NotMeasured
<1>4. slice \in Slices /\ SliceFits(slice, length)
  BY <1>1, <1>2, <1>3 DEF Slices, SliceFits, Enabled
<1>5. AtRow(slice.start, 0, 0)
  BY <1>3 DEF AtRow
<1>6. SpacersDrawn
  BY <1>3, <1>5 DEF SpacersDrawn, Spacers, NotMeasured
<1>7. scroll =< Larger(0, Height - ViewRows)
  <2>1. PICK h \in Nat : h = Height
    BY <1>1, <1>3, <1>4, HeightIs DEF Height
  <2>2. Larger(0, h - ViewRows) = IF 0 >= h - ViewRows THEN 0 ELSE h - ViewRows
    BY <1>1, LargerSmaller
  <2>. QED
    BY <1>1, <1>3, <2>1, <2>2
<1>8. PageDrawn
  BY <1>1, <1>3, <1>4, <1>5, <1>6, <1>7 DEF PageDrawn
<1>9. FrameWaits
  BY <1>1 DEF FrameWaits, WindowInit, Enabled, NoFrame
<1>. QED
  BY <1>8, <1>9 DEF WindowInv

\* A scroll stays inside the page, and asks for a frame.
LEMMA ScrollToKeeps ==
  ASSUME WindowInv, NEW row \in 0..Height, ScrollTo(row)
  PROVE  WindowInv' /\ (frame' = NoFrame => ViewIsFilled')
<1>1. /\ length \in Nat /\ columns \in ColumnCounts /\ slice \in Slices /\ geom \in Nat
      /\ topSpacer \in Nat /\ bottomSpacer \in Nat
  BY DEF WindowInv, PageDrawn
<1>2. PICK h \in Nat : h = Height
  BY <1>1, HeightIs DEF Height
<1>3. ViewRows \in Nat /\ row \in Nat
  BY <1>1, <1>2, WindowSizes
<1>4. /\ scroll' = row /\ row + ViewRows =< Larger(h, ViewRows)
      /\ frame' = IF Enabled(length) THEN Scheduled(length) ELSE frame
      /\ UNCHANGED <<length, columns, slice, geom, topSpacer, bottomSpacer, observes>>
  BY <1>2 DEF ScrollTo
<1>5. Height' = h
  BY <1>2, <1>4 DEF Height, HeightOf, RowsOf, MountedOf, Shown, Enabled, windowCount
<1>6. row =< Larger(0, h - ViewRows)
  <2>1. Larger(h, ViewRows) = IF h >= ViewRows THEN h ELSE ViewRows
    BY <1>3, LargerSmaller
  <2>2. Larger(0, h - ViewRows) = IF 0 >= h - ViewRows THEN 0 ELSE h - ViewRows
    BY <1>3, LargerSmaller
  <2>. QED
    BY <1>3, <1>4, <2>1, <2>2
<1>7. SpacersDrawn'
  <2>1. SpacersDrawn
    BY DEF WindowInv, PageDrawn
  <2>. QED
    BY <1>4, <2>1 DEF SpacersDrawn, AtRow, Spacers, Shown, Enabled, windowCount, RowsOf
<1>8. PageDrawn'
  <2>1. SliceFits(slice, length) /\ \E k \in Nat : AtRow(slice.start, k, geom)
    BY DEF WindowInv, PageDrawn
  <2>2. SliceFits(slice, length)' /\ (\E k \in Nat : AtRow(slice.start, k, geom))'
    BY <1>4, <2>1 DEF SliceFits, AtRow, Enabled, windowCount
  <2>3. scroll' \in Nat /\ scroll' =< Larger(0, Height - ViewRows)'
    BY <1>3, <1>4, <1>5, <1>6
  <2>. QED
    BY <1>1, <1>4, <1>7, <2>2, <2>3 DEF PageDrawn
<1>9. FrameWaits'
  BY <1>1, <1>4 DEF FrameWaits, WindowInv, Scheduled, Enabled, NoFrame
<1>10. frame' = NoFrame => ~Enabled(length')
  BY <1>1, <1>4 DEF Scheduled, NoFrame, WindowInv, FrameWaits
<1>11. ASSUME frame' = NoFrame PROVE ViewIsFilled'
  <2>1. ~Enabled(length)'
    BY <1>10, <1>11
  <2>. QED
    BY <1>8, <2>1, PlainFilledNext
<1>. QED
  BY <1>8, <1>9, <1>11 DEF WindowInv

\* A reflow of the grid leaves the spacers as they were drawn.
LEMMA ResizeKeeps ==
  ASSUME WindowInv, NEW c \in ColumnCounts, Resize(c)
  PROVE  WindowInv' /\ (frame' = NoFrame => ViewIsFilled')
<1>1. /\ length \in Nat /\ columns \in ColumnCounts /\ slice \in Slices /\ geom \in Nat
      /\ topSpacer \in Nat /\ bottomSpacer \in Nat /\ scroll \in Nat
  BY DEF WindowInv, PageDrawn
<1>2. PICK h \in Nat : h = HeightOf(slice, length, [top |-> topSpacer, bottom |-> bottomSpacer], c)
  BY <1>1, HeightIs
<1>3. /\ scroll' = Smaller(scroll, Larger(0, h - ViewRows)) /\ columns' = c
      /\ frame' = IF Enabled(length) THEN Scheduled(length) ELSE frame
      /\ UNCHANGED <<length, slice, geom, topSpacer, bottomSpacer, observes>>
  BY <1>2 DEF Resize
<1>4. Height' = h
  BY <1>2, <1>3 DEF Height, HeightOf, RowsOf, MountedOf, Shown, Enabled, windowCount
<1>5. SpacersDrawn'
  <2>1. SpacersDrawn
    BY DEF WindowInv, PageDrawn
  <2>. QED
    BY <1>3, <2>1 DEF SpacersDrawn, AtRow, Spacers, Shown, Enabled, windowCount, RowsOf
<1>6. PageDrawn'
  <2>1. SliceFits(slice, length) /\ \E k \in Nat : AtRow(slice.start, k, geom)
    BY DEF WindowInv, PageDrawn
  <2>2. SliceFits(slice, length)' /\ (\E k \in Nat : AtRow(slice.start, k, geom))'
    BY <1>3, <2>1 DEF SliceFits, AtRow, Enabled, windowCount
  <2>3. scroll' \in Nat /\ scroll' =< Larger(0, Height - ViewRows)'
    BY <1>1, <1>3, <1>4, ScrollKept
  <2>. QED
    BY <1>1, <1>3, <1>5, <2>2, <2>3 DEF PageDrawn
<1>7. FrameWaits'
  BY <1>1, <1>3 DEF FrameWaits, WindowInv, Scheduled, Enabled, NoFrame
<1>8. frame' = NoFrame => ~Enabled(length')
  BY <1>1, <1>3 DEF Scheduled, NoFrame, WindowInv, FrameWaits
<1>9. ASSUME frame' = NoFrame PROVE ViewIsFilled'
  <2>1. ~Enabled(length)'
    BY <1>8, <1>9
  <2>. QED
    BY <1>6, <2>1, PlainFilledNext
<1>. QED
  BY <1>6, <1>7, <1>9 DEF WindowInv

\* A render for a reason of its own draws what was last measured.
LEMMA RerenderedKeeps ==
  ASSUME WindowInv, Rerendered
  PROVE  WindowInv' /\ (frame' = NoFrame => ViewIsFilled')
<1>1. /\ length \in Nat /\ columns \in ColumnCounts /\ slice \in Slices /\ geom \in Nat
      /\ SliceFits(slice, length) /\ scroll \in Nat
  BY DEF WindowInv, PageDrawn
<1>2. PICK k \in Nat : AtRow(slice.start, k, geom)
  BY DEF WindowInv, PageDrawn
<1>3. PICK g \in Nat, j \in Nat :
        /\ AtRow(slice.start, j, g)
        /\ topSpacer = Spacers(slice, length, g).top
        /\ bottomSpacer = Spacers(slice, length, g).bottom
  BY DEF WindowInv, PageDrawn, SpacersDrawn
<1>4. /\ Spacers(slice, length, geom) # [top |-> topSpacer, bottom |-> bottomSpacer]
      /\ Drawn(slice, length, geom, columns)
      /\ frame' = Scheduled(length) /\ observes' = observes
  BY DEF Rerendered, Draw
<1>5. Enabled(length)
  <2>1. SUFFICES ASSUME ~Enabled(length)
                 PROVE  FALSE
    OBVIOUS
  <2>2. topSpacer = 0 /\ bottomSpacer = 0
    BY <1>1, <1>3, <2>1, SpacersAre
  <2>3. Spacers(slice, length, geom) = [top |-> 0, bottom |-> 0]
    BY <2>1 DEF Spacers
  <2>. QED
    BY <1>4, <2>2, <2>3
<1>6. PageDrawn'
  BY <1>1, <1>2, <1>4, DrawnKeeps
<1>7. length' = length
  BY <1>4 DEF Drawn
<1>8. FrameWaits' /\ frame' # NoFrame
  BY <1>1, <1>4, <1>5, <1>7 DEF FrameWaits, WindowInv, Scheduled, Enabled, NoFrame
<1>. QED
  BY <1>6, <1>8 DEF WindowInv

\* A list that is replaced is shown from its top.
LEMMA ListReplacedKeeps ==
  ASSUME WindowInv, NEW n \in ListLengths, ListReplaced(n)
  PROVE  WindowInv' /\ (frame' = NoFrame => ViewIsFilled')
<1>1. /\ length \in Nat /\ columns \in ColumnCounts /\ geom \in Nat /\ scroll \in Nat
      /\ n \in Nat /\ windowCount \in Nat
  BY WindowAssumption, WindowSizes DEF WindowInv, PageDrawn
<1>2. PICK e \in Nat : /\ e = Smaller(n, windowCount)
                       /\ e = IF n =< windowCount THEN n ELSE windowCount
  BY <1>1, LargerSmaller
<1>3. PICK r \in Slices : r = [start |-> 0, end |-> e]
  BY DEF Slices
<1>4. /\ Drawn(r, n, geom, columns)
      /\ observes' = ((observes \/ n # length) /\ Enabled(n))
      /\ frame' = IF Enabled(n) THEN Scheduled(n) ELSE frame
  BY <1>2, <1>3 DEF ListReplaced
<1>5. AtRow(r.start, 0, geom) /\ SliceFits(r, n)
  BY <1>1, <1>2, <1>3 DEF AtRow, SliceFits, Enabled
<1>6. PageDrawn'
  BY <1>1, <1>4, <1>5, DrawnKeeps
<1>7. length' = n
  BY <1>4 DEF Drawn
<1>8. FrameWaits'
  BY <1>1, <1>4, <1>7 DEF FrameWaits, WindowInv, Scheduled, Enabled, NoFrame
<1>9. frame' = NoFrame => ~Enabled(n)
  BY <1>1, <1>4 DEF Scheduled, NoFrame, WindowInv, FrameWaits
<1>10. ASSUME frame' = NoFrame PROVE ViewIsFilled'
  <2>1. ~Enabled(length)'
    BY <1>7, <1>9, <1>10
  <2>. QED
    BY <1>6, <2>1, PlainFilledNext
<1>. QED
  BY <1>6, <1>8, <1>10 DEF WindowInv

\* More of the list, or less of it, is measured at once.
LEMMA ListGrowsKeeps ==
  ASSUME WindowInv, NEW n \in ListLengths, ListGrows(n)
  PROVE  WindowInv' /\ (frame' = NoFrame => ViewIsFilled')
<1>1. /\ length \in Nat /\ columns \in ColumnCounts /\ geom \in Nat /\ scroll \in Nat
      /\ slice \in Slices /\ SliceFits(slice, length)
      /\ n \in Nat /\ windowCount \in Nat /\ windowCount # 0 /\ n # length
  BY WindowAssumption, WindowSizes DEF WindowInv, PageDrawn, ListGrows
<1>2. PICK k \in Nat : AtRow(slice.start, k, geom)
  BY DEF WindowInv, PageDrawn
<1>3. PICK m \in Nat : m = MountedOf(slice, n)
  BY <1>1, ShownIs
<1>4. PICK top \in Nat, sc \in Nat :
        top = Draw(slice, n, geom, columns).spacers.top /\ sc = Draw(slice, n, geom, columns).scroll
  <2>1. PICK a \in Nat, b \in Nat : Spacers(slice, n, geom) = [top |-> a, bottom |-> b]
    <3>1. Spacers(slice, n, geom).top \in Nat /\ Spacers(slice, n, geom).bottom \in Nat
      BY <1>1, SpacersCount
    <3>. QED
      BY <3>1 DEF Spacers
  <2>2. PICK h \in Nat : h = HeightOf(slice, n, [top |-> a, bottom |-> b], columns)
    BY <1>1, HeightIs
  <2>3. Smaller(scroll, Larger(0, h - ViewRows)) \in Nat
    BY <1>1, ScrollKept
  <2>. QED
    BY <2>1, <2>2, <2>3 DEF Draw
<1>5. PICK s \in Slices : s = Shown(slice, n)
  BY <1>1, ShownIs
<1>6. PICK r, g :
        /\ r = IF ~Enabled(n) THEN [start |-> 0, end |-> n]
               ELSE IF m = 0 THEN slice ELSE Recomputed(n, s, m, top, sc)
        /\ g = IF Enabled(n) /\ m > 0 THEN Measured(slice, m) ELSE geom
  OBVIOUS
<1>7. /\ Drawn(r, n, g, columns)
      /\ observes' = Enabled(n)
      /\ frame' = IF Enabled(n) THEN Scheduled(n) ELSE frame
  BY <1>3, <1>4, <1>5, <1>6 DEF ListGrows
<1>8. r \in Slices /\ g \in Nat /\ SliceFits(r, n) /\ \E j \in Nat : AtRow(r.start, j, g)
  <2>1. CASE ~Enabled(n)
    <3>1. r = [start |-> 0, end |-> n] /\ g = geom /\ n =< windowCount
      BY <1>1, <1>6, <2>1 DEF Enabled
    <3>2. AtRow(r.start, 0, g)
      BY <1>1, <3>1 DEF AtRow
    <3>. QED
      BY <1>1, <2>1, <3>1, <3>2 DEF Slices, SliceFits
  <2>2. CASE Enabled(n) /\ m = 0
    <3>1. r = slice /\ g = geom
      BY <1>6, <2>2
    <3>2. slice.end = slice.start + windowCount
      <4>1. SUFFICES ASSUME slice.end # slice.start + windowCount
                     PROVE  FALSE
        OBVIOUS
      <4>2. slice.start = 0 /\ slice.end \in Nat /\ slice.end =< windowCount
        BY <1>1, <4>1 DEF SliceFits, Slices
      <4>3. PICK e \in Nat : e = slice.end
        BY <4>2
      <4>4. Smaller(e, n) = (IF e =< n THEN e ELSE n)
            /\ Smaller(n, windowCount) = (IF n =< windowCount THEN n ELSE windowCount)
        BY <1>1, LargerSmaller
      <4>5. Shown(slice, n).start = 0 /\ Shown(slice, n).end \in Nat /\ Shown(slice, n).end > 0
        <5>1. CASE e > 0
          <6>1. Shown(slice, n) = [start |-> 0, end |-> Smaller(e, n)]
            BY <2>2, <4>2, <4>3, <5>1, <1>1 DEF Shown, Slices
          <6>. QED
            BY <1>1, <2>2, <4>4, <5>1, <6>1 DEF Enabled
        <5>2. CASE e = 0
          <6>1. Shown(slice, n) = [start |-> 0, end |-> Smaller(n, windowCount)]
            BY <2>2, <4>2, <4>3, <5>2 DEF Shown
          <6>. QED
            BY <1>1, <2>2, <4>4, <6>1 DEF Enabled
        <5>. QED
          BY <5>1, <5>2
      <4>6. MountedOf(slice, n) > 0
        <5>1. MountedOf(slice, n) = IF Shown(slice, n).end - Shown(slice, n).start >= 0
                                    THEN Shown(slice, n).end - Shown(slice, n).start ELSE 0
          BY <1>1, ShownIs
        <5>. QED
          BY <4>5, <5>1
      <4>. QED
        BY <1>3, <2>2, <4>6
    <3>. QED
      BY <1>1, <1>2, <3>1, <3>2 DEF SliceFits
  <2>3. CASE Enabled(n) /\ m > 0
    <3>1. PICK c \in Nat : c = Measured(s, m) /\ c # 0
      BY <1>1, MeasuredIs
    <3>2. PICK t \in Nat :
            /\ Recomputed(n, s, m, top, sc) = [start |-> t * c, end |-> t * c + windowCount]
            /\ t * c =< n - windowCount
            /\ IsSlice(t, c, FirstSeen(s.start, (sc - top) * c), n, behindCount, windowCount)
      BY <1>1, <1>3, <1>4, <1>5, <2>3, <3>1, RecomputedIs
    <3>3. PICK u \in Nat : u = t * c
      BY <3>1
    <3>4. r = [start |-> u, end |-> u + windowCount] /\ g = c
      BY <1>6, <2>3, <3>1, <3>2, <3>3 DEF Measured
    <3>5. AtRow(r.start, t, g)
      BY <3>1, <3>3, <3>4 DEF AtRow
    <3>. QED
      BY <1>1, <3>4, <3>5 DEF Slices, SliceFits
  <2>. QED
    BY <2>1, <2>2, <2>3
<1>9. PageDrawn'
  BY <1>1, <1>7, <1>8, DrawnKeeps
<1>10. length' = n
  BY <1>7 DEF Drawn
<1>11. FrameWaits'
  <2>1. observes' \in BOOLEAN /\ (Enabled(n) => observes')
    <3>1. Enabled(n) \in BOOLEAN
      BY DEF Enabled
    <3>. QED
      BY <1>7, <3>1, Zenon
  <2>2. frame' = NoFrame \/ (frame' \in Nat /\ Enabled(frame'))
    BY <1>1, <1>7 DEF FrameWaits, WindowInv, Scheduled, NoFrame
  <2>. QED
    BY <1>10, <2>1, <2>2 DEF FrameWaits, Enabled, windowCount
<1>12. frame' = NoFrame => ~Enabled(n)
  BY <1>1, <1>7 DEF Scheduled, NoFrame, WindowInv, FrameWaits
<1>13. ASSUME frame' = NoFrame PROVE ViewIsFilled'
  <2>1. ~Enabled(length)'
    BY <1>10, <1>12, <1>13
  <2>. QED
    BY <1>9, <2>1, PlainFilledNext
<1>. QED
  BY <1>9, <1>11, <1>13 DEF WindowInv

\* What a frame finds: the columns c of its measure, and the slice with row t.
FrameFound(m, c, t) ==
    LET s == Shown(slice, length)
        r == Recomputed(frame, s, m, topSpacer, scroll)
    IN  /\ m = MountedOf(slice, length)
        /\ m >= columns => c = columns
        /\ c = Measured(slice, m)
        /\ r = [start |-> t * c, end |-> t * c + windowCount]
        /\ t * c =< frame - windowCount
        /\ IsSlice(t, c, FirstSeen(s.start, (scroll - topSpacer) * c), frame, behindCount, windowCount)

\* A frame measures the cards that are mounted.
LEMMA FrameFinds ==
  ASSUME WindowInv, frame # NoFrame
  PROVE  \E m \in Nat : \E c \in Nat : c # 0 /\ \E t \in Nat : FrameFound(m, c, t)
<1>1. /\ length \in Nat /\ columns \in ColumnCounts /\ slice \in Slices
      /\ topSpacer \in Nat /\ scroll \in Nat /\ frame \in Nat /\ Enabled(frame)
  BY DEF WindowInv, PageDrawn, FrameWaits
<1>2. PICK m \in Nat : m = MountedOf(slice, length)
  BY <1>1, ShownIs
<1>3. PICK s \in Slices : s = Shown(slice, length)
  BY <1>1, ShownIs
<1>4. PICK c \in Nat : c = Measured(s, m) /\ c # 0 /\ (m >= columns => c = columns)
  BY <1>1, MeasuredIs
<1>5. PICK t \in Nat :
        /\ Recomputed(frame, s, m, topSpacer, scroll) = [start |-> t * c, end |-> t * c + windowCount]
        /\ t * c =< frame - windowCount
        /\ IsSlice(t, c, FirstSeen(s.start, (scroll - topSpacer) * c), frame, behindCount, windowCount)
  BY <1>1, <1>4, RecomputedIs
<1>6. FrameFound(m, c, t)
  BY <1>2, <1>3, <1>4, <1>5 DEF FrameFound, Measured
<1>. QED
  BY <1>4, <1>6

\* What a frame does.
LEMMA FrameDoes ==
  ASSUME WindowInv, FrameRuns, NEW m \in Nat, NEW c \in Nat, NEW t \in Nat, FrameFound(m, c, t)
  PROVE  LET r == [start |-> t * c, end |-> t * c + windowCount]
         IN  /\ \/ /\ m > 0 /\ r # slice /\ Drawn(r, length, c, columns)
                   /\ frame' = IF Again(Draw(r, length, c, columns).height # Height)
                               THEN length ELSE NoFrame
                \/ /\ ~(m > 0 /\ r # slice) /\ geom' = IF m > 0 THEN c ELSE geom
                   /\ UNCHANGED <<length, columns, slice, topSpacer, bottomSpacer, scroll>>
                   /\ frame' = IF Again(FALSE) THEN length ELSE NoFrame
             /\ observes' = FALSE
<1>1. PICK r : r = [start |-> t * c, end |-> t * c + windowCount]
  OBVIOUS
<1>2. /\ m = MountedOf(slice, length) /\ c = Measured(slice, m)
      /\ Recomputed(frame, Shown(slice, length), m, topSpacer, scroll) = r
  BY <1>1 DEF FrameFound
<1>3. Enabled(frame)
  BY DEF WindowInv, FrameWaits, FrameRuns
<1>4. PICK g : g = IF m > 0 THEN c ELSE geom
  OBVIOUS
<1>5. LET moved == m > 0 /\ r # slice
          taller == moved /\ Draw(r, length, g, columns).height # Height
      IN  /\ IF moved THEN Drawn(r, length, g, columns)
             ELSE geom' = g /\ UNCHANGED <<length, columns, slice, topSpacer, bottomSpacer, scroll>>
          /\ frame' = IF Again(taller) THEN length ELSE NoFrame
  BY <1>2, <1>3, <1>4 DEF FrameRuns
<1>6. observes' = FALSE
  BY DEF FrameRuns
<1>7. CASE m > 0 /\ r # slice
  <2>1. g = c
    BY <1>4, <1>7
  <2>2. Drawn(r, length, c, columns)
    BY <1>5, <1>7, <2>1
  <2>3. frame' = IF Again(Draw(r, length, c, columns).height # Height) THEN length ELSE NoFrame
    BY <1>5, <1>7, <2>1
  <2>. QED
    BY <1>1, <1>6, <1>7, <2>2, <2>3
<1>8. CASE ~(m > 0 /\ r # slice)
  BY <1>1, <1>4, <1>5, <1>6, <1>8
<1>. QED
  BY <1>7, <1>8

\* A frame draws a slice that starts with a row of the columns it measured.
LEMMA FrameRunsKeeps ==
  ASSUME WindowInv, FrameRuns
  PROVE  WindowInv'
<1>1. /\ length \in Nat /\ columns \in ColumnCounts /\ slice \in Slices /\ geom \in Nat
      /\ topSpacer \in Nat /\ bottomSpacer \in Nat /\ scroll \in Nat /\ windowCount \in Nat
      /\ SliceFits(slice, length) /\ SpacersDrawn /\ scroll =< Larger(0, Height - ViewRows)
  BY WindowSizes DEF WindowInv, PageDrawn
<1>2. PICK k \in Nat : AtRow(slice.start, k, geom)
  BY DEF WindowInv, PageDrawn
<1>3. PICK m \in Nat, c \in Nat, t \in Nat : c # 0 /\ FrameFound(m, c, t)
  <2>1. frame # NoFrame
    BY DEF FrameRuns
  <2>. QED
    BY <2>1, FrameFinds
<1>4. PICK u \in Nat : u = t * c
  OBVIOUS
<1>5. PICK r \in Slices : r = [start |-> u, end |-> u + windowCount]
  <2>1. u + windowCount \in Nat /\ u \in Nat
    BY <1>1, <1>4
  <2>2. [start |-> u, end |-> u + windowCount] \in Slices
    BY <2>1 DEF Slices
  <2>. QED
    BY <2>2
<1>6. AtRow(r.start, t, c) /\ SliceFits(r, length)
  BY <1>3, <1>4, <1>5 DEF AtRow, SliceFits
<1>7. /\ \/ m > 0 /\ r # slice /\ Drawn(r, length, c, columns)
         \/ /\ ~(m > 0 /\ r # slice) /\ geom' = IF m > 0 THEN c ELSE geom
            /\ UNCHANGED <<length, columns, slice, topSpacer, bottomSpacer, scroll>>
      /\ observes' = FALSE
      /\ frame' = NoFrame \/ (Enabled(length) /\ frame' = length)
  BY <1>3, <1>4, <1>5, FrameDoes DEF Again
<1>8. PageDrawn' /\ length' = length
  <2>1. CASE m > 0 /\ r # slice /\ Drawn(r, length, c, columns)
    <3>1. length' = length
      BY <2>1 DEF Drawn
    <3>. QED
      BY <1>1, <1>6, <2>1, <3>1, DrawnKeeps
  <2>2. CASE /\ ~(m > 0 /\ r # slice) /\ geom' = IF m > 0 THEN c ELSE geom
             /\ UNCHANGED <<length, columns, slice, topSpacer, bottomSpacer, scroll>>
    <3>1. geom' \in Nat /\ \E j \in Nat : AtRow(slice.start, j, geom')
      BY <1>1, <1>2, <1>6, <2>2
    <3>2. Height' = Height
      BY <2>2 DEF Height, HeightOf, RowsOf, MountedOf, Shown, Enabled, windowCount
    <3>3. SpacersDrawn'
      BY <1>1, <2>2 DEF SpacersDrawn, AtRow, Spacers, Shown, Enabled, windowCount, RowsOf
    <3>4. SliceFits(slice, length)' /\ (\E j \in Nat : AtRow(slice.start, j, geom))'
      BY <1>1, <2>2, <3>1 DEF SliceFits, AtRow, Enabled, windowCount
    <3>5. scroll' =< Larger(0, Height - ViewRows)'
      BY <1>1, <2>2, <3>2
    <3>. QED
      BY <1>1, <2>2, <3>1, <3>3, <3>4, <3>5 DEF PageDrawn
  <2>. QED
    BY <1>7, <2>1, <2>2
<1>9. FrameWaits'
  BY <1>1, <1>7, <1>8 DEF FrameWaits, Enabled
<1>. QED
  BY <1>8, <1>9 DEF WindowInv

\* The last frame leaves the viewport filled.
LEMMA LastFrameFills ==
  ASSUME WindowInv, FrameRuns, RowMounted, frame' = NoFrame
  PROVE  ViewIsFilled'
<1>1. /\ length \in Nat /\ columns \in ColumnCounts /\ slice \in Slices
      /\ topSpacer \in Nat /\ bottomSpacer \in Nat /\ scroll \in Nat
      /\ SliceFits(slice, length) /\ scroll =< Larger(0, Height - ViewRows)
  BY DEF WindowInv, PageDrawn
<1>2. PICK m \in Nat, c \in Nat, t \in Nat : c # 0 /\ FrameFound(m, c, t)
  <2>1. frame # NoFrame
    BY DEF FrameRuns
  <2>. QED
    BY <2>1, FrameFinds
<1>3. PICK u \in Nat : u = t * c
  OBVIOUS
<1>4. PICK w \in Nat : w = windowCount
  BY <1>1, WindowSizes
<1>5. PICK r \in Slices : r = [start |-> u, end |-> u + w]
  <2>1. u + w \in Nat /\ u \in Nat
    BY <1>3, <1>4
  <2>2. [start |-> u, end |-> u + w] \in Slices
    BY <2>1 DEF Slices
  <2>. QED
    BY <2>2
<1>6. AtRow(r.start, t, c) /\ SliceFits(r, length)
  BY <1>2, <1>3, <1>4, <1>5 DEF AtRow, SliceFits
<1>7. PageDrawn'
  BY FrameRunsKeeps DEF WindowInv
<1>8. length' = length
  <2>1. Drawn(r, length, c, columns) \/ length' = length
    BY <1>2, <1>3, <1>4, <1>5, FrameDoes
  <2>. QED
    BY <2>1 DEF Drawn
<1>9. CASE ~Enabled(length)
  <2>1. ~Enabled(length)'
    BY <1>8, <1>9 DEF Enabled, windowCount
  <2>. QED
    BY <1>7, <2>1, PlainFilledNext
<1>10. CASE Enabled(length)
  <2>1. PICK v \in Nat, b \in Nat, n \in Nat :
          /\ v = ViewRows /\ b = behindCount /\ n = length /\ w < n
    BY <1>1, <1>4, <1>10, WindowSizes DEF Enabled
  <2>2. /\ \/ m > 0 /\ r # slice /\ Drawn(r, n, c, columns) /\ Draw(r, n, c, columns).height = Height
           \/ /\ ~(m > 0 /\ r # slice)
              /\ UNCHANGED <<length, columns, slice, topSpacer, bottomSpacer, scroll>>
        /\ ~observes
    <3>1. Enabled(length) /\ length # NoFrame
      BY <1>1, <1>10 DEF NoFrame
    <3>2. \A x : frame' = (IF Again(x) THEN length ELSE NoFrame) => ~Again(x)
      BY <3>1
    <3>3. \A x \in BOOLEAN : ~Again(x) => ~x /\ ~observes
      BY <3>1 DEF Again
    <3>. QED
      BY <1>2, <1>3, <1>4, <1>5, <2>1, <3>2, <3>3, FrameDoes
  <2>3. frame = n
    BY <1>10, <2>1, <2>2 DEF WindowInv, FrameWaits, FrameRuns
  <2>4. m >= columns /\ c = columns /\ m > 0
    <3>1. m >= columns
      BY <1>2, <1>10 DEF RowMounted, FrameFound
    <3>2. columns \in Nat /\ columns # 0
      BY <1>1, WindowSizes
    <3>. QED
      BY <1>2, <3>1, <3>2 DEF FrameFound
  <2>5. c =< b /\ b + (v + 3) * c =< w /\ c \in ColumnCounts
    BY <1>1, <1>4, <2>1, <2>4, WindowSizes
  <2>6. PICK s \in Nat, e \in Nat :
          /\ s = slice.start /\ s = Shown(slice, n).start /\ e = Shown(slice, n).end
          /\ slice.end = s + w
          /\ e = IF s + w =< n THEN s + w ELSE n
    <3>1. slice.end = slice.start + w /\ slice.start \in Nat
      BY <1>1, <1>4, <1>10 DEF SliceFits, Slices
    <3>2. /\ Shown(slice, n).start = slice.start
          /\ Shown(slice, n).end = IF slice.end =< n THEN slice.end ELSE n
      BY <1>1, <1>4, <1>10, <2>1, <3>1, ShownIs
    <3>3. slice.start + w \in Nat /\ n \in Nat
      BY <1>4, <2>1, <3>1
    <3>. QED
      BY <3>1, <3>2, <3>3
  <2>7. m = e - s /\ s < e
    <3>1. m = IF e - s >= 0 THEN e - s ELSE 0
      <4>1. MountedOf(slice, n) = IF Shown(slice, n).end - Shown(slice, n).start >= 0
                                  THEN Shown(slice, n).end - Shown(slice, n).start ELSE 0
        BY <1>1, <2>1, ShownIs
      <4>. QED
        BY <1>2, <2>1, <2>6, <4>1 DEF FrameFound
    <3>. QED
      BY <2>4, <2>6, <3>1
  <2>8. /\ u =< n - w
        /\ IsSlice(t, c, FirstSeen(s, (scroll - topSpacer) * c), n, b, w)
    BY <1>2, <1>3, <1>4, <2>1, <2>3, <2>6 DEF FrameFound
  <2>9. PICK g \in Nat, k \in Nat :
          /\ AtRow(slice.start, k, g)
          /\ topSpacer = k
          /\ bottomSpacer = IF g = 0 THEN 0 ELSE RowsOf(n - e, g)
    <3>1. PICK g \in Nat, k \in Nat :
            /\ AtRow(slice.start, k, g)
            /\ topSpacer = Spacers(slice, length, g).top
            /\ bottomSpacer = Spacers(slice, length, g).bottom
      BY DEF WindowInv, PageDrawn, SpacersDrawn
    <3>2. /\ Spacers(slice, length, g).top = k
          /\ Spacers(slice, length, g).bottom = IF g = 0 THEN 0 ELSE RowsOf(length - Shown(slice, length).end, g)
      <4>1. /\ slice \in Slices /\ length \in Nat /\ columns \in ColumnCounts
            /\ SliceFits(slice, length) /\ Enabled(length)
        BY <1>1, <1>10
      <4>. QED
        BY <3>1, <4>1, SpacersAre
    <3>. QED
      BY <2>1, <2>6, <3>1, <3>2
  <2>10. s = k * g /\ (g = 0 => k = 0)
    BY <2>6, <2>9 DEF AtRow
  <2>11. /\ Shown(r, n).end = u + w /\ Shown(r, n).start = u /\ MountedOf(r, n) = w
    <3>1. Enabled(n) /\ r.end = r.start + windowCount /\ r.start = u /\ r.end = u + w
      BY <1>4, <1>5, <1>10, <2>1
    <3>2. Shown(r, n).start = u /\ Shown(r, n).end = u + w
      <4>1. Shown(r, n).start = r.start /\ Shown(r, n).end = IF r.end =< n THEN r.end ELSE n
        BY <1>1, <1>5, <2>1, <3>1, ShownIs
      <4>. QED
        BY <1>3, <1>4, <2>1, <2>8, <3>1, <4>1
    <3>3. MountedOf(r, n) = IF Shown(r, n).end - Shown(r, n).start >= 0
                            THEN Shown(r, n).end - Shown(r, n).start ELSE 0
      <4>1. r \in Slices /\ n \in Nat /\ columns \in ColumnCounts
        BY <1>1, <1>5, <2>1
      <4>. QED
        BY <4>1, ShownIs
    <3>. QED
      BY <1>3, <1>4, <3>2, <3>3
  <2>12. PICK vf \in Nat : /\ vf = FirstSeen(s, (scroll - k) * c)
                           /\ vf = IF s + (scroll - k) * c >= 0 THEN s + (scroll - k) * c ELSE 0
    <3>1. PICK d \in Int : d = (scroll - k) * c
      BY <1>1
    <3>. QED
      BY <3>1 DEF FirstSeen
  <2>13. IsSlice(t, c, vf, n, b, w)
    BY <2>8, <2>9, <2>12
  <2>14. CASE r = slice
    <3>1. UNCHANGED <<length, columns, slice, topSpacer, bottomSpacer, scroll>>
      BY <2>2, <2>14
    <3>2. s = t * c
      BY <1>3, <1>5, <2>6, <2>14
    <3>3. k > 0 => t > 0
      <4>1. SUFFICES ASSUME k > 0, t = 0
                     PROVE  FALSE
        OBVIOUS
      <4>2. k * g = 0 /\ g # 0
        BY <2>10, <3>2, <4>1
      <4>3. 0 * g + g =< k * g /\ 0 * g = 0
        BY <4>1, <4>2, Ordered
      <4>. QED
        BY <4>2, <4>3
    <3>4. scroll >= k /\ (n - (t * c + w) < c \/ scroll + v =< k + RowsOf(w, c))
      BY <1>1, <1>2, <2>1, <2>5, <2>12, <2>13, <3>2, <3>3, StaysFilled
    <3>5. topSpacer' =< scroll'
      BY <2>9, <3>1, <3>4
    <3>6. \/ length' - Shown(slice', length').end < columns'
          \/ scroll' + ViewRows =< topSpacer' + RowsOf(MountedOf(slice', length'), columns')
      <4>1. length' = n /\ slice' = r /\ columns' = c /\ scroll' = scroll /\ topSpacer' = k
        BY <2>1, <2>4, <2>9, <2>14, <3>1
      <4>. QED
        BY <1>3, <2>1, <2>11, <3>4, <4>1
    <3>. QED
      BY <1>7, <3>5, <3>6, FilledIfNext
  <2>15. CASE r # slice
    <3>1. Drawn(r, n, c, c) /\ Draw(r, n, c, c).height = Height
      BY <2>2, <2>4, <2>15
    <3>2. PICK bot \in Nat : bot = RowsOf(n - (u + w), c)
      <4>1. n - (u + w) \in Nat
        BY <2>8
      <4>. QED
        BY <1>2, <4>1, RowsHold
    <3>3. Spacers(r, n, c) = [top |-> t, bottom |-> bot]
      <4>1. Spacers(r, n, c).top = t /\ Spacers(r, n, c).bottom = bot
        <5>1. /\ Spacers(r, n, c).top = t
              /\ Spacers(r, n, c).bottom = IF c = 0 THEN 0 ELSE RowsOf(n - Shown(r, n).end, c)
          <6>1. AtRow(r.start, t, c) /\ SliceFits(r, n) /\ Enabled(n) /\ r \in Slices
            BY <1>5, <1>6, <1>10, <2>1
          <6>2. c \in Nat /\ n \in Nat /\ columns \in ColumnCounts
            BY <1>1, <1>2, <2>1
          <6>. QED
            BY <6>1, <6>2, SpacersAre
        <5>. QED
          BY <1>2, <2>11, <3>2, <5>1
      <4>. QED
        BY <4>1 DEF Spacers
    <3>4. PICK q \in Nat : q = RowsOf(w, c)
      BY <1>2, RowsHold
    <3>5. Height = t + q + bot
      BY <2>11, <3>1, <3>2, <3>3, <3>4 DEF Draw, HeightOf
    <3>6. k + RowsOf(e - s, c) + bottomSpacer = t + q + bot
      BY <1>2, <2>1, <2>4, <2>7, <2>9, <3>5 DEF Height, HeightOf, FrameFound
    <3>7. s - k * c < c /\ k * c - s < 2 * c
      <4>1. /\ t * c =< n - w
            /\ \/ e = n /\ n =< s + w
               \/ e = s + w /\ e < n
        BY <1>3, <2>1, <2>6, <2>8
      <4>2. k + RowsOf(e - s, c) + bottomSpacer = t + RowsOf(w, c) + RowsOf(n - (t * c + w), c)
        BY <1>3, <3>2, <3>4, <3>6
      <4>. QED
        <5>1. PICK bottom \in Nat : bottom = bottomSpacer
          BY <1>1
        <5>2. k + RowsOf(e - s, c) + bottom = t + RowsOf(w, c) + RowsOf(n - (t * c + w), c)
          BY <4>2, <5>1
        <5>3. bottom = IF g = 0 THEN 0 ELSE RowsOf(n - e, g)
          BY <2>9, <5>1
        <5>4. c # 0 /\ w < n /\ s < e
          BY <1>2, <2>1, <2>7
        <5>5. w \in Nat /\ n \in Nat /\ k \in Nat /\ s \in Nat /\ e \in Nat /\ g \in Nat /\ c \in Nat /\ t \in Nat
          BY <1>2, <1>4, <2>1, <2>6, <2>9
        <5>6. HeightKept(c, w, n, k, s, e, g, bottom, t)
          BY <2>10, <4>1, <5>2, <5>3, <5>4 DEF HeightKept
        <5>. QED
          BY <5>1, <5>5, <5>6, HeightTells
    <3>8. scroll >= t /\ (n - (t * c + w) < c \/ scroll + v =< t + RowsOf(w, c))
      BY <1>1, <1>2, <2>1, <2>5, <2>12, <2>13, <3>7, MovesFilled
    <3>9. topSpacer' = t /\ length' = n /\ slice' = r /\ columns' = c /\ scroll' = scroll
      <4>1. /\ topSpacer' = t /\ Height' = Height
            /\ scroll' = Smaller(scroll, Larger(0, Height' - ViewRows))
        BY <1>1, <1>6, <2>1, <2>5, <3>1, <3>3, DrawnKeeps
      <4>2. PICK h \in Nat : h = Height
        BY <1>1, HeightIs DEF Height
      <4>3. PICK x \in Nat : x = Larger(0, h - v)
        <5>1. Larger(0, h - v) = IF 0 >= h - v THEN 0 ELSE h - v
          BY LargerSmaller
        <5>. QED
          BY <5>1
      <4>4. Smaller(scroll, x) = scroll
        <5>1. Smaller(scroll, x) = IF scroll =< x THEN scroll ELSE x
          BY <1>1, LargerSmaller
        <5>. QED
          BY <1>1, <2>1, <4>2, <4>3, <5>1
      <4>5. scroll' = scroll
        BY <2>1, <4>1, <4>2, <4>3, <4>4
      <4>. QED
        BY <3>1, <4>1, <4>5 DEF Drawn
    <3>10. topSpacer' =< scroll'
      BY <3>8, <3>9
    <3>11. \/ length' - Shown(slice', length').end < columns'
           \/ scroll' + ViewRows =< topSpacer' + RowsOf(MountedOf(slice', length'), columns')
      BY <1>3, <2>1, <2>11, <3>8, <3>9
    <3>. QED
      BY <1>7, <3>10, <3>11, FilledIfNext
  <2>. QED
    BY <2>14, <2>15
<1>. QED
  BY <1>9, <1>10

\* Whatever happens to the grid, the page stays drawn as it is, and a step that
\* leaves no frame waiting leaves the viewport filled.
LEMMA WindowMovesOn ==
  WindowInv /\ [WindowNext]_windowVars =>
    WindowInv' /\ (WindowNext /\ RowMounted /\ frame' = NoFrame => ViewIsFilled')
<1>. SUFFICES ASSUME WindowInv, [WindowNext]_windowVars
             PROVE  WindowInv' /\ (WindowNext /\ RowMounted /\ frame' = NoFrame => ViewIsFilled')
  OBVIOUS
<1>1. ASSUME NEW row \in 0..Height, ScrollTo(row)
      PROVE  WindowInv' /\ (frame' = NoFrame => ViewIsFilled')
  BY <1>1, ScrollToKeeps
<1>2. ASSUME NEW c \in ColumnCounts, Resize(c)
      PROVE  WindowInv' /\ (frame' = NoFrame => ViewIsFilled')
  BY <1>2, ResizeKeeps
<1>3. CASE FrameRuns
  BY <1>3, FrameRunsKeeps, LastFrameFills
<1>4. CASE Rerendered
  BY <1>4, RerenderedKeeps
<1>5. ASSUME NEW n \in ListLengths, ListGrows(n)
      PROVE  WindowInv' /\ (frame' = NoFrame => ViewIsFilled')
  BY <1>5, ListGrowsKeeps
<1>6. ASSUME NEW n \in ListLengths, ListReplaced(n)
      PROVE  WindowInv' /\ (frame' = NoFrame => ViewIsFilled')
  BY <1>6, ListReplacedKeeps
<1>7. CASE UNCHANGED windowVars
  <2>1. UNCHANGED <<length, columns, slice, geom, topSpacer, bottomSpacer, scroll, frame, observes>>
    BY <1>7 DEF windowVars
  <2>2. Height' = Height
    BY <2>1 DEF Height, HeightOf, RowsOf, MountedOf, Shown, Enabled, windowCount
  <2>3. SpacersDrawn' <=> SpacersDrawn
    BY <2>1 DEF SpacersDrawn, AtRow, Spacers, Shown, Enabled, windowCount, RowsOf
  <2>4. /\ SliceFits(slice, length)' <=> SliceFits(slice, length)
        /\ (\E k \in Nat : AtRow(slice.start, k, geom))' <=> \E k \in Nat : AtRow(slice.start, k, geom)
    BY <2>1 DEF SliceFits, AtRow, Enabled, windowCount
  <2>5. PageDrawn'
    BY <2>1, <2>2, <2>3, <2>4 DEF WindowInv, PageDrawn
  <2>6. FrameWaits'
    BY <2>1 DEF WindowInv, FrameWaits, Enabled, windowCount
  <2>7. WindowNext /\ RowMounted /\ frame' = NoFrame => ViewIsFilled'
    BY <1>1, <1>2, <1>3, <1>4, <1>5, <1>6 DEF WindowNext
  <2>. QED
    BY <2>5, <2>6, <2>7 DEF WindowInv
<1>. QED
  BY <1>1, <1>2, <1>3, <1>4, <1>5, <1>6, <1>7 DEF WindowNext

-----------------------------------------------------------------------------
(* The pages side by side: a step of one of them is a step of its own      *)
(* component, and leaves the others alone.                                 *)

\* What the dock does is its own.
LEMMA DockAlone == DockSteps => ActivityNext /\ OnlyDock
BY DEF DockSteps, ActivityNext

\* What the admin page does is its own.
LEMMA AdminAlone == AdminSteps => AdminNext /\ OnlyAdmin
BY DEF AdminSteps, AdminNext

\* What the settings do is their own.
LEMMA SettingsAlone == SettingsSteps => SettingsNext /\ OnlySettings
BY DEF SettingsSteps, SettingsNext

\* What the record list does is its own.
LEMMA DbAlone == DbSteps => DbNext /\ OnlyDb
BY DEF DbSteps, DbNext

\* What the image cache does is its own.
LEMMA CacheAlone == CacheSteps => CacheNext /\ OnlyCache
BY DEF CacheSteps, CacheNext

\* What the explorer does is its own.
LEMMA GraphAlone == GraphSteps => GraphNext /\ OnlyGraph
BY DEF GraphSteps, GraphNext

\* What the tray does is its own.
LEMMA TrayAlone == TraySteps => TrayNext /\ OnlyTray
BY DEF TraySteps, TrayNext

\* What the folders panel does is its own.
LEMMA FoldersAlone == FoldersSteps => FoldersNext /\ OnlyFolders
BY DEF FoldersSteps, FoldersNext

\* What the gallery window does is its own.
LEMMA WindowAlone == WindowSteps => WindowNext /\ OnlyWindow
BY DEF WindowSteps, WindowNext

\* What the scraper and its page do is their own.
LEMMA ShelfAlone == ShelfSteps => ShelfNext /\ OnlyShelf
BY DEF ShelfSteps, ShelfNext

\* What the ingestion service does is its own.
LEMMA IngestAlone == IngestSteps => ServiceNext /\ OnlyIngest
BY DEF IngestSteps, ServiceNext, JobNext, ImageNext, KeeperNext

\* A step of the sum is one of the dock or leaves it alone.
LEMMA DockInSum == [SumNext]_sumVars => [ActivityNext]_activityVars
BY DockAlone, AdminAlone, SettingsAlone, DbAlone, CacheAlone, GraphAlone,
   TrayAlone, FoldersAlone, WindowAlone, ShelfAlone, IngestAlone
   DEF SumNext, sumVars, OnlyAdmin, OnlySettings, OnlyDb, OnlyCache, OnlyGraph, OnlyTray,
       OnlyFolders, OnlyWindow, OnlyShelf, OnlyIngest

\* A step of the sum is one of the admin page or leaves it alone.
LEMMA AdminInSum == [SumNext]_sumVars => [AdminNext]_adminVars
BY DockAlone, AdminAlone, SettingsAlone, DbAlone, CacheAlone, GraphAlone,
   TrayAlone, FoldersAlone, WindowAlone, ShelfAlone, IngestAlone
   DEF SumNext, sumVars, OnlyDock, OnlySettings, OnlyDb, OnlyCache, OnlyGraph, OnlyTray,
       OnlyFolders, OnlyWindow, OnlyShelf, OnlyIngest

\* A step of the sum is one of the settings or leaves them alone.
LEMMA SettingsInSum == [SumNext]_sumVars => [SettingsNext]_settingsVars
BY DockAlone, AdminAlone, SettingsAlone, DbAlone, CacheAlone, GraphAlone,
   TrayAlone, FoldersAlone, WindowAlone, ShelfAlone, IngestAlone
   DEF SumNext, sumVars, OnlyDock, OnlyAdmin, OnlyDb, OnlyCache, OnlyGraph, OnlyTray,
       OnlyFolders, OnlyWindow, OnlyShelf, OnlyIngest

\* A step of the sum is one of the record list or leaves it alone.
LEMMA DbInSum == [SumNext]_sumVars => [DbNext]_dbVars
BY DockAlone, AdminAlone, SettingsAlone, DbAlone, CacheAlone, GraphAlone,
   TrayAlone, FoldersAlone, WindowAlone, ShelfAlone, IngestAlone
   DEF SumNext, sumVars, OnlyDock, OnlyAdmin, OnlySettings, OnlyCache, OnlyGraph, OnlyTray,
       OnlyFolders, OnlyWindow, OnlyShelf, OnlyIngest

\* A step of the sum is one of the image cache or leaves it alone.
LEMMA CacheInSum == [SumNext]_sumVars => [CacheNext]_cacheVars
BY DockAlone, AdminAlone, SettingsAlone, DbAlone, CacheAlone, GraphAlone,
   TrayAlone, FoldersAlone, WindowAlone, ShelfAlone, IngestAlone
   DEF SumNext, sumVars, OnlyDock, OnlyAdmin, OnlySettings, OnlyDb, OnlyGraph, OnlyTray,
       OnlyFolders, OnlyWindow, OnlyShelf, OnlyIngest

\* A step of the sum is one of the explorer or leaves it alone.
LEMMA GraphInSum == [SumNext]_sumVars => [GraphNext]_graphVars
BY DockAlone, AdminAlone, SettingsAlone, DbAlone, CacheAlone, GraphAlone,
   TrayAlone, FoldersAlone, WindowAlone, ShelfAlone, IngestAlone
   DEF SumNext, sumVars, OnlyDock, OnlyAdmin, OnlySettings, OnlyDb, OnlyCache, OnlyTray,
       OnlyFolders, OnlyWindow, OnlyShelf, OnlyIngest

\* A step of the sum is one of the tray or leaves it alone.
LEMMA TrayInSum == [SumNext]_sumVars => [TrayNext]_trayVars
BY DockAlone, AdminAlone, SettingsAlone, DbAlone, CacheAlone, GraphAlone,
   TrayAlone, FoldersAlone, WindowAlone, ShelfAlone, IngestAlone
   DEF SumNext, sumVars, OnlyDock, OnlyAdmin, OnlySettings, OnlyDb, OnlyCache, OnlyGraph,
       OnlyFolders, OnlyWindow, OnlyShelf, OnlyIngest

\* A step of the sum is one of the folders panel or leaves it alone.
LEMMA FoldersInSum == [SumNext]_sumVars => [FoldersNext]_folderVars
BY DockAlone, AdminAlone, SettingsAlone, DbAlone, CacheAlone, GraphAlone,
   TrayAlone, FoldersAlone, WindowAlone, ShelfAlone, IngestAlone
   DEF SumNext, sumVars, OnlyDock, OnlyAdmin, OnlySettings, OnlyDb, OnlyCache, OnlyGraph,
       OnlyTray, OnlyWindow, OnlyShelf, OnlyIngest

\* A step of the sum is one of the gallery window or leaves it alone.
LEMMA WindowInSum == [SumNext]_sumVars => [WindowNext]_windowVars
BY DockAlone, AdminAlone, SettingsAlone, DbAlone, CacheAlone, GraphAlone,
   TrayAlone, FoldersAlone, WindowAlone, ShelfAlone, IngestAlone
   DEF SumNext, sumVars, OnlyDock, OnlyAdmin, OnlySettings, OnlyDb, OnlyCache, OnlyGraph,
       OnlyTray, OnlyFolders, OnlyShelf, OnlyIngest

\* A step of the sum is one of the scraper or leaves it alone.
LEMMA ShelfInSum == [SumNext]_sumVars => [ShelfNext]_shelfVars
BY DockAlone, AdminAlone, SettingsAlone, DbAlone, CacheAlone, GraphAlone,
   TrayAlone, FoldersAlone, WindowAlone, ShelfAlone, IngestAlone
   DEF SumNext, sumVars, OnlyDock, OnlyAdmin, OnlySettings, OnlyDb, OnlyCache, OnlyGraph,
       OnlyTray, OnlyFolders, OnlyWindow, OnlyIngest

\* A step of the sum is one of the ingestion service or leaves it alone.
LEMMA IngestInSum == [SumNext]_sumVars => [ServiceNext]_serviceVars
BY DockAlone, AdminAlone, SettingsAlone, DbAlone, CacheAlone, GraphAlone,
   TrayAlone, FoldersAlone, WindowAlone, ShelfAlone, IngestAlone
   DEF SumNext, sumVars, OnlyDock, OnlyAdmin, OnlySettings, OnlyDb, OnlyCache, OnlyGraph,
       OnlyTray, OnlyFolders, OnlyWindow, OnlyShelf

\* The options of the graph's picker and the preview of a folder are those of
\* their boxes or being asked for, and what is drawn is what is listed
\* (AnswersFitTheirQuestion), however requests overtake each other.
THEOREM SumAnswersFit == SumSpec => []AnswersFitTheirQuestion
<1>1. SumInit => GraphInit /\ FoldersInit
  BY DEF SumInit
<1>2. SumSpec => GraphSpec
  BY <1>1, GraphInSum, PTL DEF SumSpec, GraphSpec
<1>3. SumSpec => FoldersSpec
  BY <1>1, FoldersInSum, PTL DEF SumSpec, FoldersSpec
<1>. QED
  BY <1>2, <1>3, NothingStaleEver, PreviewFollowsThePath, PTL DEF AnswersFitTheirQuestion

\* What is picked is listed, what is hidden can be brought back, what the tray
\* asks for can be compared (PicksComeFromTheList).
THEOREM SumPicksAreListed == SumSpec => []PicksComeFromTheList
<1>1. SumInit => AdminInit /\ ShelfInit /\ TrayInit
  BY DEF SumInit
<1>2. AdminInv => SelectedIsListed
  BY DEF AdminInv
<1>3. SumSpec => []AdminInv
  BY <1>1, AdminStarts, AdminMoves, AdminInSum, PTL DEF SumSpec
<1>4. SumSpec => []ShelfInv
  BY <1>1, ShelfStarts, ShelfMoves, ShelfInSum, PTL DEF SumSpec
<1>5. SumSpec => []TrayInv
  BY <1>1, TrayStarts, TrayMoves, TrayInSum, PTL DEF SumSpec
<1>. QED
  BY <1>2, <1>3, <1>4, <1>5, ShelfReports, TrayIsCompared, PTL DEF PicksComeFromTheList

\* Nothing drops out on the way (NothingIsSkipped): pages of the record list,
\* folders of an ingest, books of a scrape, files and nodes of an ingestion.
THEOREM SumSkipsNothing == SumSpec => []NothingIsSkipped
<1>1. SumInit => DbInit /\ AdminInit /\ ShelfInit /\ ServiceInit
  BY DEF SumInit
<1>2. SumSpec => []DbInv
  BY <1>1, DbStarts, DbMoves, DbInSum, PTL DEF SumSpec
<1>3. SumSpec => []AdminInv
  BY <1>1, AdminStarts, AdminMoves, AdminInSum, PTL DEF SumSpec
<1>4. SumSpec => []ShelfInv
  BY <1>1, ShelfStarts, ShelfMoves, ShelfInSum, PTL DEF SumSpec
<1>5. SumSpec => []LayerInv
  BY <1>1, LayerStarts, LayerMoves, IngestInSum, PTL DEF SumSpec
<1>6. SumSpec => []NodesInv
  BY <1>1, <1>5, NodesStart, NodesMove, IngestInSum, PTL DEF SumSpec
<1>. QED
  BY <1>2, <1>3, <1>4, <1>5, <1>6, PagesAreCounted, FoldersAreTried, ShelfReports, RowsTellTheFiles,
     NodesAreBack, PTL DEF NothingIsSkipped

\* A job of the ingestion layer that says it completed has a row for every
\* file it found (FilesAreAccounted).
THEOREM SumAccountsForFiles == SumSpec => []FilesAreAccounted
<1>1. SumInit => ServiceInit
  BY DEF SumInit
<1>2. SumSpec => []LayerInv
  BY <1>1, LayerStarts, LayerMoves, IngestInSum, PTL DEF SumSpec
<1>. QED
  BY <1>2, RowsTellTheFiles, PTL

\* The image cache of the server answers with what was asked for.
THEOREM SumServesAsAsked == SumSpec => []ServedAsAsked
<1>1. SumInit => CacheInit
  BY DEF SumInit
<1>2. SumSpec => CacheSpec
  BY <1>1, CacheInSum, PTL DEF SumSpec, CacheSpec
<1>. QED
  BY <1>2, CacheServesAsAsked, PTL

\* No tab overwrites a choice of its user in the stored settings.
THEOREM SumKeepsChoices == SumSpec => StoredChoicesSurvive
<1>1. SumInit => SettingsInit
  BY DEF SumInit
<1>2. SumSpec => SettingsSpec
  BY <1>1, SettingsInSum, PTL DEF SumSpec, SettingsSpec
<1>. QED
  BY <1>2, ChoicesSurvive, PTL

\* The activity dock implements its abstract specification (KeepsItsPromise).
THEOREM SumKeepsThePromise == SumSpec => KeepsItsPromise
<1>1. SumInit => ActivityInit
  BY DEF SumInit
<1>2. SumSpec => ActivityInit /\ [][ActivityNext]_activityVars
  BY <1>1, DockInSum, PTL DEF SumSpec
<1>. QED
  BY <1>2, DockKeepsItsPromise, PTL

\* When the last frame has run, the window of the gallery overlaps the viewport
\* (OnlyTheEndIsBlank), in any layout, after any scrolls, resizes and new lists.
THEOREM SumFillsTheView == SumSpec => OnlyTheEndIsBlank
<1>1. SumInit => WindowInit
  BY DEF SumInit
<1>2. SumSpec => [][WindowNext]_windowVars
  BY WindowInSum, PTL DEF SumSpec
<1>3. SumSpec => []WindowInv
  BY <1>1, <1>2, WindowStarts, WindowMovesOn, PTL DEF SumSpec
<1>4. WindowInv /\ [WindowNext]_windowVars =>
        [RowMounted /\ frame' = NoFrame => ViewIsFilled']_windowVars
  <2>1. SUFFICES ASSUME WindowInv, WindowNext, RowMounted, frame' = NoFrame
                 PROVE  ViewIsFilled'
    OBVIOUS
  <2>. QED
    BY <2>1, WindowMovesOn
<1>. QED
  BY <1>2, <1>3, <1>4, PTL DEF OnlyTheEndIsBlank

=============================================================================
