----------------------------- MODULE ImageCache -----------------------------
(***************************************************************************)
(* The image bytes the web server serves: the grid tile, the preview and   *)
(* the "original" of an image, each from the browser's validator, else     *)
(* from Redis, else from the blob store (lib/library/image-cache.ts and    *)
(* the routes grid, thumbnail and file), and the cache page that counts    *)
(* and flushes what Redis holds.                                           *)
(*                                                                         *)
(* Bytes and content type are two keys, read and written by a pipeline     *)
(* that other clients interleave with, and Redis may evict either.  The    *)
(* blob store holds one preview per image, a WebP; the "original" is that  *)
(* preview too (lib/api-client.ts:61-67).                                  *)
(***************************************************************************)
EXTENDS Naturals, FiniteSets

CONSTANTS Shas,           \* images
          SmallShas,      \* those whose preview is no larger than a grid tile
          MaxByteGets,    \* bound on requests
          MaxCacheFaults  \* bound on evictions, outages and failed fetches

VARIABLES redis,      \* key -> value, a partial function
          redisUp,    \* is Redis reachable
          gets,       \* requests being served
          fills,      \* cache writes under way, after the answer
          answers,    \* the answers given
          flushing,   \* keys a flush still has to delete, or NotFlushing
          cachePage,  \* the cache page: loading, flushing, the entries shown
          byteGets, cacheFaults

cacheVars == <<redis, redisUp, gets, fills, answers, flushing, cachePage, byteGets, cacheFaults>>

ImageKind == {"thumb", "orig", "grid"}
NotFlushing == {"idle"}
Preview(i) == <<i, "preview">>
Tile(i) == <<i, "tile">>

CacheFault == cacheFaults < MaxCacheFaults /\ cacheFaults' = cacheFaults + 1
Holds(k) == k \in DOMAIN redis
Deleted(ks) == [k \in DOMAIN redis \ ks |-> redis[k]]
Setex(k, v) == [x \in DOMAIN redis \union {k} |-> IF x = k THEN v ELSE redis[x]]

dataKey(i, kind) == <<i, kind, "data">>
ctKey(i, kind) == <<i, kind, "ct">>

----------------------------------------------------------------------------
(* getCachedImage and setCachedImage.                                      *)

\* the type of an entry whose type key is gone, were it the same for all
DefaultTypeJpeg(kind) == "jpeg"
DefaultType(kind) == IF kind = "orig" THEN "jpeg" ELSE "webp"

\* The two reads of the pipeline; an error is a miss.
ReadData(g) ==
    /\ g.stage = "asked"
    /\ gets' = (gets \ {g}) \union
         {[g EXCEPT !.stage = IF redisUp /\ Holds(dataKey(g.img, g.kind)) THEN "data read" ELSE "miss",
                    !.bytes = IF redisUp /\ Holds(dataKey(g.img, g.kind)) THEN redis[dataKey(g.img, g.kind)] ELSE g.bytes]}
    /\ UNCHANGED <<redis, redisUp, fills, answers, flushing, cachePage, byteGets, cacheFaults>>

Answer(g, status, type) == [img |-> g.img, kind |-> g.kind, status |-> status, bytes |-> g.bytes, type |-> type]

ServeCached(g) ==
    /\ g.stage = "data read"
    /\ IF redisUp
       THEN /\ answers' = answers \union
                 {Answer(g, 200, IF Holds(ctKey(g.img, g.kind)) THEN redis[ctKey(g.img, g.kind)] ELSE DefaultType(g.kind))}
            /\ gets' = gets \ {g}
       ELSE gets' = (gets \ {g}) \union {[g EXCEPT !.stage = "miss", !.bytes = <<>>]} /\ UNCHANGED answers
    /\ UNCHANGED <<redis, redisUp, fills, flushing, cachePage, byteGets, cacheFaults>>

\* The two writes; nobody waits for them, and an error is dropped.
FillData(f) == /\ f.left = "data"
               /\ redis' = IF redisUp THEN Setex(dataKey(f.img, f.kind), f.bytes) ELSE redis
               /\ fills' = (fills \ {f}) \union (IF redisUp THEN {[f EXCEPT !.left = "type"]} ELSE {})
               /\ UNCHANGED <<redisUp, gets, answers, flushing, cachePage, byteGets, cacheFaults>>

FillType(f) == /\ f.left = "type"
               /\ redis' = IF redisUp THEN Setex(ctKey(f.img, f.kind), f.type) ELSE redis
               /\ fills' = fills \ {f}
               /\ UNCHANGED <<redisUp, gets, answers, flushing, cachePage, byteGets, cacheFaults>>

----------------------------------------------------------------------------
(* The routes.                                                             *)

GetImage(i, kind) ==
    /\ byteGets < MaxByteGets /\ byteGets' = byteGets + 1
    /\ gets' = gets \union {[id |-> byteGets, img |-> i, kind |-> kind, stage |-> "asked", bytes |-> <<>>]}
    /\ UNCHANGED <<redis, redisUp, fills, answers, flushing, cachePage, cacheFaults>>

\* The browser asks again for a URL it has: nothing else is looked at.
NotModified(i, kind) ==
    /\ byteGets < MaxByteGets /\ byteGets' = byteGets + 1
    /\ \E a \in answers : /\ a.img = i /\ a.kind = kind /\ a.status = 200
                          /\ answers' = answers \union {[a EXCEPT !.status = 304]}
    /\ UNCHANGED <<redis, redisUp, gets, fills, flushing, cachePage, cacheFaults>>

\* What the blob store's preview becomes: a tile no larger than 512 pixels is
\* passed through, a larger one is scaled down and encoded as WebP.
Derived(i, kind) == IF kind = "grid" /\ i \notin SmallShas THEN Tile(i) ELSE Preview(i)

\* A small image passes its own type on; without one the kind's default.
TypeServed(i, kind, header) == IF header \/ (kind = "grid" /\ i \notin SmallShas) THEN "webp" ELSE DefaultType(kind)

Fetched(g) ==
    /\ g.stage = "miss"
    /\ \E header \in BOOLEAN :
         LET bytes == Derived(g.img, g.kind)
             type == TypeServed(g.img, g.kind, header)
         IN /\ answers' = answers \union {Answer([g EXCEPT !.bytes = bytes], 200, type)}
            /\ fills' = fills \union {[img |-> g.img, kind |-> g.kind, bytes |-> bytes, type |-> type, left |-> "data"]}
    /\ gets' = gets \ {g}
    /\ UNCHANGED <<redis, redisUp, flushing, cachePage, byteGets, cacheFaults>>

\* A preview that is not there (or no store is configured), a refusal, and a
\* fetch or a conversion that throws.
Failures == {404, 502, 500}

FetchFails(g) == /\ g.stage = "miss"
                 /\ CacheFault
                 /\ \E status \in Failures : answers' = answers \union {Answer(g, status, "json")}
                 /\ gets' = gets \ {g}
                 /\ UNCHANGED <<redis, redisUp, fills, flushing, cachePage, byteGets>>

----------------------------------------------------------------------------
(* Redis itself.                                                           *)

Evicted(k) == /\ Holds(k) /\ CacheFault
              /\ redis' = Deleted({k})
              /\ UNCHANGED <<redisUp, gets, fills, answers, flushing, cachePage, byteGets>>

RedisDown == /\ redisUp /\ CacheFault
             /\ redisUp' = FALSE
             /\ UNCHANGED <<redis, gets, fills, answers, flushing, cachePage, byteGets>>

RedisBack == /\ ~redisUp
             /\ redisUp' = TRUE
             /\ UNCHANGED <<redis, gets, fills, answers, flushing, cachePage, byteGets, cacheFaults>>

----------------------------------------------------------------------------
(* The cache page and its route.                                           *)

\* The counted entries: those of the grid tiles are not among them.
Counted == {k \in DOMAIN redis : k[2] \in {"thumb", "orig"} /\ k[3] = "data"}
NoEntries == [connected |-> FALSE, entries |-> {}]

RefreshCache == /\ ~cachePage.loading
                /\ cachePage' = [cachePage EXCEPT !.loading = TRUE]
                /\ UNCHANGED <<redis, redisUp, gets, fills, answers, flushing, byteGets, cacheFaults>>

StatsArrive == /\ cachePage.loading
               /\ cachePage' = [cachePage EXCEPT !.loading = FALSE,
                     !.shown = IF redisUp THEN [connected |-> TRUE, entries |-> Counted] ELSE NoEntries]
               /\ UNCHANGED <<redis, redisUp, gets, fills, answers, flushing, byteGets, cacheFaults>>

\* DELETE: the keys are scanned first and deleted in batches.
Flush == /\ ~cachePage.flushing /\ ~cachePage.loading
         /\ cachePage' = [cachePage EXCEPT !.flushing = TRUE]
         /\ flushing' = IF redisUp THEN DOMAIN redis ELSE {}
         /\ UNCHANGED <<redis, redisUp, gets, fills, answers, byteGets, cacheFaults>>

DeleteBatch == /\ flushing # NotFlushing /\ flushing # {}
               /\ IF redisUp
                  THEN \E batch \in (SUBSET flushing) \ {{}} : redis' = Deleted(batch) /\ flushing' = flushing \ batch
                  ELSE flushing' = {} /\ UNCHANGED redis
               /\ UNCHANGED <<redisUp, gets, fills, answers, cachePage, byteGets, cacheFaults>>

Flushed == /\ flushing = {}
           /\ flushing' = NotFlushing
           /\ cachePage' = [cachePage EXCEPT !.flushing = FALSE, !.loading = TRUE]
           /\ UNCHANGED <<redis, redisUp, gets, fills, answers, byteGets, cacheFaults>>

----------------------------------------------------------------------------
CacheInit == /\ redis = [k \in {} |-> <<>>] /\ redisUp = TRUE
             /\ gets = {} /\ fills = {} /\ answers = {}
             /\ flushing = NotFlushing
             /\ cachePage = [loading |-> FALSE, flushing |-> FALSE, shown |-> NoEntries]
             /\ byteGets = 0 /\ cacheFaults = 0

CacheNext ==
    \/ \E i \in Shas, kind \in ImageKind : GetImage(i, kind) \/ NotModified(i, kind)
    \/ \E g \in gets : ReadData(g) \/ ServeCached(g) \/ Fetched(g) \/ FetchFails(g)
    \/ \E f \in fills : FillData(f) \/ FillType(f)
    \/ \E k \in DOMAIN redis : Evicted(k)
    \/ RedisDown \/ RedisBack
    \/ RefreshCache \/ StatsArrive \/ Flush \/ DeleteBatch \/ Flushed

CacheSpec == CacheInit /\ [][CacheNext]_cacheVars

----------------------------------------------------------------------------
(* However reads, writes, evictions, flushes and outages interleave, a tile *)
(* or a preview that is served is the one of the image asked for, in the    *)
(* size asked for, and labelled as the WebP it is.  (The "original" is a    *)
(* WebP too, but reads as a JPEG once its type key is gone.)                *)
ServedAsAsked ==
    \A a \in answers :
        a.status \notin Failures => a.bytes = Derived(a.img, a.kind) /\ (a.kind # "orig" => a.type = "webp")
=============================================================================
