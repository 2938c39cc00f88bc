------------------------------ MODULE ImgCache ------------------------------
(***************************************************************************)
(* The cache of the image proxy (app/routes/links/proxy.py): an ordered    *)
(* dict, the least recently used image first, bounded in entries and in    *)
(* bytes, whose size in bytes is a counter kept beside it.                 *)
(*                                                                         *)
(* Nothing awaits while the lock is held, so looking up and storing are    *)
(* one step each; between them the image is fetched, and any number of     *)
(* requests, the warm-up of the start included, fetch the same one.        *)
(***************************************************************************)
EXTENDS Integers, Sequences

CONSTANTS
    ImageUrls,    \* image addresses
    MaxEntries,   \* _IMG_CACHE_MAX
    MaxBytes,     \* _IMG_CACHE_MAX_BYTES
    MaxImage,     \* _MAX_IMG_BYTES
    MaxFetches    \* bound on the simultaneous fetches of one image

\* The values of the constants: an image always fits in an empty cache.
CacheConstants ==
    /\ MaxEntries \in Nat \ {0} /\ MaxImage \in Nat /\ MaxFetches \in Nat
    /\ MaxBytes \in Nat /\ MaxImage <= MaxBytes

Fetcher == {"proxy", "warm-up"}

\* size 0: a failure remembered without content.
Entry == [url : ImageUrls, size : 0 .. MaxImage, fresh : BOOLEAN]

VARIABLES
    cache,    \* _img_cache
    bytes,    \* _img_cache_bytes
    fetching  \* the fetches awaited, by image and by what asked for them

vars == <<cache, bytes, fetching>>

TypeOK ==
    /\ cache \in Seq(Entry)
    /\ bytes \in 0 .. MaxBytes
    /\ fetching \in [ImageUrls \X Fetcher -> 0 .. MaxFetches]

Init ==
    /\ cache = <<>>
    /\ bytes = 0
    /\ fetching = [f \in ImageUrls \X Fetcher |-> 0]

-----------------------------------------------------------------------------

SizeOf(entries) ==
    LET sum[n \in 0 .. Len(entries)] ==
            IF n = 0 THEN 0 ELSE sum[n - 1] + entries[n].size
    IN  sum[Len(entries)]

\* The place of image u, if it has one.
PlacesOf(u) == {i \in 1 .. Len(cache) : cache[i].url = u}

\* The entry at place i, alone, and the others.
EntryAt(i) == SubSeq(cache, i, i)
Without(i) == SubSeq(cache, 1, i - 1) \o SubSeq(cache, i + 1, Len(cache))

\* pop(url, None), and what it leaves.
EntryOf(u)    == IF PlacesOf(u) = {} THEN <<>>  ELSE EntryAt(CHOOSE i \in PlacesOf(u) : TRUE)
OthersThan(u) == IF PlacesOf(u) = {} THEN cache ELSE Without(CHOOSE i \in PlacesOf(u) : TRUE)

IsFresh(u) == \E i \in PlacesOf(u) : cache[i].fresh

\* The condition that ends the loop of evictions.
Fits(entries, size) == Len(entries) <= MaxEntries /\ size <= MaxBytes

\* The number of evictions: the loop stops as soon as the rest fits.
Evictions(entries, size) ==
    CHOOSE k \in 0 .. Len(entries) :
        LET Enough(n) == \/ n = Len(entries)
                         \/ Fits(SubSeq(entries, n + 1, Len(entries)),
                                 size - SizeOf(SubSeq(entries, 1, n)))
        IN  Enough(k) /\ \A n \in 0 .. k - 1 : ~Enough(n)

\* The bytes of the entry a new one replaces.
Replaced(u) == SizeOf(EntryOf(u))

\* What k evictions leave: the first entries go.
Kept(entries, k) == SubSeq(entries, k + 1, Len(entries))

\* _cache_store
CacheStore(u, size) ==
    LET entries == Append(OthersThan(u), [url |-> u, size |-> size, fresh |-> TRUE])
        total   == bytes - Replaced(u) + size
        k       == Evictions(entries, total)
    IN  /\ cache' = Kept(entries, k)
        /\ bytes' = total - SizeOf(SubSeq(entries, 1, k))

\* _cache_drop
CacheDrop(u) ==
    /\ cache' = OthersThan(u)
    /\ bytes' = bytes - Replaced(u)

Fetch(u, by) ==
    /\ fetching[<<u, by>>] < MaxFetches
    /\ fetching' = [fetching EXCEPT ![<<u, by>>] = @ + 1]

Fetched(u, by) ==
    /\ fetching[<<u, by>>] > 0
    /\ fetching' = [fetching EXCEPT ![<<u, by>>] = @ - 1]

-----------------------------------------------------------------------------

\* proxy_image, a fresh entry: it becomes the most recently used.
ProxyHit(u) ==
    /\ IsFresh(u)
    /\ cache' = OthersThan(u) \o EntryOf(u)
    /\ UNCHANGED <<bytes, fetching>>

\* proxy_image, no entry or a stale one, which is dropped.
ProxyMiss(u) ==
    /\ ~IsFresh(u)
    /\ CacheDrop(u)
    /\ Fetch(u, "proxy")

\* The _fetch of warm_img_cache leaves a stale entry where it is.
WarmMiss(u) ==
    /\ ~IsFresh(u)
    /\ Fetch(u, "warm-up")
    /\ UNCHANGED <<cache, bytes>>

\* The image is there: it is stored, whatever was stored meanwhile.
FetchStores(u, by, size) ==
    /\ Fetched(u, by)
    /\ CacheStore(u, size)

\* The site answers without the image: the proxy alone remembers it.
FetchRefused(u) ==
    /\ Fetched(u, "proxy")
    /\ CacheStore(u, 0)

\* A refused address, a time out, no image, or one that is too large.
FetchFails(u, by) ==
    /\ Fetched(u, by)
    /\ UNCHANGED <<cache, bytes>>

\* Time passes: the expiry of an entry is reached.
Expire(i) ==
    /\ cache[i].fresh
    /\ cache' = [cache EXCEPT ![i].fresh = FALSE]
    /\ UNCHANGED <<bytes, fetching>>

Next ==
    \/ \E u \in ImageUrls : ProxyHit(u)
    \/ \E u \in ImageUrls : ProxyMiss(u)
    \/ \E u \in ImageUrls : WarmMiss(u)
    \/ \E u \in ImageUrls, by \in Fetcher, size \in 0 .. MaxImage : FetchStores(u, by, size)
    \/ \E u \in ImageUrls : FetchRefused(u)
    \/ \E u \in ImageUrls, by \in Fetcher : FetchFails(u, by)
    \/ \E i \in DOMAIN cache : Expire(i)

Spec == Init /\ [][Next]_vars

-----------------------------------------------------------------------------
(* Properties *)

\* The counter is the size of what is stored: no replacement, drop or eviction,
\* and no two fetches of one image, make it drift.  A drift upwards would empty
\* the cache for ever, one downwards would let it fill the memory.
BytesAreExact == bytes = SizeOf(cache)

\* Both bounds hold whenever the lock is free, by what is really stored, and an
\* image is stored once.
CapsHold ==
    /\ Len(cache) <= MaxEntries /\ SizeOf(cache) <= MaxBytes
    /\ \A i, j \in 1 .. Len(cache) : cache[i].url = cache[j].url => i = j
=============================================================================
