--------------------------- MODULE ProcessMemory ---------------------------
(***************************************************************************)
(* What the server process keeps in its own memory for as long as it runs, *)
(* and must keep bounded: the table of the request counter (RateLimit),    *)
(* the cache of the image proxy (ImgCache) and that of the resolver        *)
(* (DnsCache).  They share no state and no step: what holds of each, the   *)
(* others cannot change.                                                   *)
(***************************************************************************)
EXTENDS RateLimit

CONSTANTS ImageUrls, MaxEntries, MaxBytes, MaxImage, MaxFetches
VARIABLES cache, bytes, fetching

Images == INSTANCE ImgCache

ASSUME ImagesAssumption == Images!CacheConstants

CONSTANTS Hosts, Lookups, MaxNames, TTL, MaxWait, Nobody
VARIABLES names, lookup, public, since

Resolver == INSTANCE DnsCache WITH MaxEntries <- MaxNames

ASSUME ResolverAssumption == Resolver!DnsConstants

images   == <<cache, bytes, fetching>>
resolver == <<names, lookup, public, since>>

-----------------------------------------------------------------------------
(* Properties *)

\* Whatever is fetched or resolved at once, neither cache grows past its caps,
\* and the size counted for the images is that of the entries kept: see ImgCache
\* and DnsCache, whose types it includes.
CachesAreCapped ==
    /\ Images!TypeOK /\ Images!BytesAreExact /\ Images!CapsHold
    /\ Resolver!TypeOK /\ Resolver!NamesAreCapped

\* What the resolver answers from its cache was true recently: see DnsCache.
VerdictsAreRecent == Resolver!VerdictsAreRecent
=============================================================================
