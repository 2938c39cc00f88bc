------------------------------ MODULE DnsCache ------------------------------
(***************************************************************************)
(* The resolver cache of the network guard (app/routes/links/net_guard.py, *)
(* _hostname_resolves_public): whether the addresses of a host are public, *)
(* remembered for a while, in a dict bounded in entries.                   *)
(*                                                                         *)
(* A lookup reads the clock and the cache, then awaits the resolver, once  *)
(* or twice; what it stores counts from the time it read first, while any  *)
(* number of other lookups, of the same host too, store their own answers. *)
(***************************************************************************)
EXTENDS Integers, Sequences

CONSTANTS
    Hosts,       \* host names
    Lookups,     \* coroutines that may look a host up at once
    MaxEntries,  \* _DNS_CACHE_MAX
    TTL,         \* _DNS_CACHE_TTL, in ticks of the clock
    MaxWait,     \* bound on the ticks a resolver may take
    Nobody       \* no host

\* The values of the constants.
DnsConstants ==
    /\ MaxEntries \in Nat \ {0} /\ TTL \in Nat \ {0} /\ MaxWait \in Nat
    /\ Nobody \notin Hosts

\* An entry of the dict: left is expiry - now, the number of ticks it is still
\* valid; a long expired one is not told from another.
Entry == [host : Hosts, verdict : BOOLEAN, left : -MaxWait .. TTL]

\* A lookup: spent is the time since it read the clock; tries, the answers it
\* has had.
Lookup == [host : Hosts \cup {Nobody}, spent : 0 .. MaxWait, tries : 0 .. 1]

VARIABLES
    names,    \* _dns_cache, the oldest insertion first
    lookup,   \* the lookups awaiting the resolver
    public,   \* what the addresses of each host are at present
    since     \* for each host and verdict, ticks since it was last true

vars == <<names, lookup, public, since>>

Idle == [host |-> Nobody, spent |-> 0, tries |-> 0]

TypeOK ==
    /\ names \in Seq(Entry)
    /\ lookup \in [Lookups -> Lookup]
    /\ public \in [Hosts -> BOOLEAN]
    /\ since \in [Hosts \X BOOLEAN -> 0 .. TTL + 1]

Init ==
    /\ names = <<>>
    /\ lookup = [l \in Lookups |-> Idle]
    /\ public \in [Hosts -> BOOLEAN]
    /\ since = [h \in Hosts \X BOOLEAN |-> IF h[2] = public[h[1]] THEN 0 ELSE TTL + 1]

-----------------------------------------------------------------------------

Known(h)      == \E i \in DOMAIN names : names[i].host = h
IsFresh(e)    == e.left > 0
FreshEntry(h) == \E i \in DOMAIN names : names[i].host = h /\ IsFresh(names[i])

\* The addresses of a host change.
Change(h) ==
    /\ public' = [public EXCEPT ![h] = ~@]
    /\ since' = [since EXCEPT ![<<h, ~public[h]>>] = 0]
    /\ UNCHANGED <<names, lookup>>

\* Another tick: every entry is a tick older, every lookup has waited longer.
Tick ==
    /\ \A l \in Lookups : lookup[l].host # Nobody => lookup[l].spent < MaxWait
    /\ names' = [i \in DOMAIN names |->
           [names[i] EXCEPT !.left = IF @ > -MaxWait THEN @ - 1 ELSE @]]
    /\ lookup' = [l \in Lookups |-> IF lookup[l].host = Nobody THEN Idle
                                    ELSE [lookup[l] EXCEPT !.spent = @ + 1]]
    /\ since' = [h \in Hosts \X BOOLEAN |->
           IF h[2] = public[h[1]] THEN 0
           ELSE IF since[h] <= TTL THEN since[h] + 1 ELSE since[h]]
    /\ UNCHANGED public

\* Mutant of Hit: a hit prolongs the entry.
HitProlongs(h) ==
    /\ FreshEntry(h)
    /\ names' = [i \in DOMAIN names |->
           IF names[i].host = h THEN [names[i] EXCEPT !.left = TTL] ELSE names[i]]
    /\ UNCHANGED <<lookup, public, since>>

\* The verdict in the cache is used.
Hit(h) == FreshEntry(h) /\ UNCHANGED vars

Ask(l, h) ==
    /\ lookup[l] = Idle /\ ~FreshEntry(h)
    /\ lookup' = [lookup EXCEPT ![l] = [Idle EXCEPT !.host = h]]
    /\ UNCHANGED <<names, public, since>>

\* The entries that had not expired `spent` ticks ago, in their order.
Unexpired(entries, spent) ==
    LET kept[n \in 0 .. Len(entries)] ==
            IF n = 0 THEN <<>>
            ELSE IF entries[n].left + spent > 0 THEN Append(kept[n - 1], entries[n])
                 ELSE kept[n - 1]
    IN  kept[Len(entries)]

\* Mutant of MakeRoom: only what has expired leaves.
DropExpired(entries, spent) == Unexpired(entries, spent)

\* _dns_cache_store for a host that has no entry: when the dict is full, what
\* had expired when the lookup began leaves, then the oldest insertions.
MakeRoom(entries, spent) ==
    IF Len(entries) < MaxEntries THEN entries
    ELSE LET live == Unexpired(entries, spent)
         IN  IF Len(live) < MaxEntries THEN live
             ELSE SubSeq(live, Len(live) - MaxEntries + 2, Len(live))

Stored(h, verdict, spent) ==
    LET entry == [host |-> h, verdict |-> verdict, left |-> TTL - spent]
    IN  IF Known(h) THEN [i \in DOMAIN names |-> IF names[i].host = h THEN entry ELSE names[i]]
        ELSE Append(MakeRoom(names, spent), entry)

\* The resolver answers with addresses the host has had during the lookup.
Answer(l, verdict) ==
    LET h == lookup[l].host
    IN  /\ h # Nobody
        /\ since[<<h, verdict>>] <= lookup[l].spent
        /\ names' = Stored(h, verdict, lookup[l].spent)
        /\ lookup' = [lookup EXCEPT ![l] = Idle]
        /\ UNCHANGED <<public, since>>

\* EAI_AGAIN the first time: the resolver is asked once more.
Retry(l) ==
    /\ lookup[l].host # Nobody /\ lookup[l].tries = 0
    /\ lookup' = [lookup EXCEPT ![l].tries = 1]
    /\ UNCHANGED <<names, public, since>>

\* Any other failure, and any failure of the retry: refused, not remembered.
Fail(l) ==
    /\ lookup[l].host # Nobody
    /\ lookup' = [lookup EXCEPT ![l] = Idle]
    /\ UNCHANGED <<names, public, since>>

Next ==
    \/ \E h \in Hosts : Change(h)
    \/ Tick
    \/ \E h \in Hosts : Hit(h)
    \/ \E l \in Lookups, h \in Hosts : Ask(l, h)
    \/ \E l \in Lookups, verdict \in BOOLEAN : Answer(l, verdict)
    \/ \E l \in Lookups : Retry(l)
    \/ \E l \in Lookups : Fail(l)

Spec == Init /\ [][Next]_vars

-----------------------------------------------------------------------------
(* Properties *)

\* However many lookups end at once, and in whatever order, the dict holds one
\* entry for a host and no more entries than its cap.
NamesAreCapped ==
    /\ Len(names) <= MaxEntries
    /\ \A i, j \in DOMAIN names : names[i].host = names[j].host => i = j

\* A verdict the cache may give was the true one at most TTL ago: neither a
\* failure of the resolver, nor a slow answer, nor the number of hits makes
\* it last longer.
VerdictsAreRecent ==
    \A i \in DOMAIN names :
        IsFresh(names[i]) => since[<<names[i].host, names[i].verdict>>] <= TTL - names[i].left
=============================================================================
