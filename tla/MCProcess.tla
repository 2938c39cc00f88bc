----------------------------- MODULE MCProcess -----------------------------
(***************************************************************************)
(* An instance of ProcessMemory for TLC.  Its parts share no state and no  *)
(* step, so it is enough to look at the behaviours in which one of them    *)
(* moves: `moving` tells which.                                            *)
(*                                                                         *)
(* RateLimit: a route limited twice per short period, the second quota     *)
(* larger, and one limited once per long period, as 60 s and 3600 s are.   *)
(* ImgCache: one image more than entries, of sizes that fill the cache     *)
(* with two or with one.  DnsCache: one host more than entries, two        *)
(* lookups at once, and one host whose addresses change.                   *)
(***************************************************************************)
EXTENDS ProcessMemory, TLC

CONSTANTS c1, fast, slow, i1, i2, i3, h1, h2, h3, l1, l2

Visitors == {c1}
TwoRoutes == {fast, slow}
QuotasOf == (fast :> <<2, 3>>) @@ (slow :> <<2>>)
PeriodOf == (fast :> 2) @@ (slow :> 4)
ThreeImages == {i1, i2, i3}
ThreeHosts == {h1, h2, h3}

Symmetry == Permutations(ThreeImages)
            \cup Permutations(Lookups)

VARIABLE moving

ProcessInit ==
    /\ Init /\ Images!Init /\ Resolver!Init
    /\ moving \in {"limits", "images", "names"}
    /\ \A h \in Hosts \ {h1} : public[h]
    /\ moving # "names" => public[h1]

ProcessNext ==
    \/ moving = "limits" /\ Next /\ UNCHANGED <<images, resolver, moving>>
    \/ moving = "images" /\ Images!Next /\ UNCHANGED <<vars, resolver, moving>>
    \/ /\ moving = "names" /\ Resolver!Next
       /\ \A h \in Hosts \ {h1} : public'[h] = public[h]
       /\ UNCHANGED <<vars, images, moving>>

ProcessSpec == ProcessInit /\ [][ProcessNext]_<<vars, images, resolver, moving>>
=============================================================================
