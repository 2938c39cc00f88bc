----------------------------- MODULE DemoSpaces -----------------------------
(***************************************************************************)
(* The throw-away spaces of a demonstration instance (app/demo.py,         *)
(* app/routes/demo.py) and their purge (app/demo_purge.py).                *)
(*                                                                         *)
(* The purge is a process of its own, started every hour: its reads and    *)
(* its first write are apart, and the server serves visitors in between.   *)
(* From its first write on it holds the write lock of the database, so the *)
(* rest of the purge is one step.  An hour being far longer than a purge,  *)
(* no two purges run at once.                                              *)
(***************************************************************************)
EXTENDS Naturals, FiniteSets

CONSTANTS
    MaxSpace,   \* bound on the ids of spaces
    Links,      \* links a visitor may save
    Seeds,      \* those a new space holds, with their tags
    MaxLinks,   \* DEMO_MAX_LINKS
    None        \* an absent row, no purge

SpaceIds == 1 .. MaxSpace

\* tagged: the links that have tags.
Space == [expired : BOOLEAN, links : SUBSET Links, tagged : SUBSET Links]

\* A purge: the spaces it found expired, the first of them, and its links.
Purge == [spaces : SUBSET SpaceIds, first : SpaceIds \cup {None},
          links : SUBSET Links, tagged : SUBSET Links]

\* The constants of a demonstration.
DemoConstants ==
    /\ MaxSpace \in Nat /\ MaxLinks \in Nat
    /\ Seeds \subseteq Links /\ IsFiniteSet(Links)
    /\ None \notin Space

VARIABLES
    space,  \* the spaces, by the id of their visitor
    purge   \* the purge under way

vars == <<space, purge>>

TypeOK ==
    /\ space \in [SpaceIds -> Space \cup {None}]
    /\ purge \in Purge \cup {None}

Init ==
    /\ space = [s \in SpaceIds |-> None]
    /\ purge = None

Spaces  == {s \in SpaceIds : space[s] # None}
Expired == {s \in Spaces : space[s].expired}

IsNextId(s) ==
    /\ \A o \in Spaces : o < s
    /\ \A c \in SpaceIds : c < s => \E o \in Spaces : o >= c

-----------------------------------------------------------------------------
(* Visitors *)

\* demo_start, create_demo_space
StartSpace(s) ==
    /\ IsNextId(s)
    /\ space' = [space EXCEPT ![s] = [expired |-> FALSE, links |-> Seeds, tagged |-> Seeds]]
    /\ UNCHANGED purge

WithLink(s, l, tags) ==
    /\ space' = [space EXCEPT ![s].links = @ \cup {l},
                              ![s].tagged = IF tags THEN @ \cup {l} ELSE @]
    /\ UNCHANGED purge

\* add_link and api_add_link: assert_link_quota, then create_link.
AddLink(s, l, tags) ==
    /\ s \in Spaces /\ l \notin space[s].links
    /\ Cardinality(space[s].links) < MaxLinks
    /\ WithLink(s, l, tags)

\* demo_add, add_catalog_link: without the quota.  The address must not be
\* saved yet, which an edit of the link that has it makes true again.
AddCatalogLink(s, l) ==
    /\ s \in Spaces /\ l \notin space[s].links
    /\ WithLink(s, l, TRUE)

\* edit_link, bulk_tag_links and the routes of the tags: a link gains or loses
\* its tags.
TagLink(s, l, tags) ==
    /\ s \in Spaces /\ l \in space[s].links
    /\ space' = [space EXCEPT ![s].tagged = IF tags THEN @ \cup {l} ELSE @ \ {l}]
    /\ UNCHANGED purge

DeleteLink(s, l) ==
    /\ s \in Spaces /\ l \in space[s].links
    /\ space' = [space EXCEPT ![s].links = @ \ {l}, ![s].tagged = @ \ {l}]
    /\ UNCHANGED purge

\* created_at < now - demo_ttl_hours: the space is older than its time.
Expire(s) ==
    /\ s \in Spaces
    /\ space' = [space EXCEPT ![s].expired = TRUE]
    /\ UNCHANGED purge

-----------------------------------------------------------------------------
(* The purge *)

\* Mutant of ReadExpired: the age is not compared.
ReadAll ==
    /\ purge = None /\ Spaces # {}
    /\ purge' = [spaces |-> Spaces, first |-> None, links |-> {}, tagged |-> {}]
    /\ UNCHANGED space

\* purge_expired_demo_users: the expired accounts are read.
ReadExpired ==
    /\ purge = None /\ Expired # {}
    /\ purge' = [spaces |-> Expired, first |-> None, links |-> {}, tagged |-> {}]
    /\ UNCHANGED space

\* _delete_demo_user: the links of the first are read, with their tags.
ReadLinks ==
    /\ purge # None /\ purge.first = None
    /\ \E s \in purge.spaces :
          /\ \A o \in purge.spaces : s <= o
          /\ purge' = [purge EXCEPT !.first = s, !.links = space[s].links,
                                    !.tagged = space[s].tagged]
    /\ UNCHANGED space

\* The first space still is what was read of it: a link added since refers to
\* the account that goes, and the ORM counts the associations it deletes.
Unmoved ==
    /\ space[purge.first].links \subseteq purge.links
    /\ space[purge.first].tagged = purge.tagged

\* Mutant of Delete: the session is closed without a commit.
DeleteNothing ==
    /\ purge # None /\ purge.first # None
    /\ Unmoved
    /\ purge' = None
    /\ UNCHANGED space

\* The rows of every space read, and the accounts, in one transaction.
Delete ==
    /\ purge # None /\ purge.first # None
    /\ Unmoved
    /\ space' = [s \in SpaceIds |-> IF s \in purge.spaces THEN None ELSE space[s]]
    /\ purge' = None

\* The database refuses: nothing is committed.
PurgeRefused ==
    /\ purge # None /\ purge.first # None
    /\ ~Unmoved
    /\ purge' = None
    /\ UNCHANGED space

\* The lock was not obtained in time, or the process was killed.
PurgeKilled ==
    /\ purge # None
    /\ purge' = None
    /\ UNCHANGED space

VisitorStep ==
    \/ \E s \in SpaceIds : StartSpace(s)
    \/ \E s \in SpaceIds, l \in Links, tags \in BOOLEAN : AddLink(s, l, tags)
    \/ \E s \in SpaceIds, l \in Links : AddCatalogLink(s, l)
    \/ \E s \in SpaceIds, l \in Links, tags \in BOOLEAN : TagLink(s, l, tags)
    \/ \E s \in SpaceIds, l \in Links : DeleteLink(s, l)

Next ==
    \/ VisitorStep
    \/ \E s \in SpaceIds : Expire(s)
    \/ ReadExpired
    \/ ReadLinks
    \/ Delete
    \/ PurgeRefused
    \/ PurgeKilled

Spec == Init /\ [][Next]_vars

\* The purge is run every hour, and not killed for ever.
Fairness == WF_vars(ReadExpired) /\ SF_vars(ReadLinks) /\ SF_vars(Delete \/ PurgeRefused)

-----------------------------------------------------------------------------
(* Properties *)

\* A purge takes whole spaces, and only those that had expired when it looked.
OnlyExpiredGo ==
    [][\A s \in Spaces : space'[s] = None => space[s].expired]_vars

\* From some time on, visitors leave the expired spaces as they are: they may
\* start spaces and use their own for as long as these have not expired.
ExpiredLeftAlone == <>[][VisitorStep => \A s \in Expired : space'[s] = space[s]]_vars

\* A purge undone by a visitor is run again: once visitors leave the expired
\* spaces alone, whatever they do in the other ones, each expired space goes.
ExpiredGo ==
    \A s \in SpaceIds : ExpiredLeftAlone => []((s \in Expired) => <>(s \notin Expired))
=============================================================================
