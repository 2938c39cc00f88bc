-------------------------- MODULE MigrationsProofs --------------------------
(***************************************************************************)
(* Proofs about the starts of TagStore (Migrations), for any number of     *)
(* processes, links, tags and groups, and any databases whose foreign keys *)
(* hold: a start that is up has done the whole of its migration, the       *)
(* unique index of the slugs excepted once a start was stopped right       *)
(* before it, and none loses what a link was filed under.                  *)
(*                                                                         *)
(* A start never compares two databases: it looks at one column or table   *)
(* at a time, so the argument is that every statement takes the database   *)
(* further (Above) and keeps the links where they were (Keeps), and that   *)
(* what a start has passed is done in whatever database it sees (Done),    *)
(* which another start, or the end of a transaction, can only take further *)
(* again.  The transaction of a start killed is lost whole: what is        *)
(* committed never depended on it.                                         *)
(***************************************************************************)
EXTENDS TagStore, TagIndexProofs, WellFoundedInduction, FiniteSetTheorems, TLAPS

\* The places a start passes through, from each of the steps that change rows on.
FromUp      == {"up"}
FromCommit  == {"commit", "up"}
FromUniques == {"uniques"} \cup FromCommit
FromTags    == {"tags"} \cup FromUniques
FromSeal    == {"seal"} \cup FromTags
FromLate    == {"late columns", "late alter"} \cup FromSeal
FromSlugs   == {"slugs"} \cup FromLate
FromColumns == {"columns", "alter"} \cup FromSlugs

\* What a start at place p, with the loop over left, has seen done.
Done(db, p, left) ==
    /\ p \in FromColumns => db.groups = None
    /\ p \in {"alter", "late alter"} => Upgrade!Range(left) \subseteq Upgrade!Additions
    /\ p = "alter" => Upgrade!EarlyColumns \subseteq db.columns \cup Upgrade!Range(left)
    /\ p \in FromSlugs => Upgrade!EarlyColumns \subseteq db.columns
    /\ p \in FromLate => db.slugged
    /\ p = "late alter" => Upgrade!LateColumns \subseteq db.columns \cup Upgrade!Range(left)
    /\ p \in FromSeal => Upgrade!LateColumns \subseteq db.columns
    /\ p \in FromTags => db.key = "hashed" /\ db.token = "encrypted"
    /\ p \in FromUniques => Upgrade!Merged(db) = db
    /\ p \in FromCommit => "tags" \in db.uniques

\* The database b is at least as far as a.
Above(a, b) ==
    /\ a.groups = None => b.groups = None
    /\ a.columns \subseteq b.columns
    /\ a.slugged => b.slugged
    /\ a.key = "hashed" => b.key = "hashed"
    /\ a.token = "encrypted" => b.token = "encrypted"
    /\ Upgrade!Merged(a) = a => Upgrade!Merged(b) = b
    /\ a.uniques \subseteq b.uniques

\* What a link was filed under in a, it still is in b.
Keeps(a, b) ==
    \A l \in OldLinks :
        /\ Upgrade!TagsSeen(b, l) = Upgrade!TagsSeen(a, l)
        /\ Upgrade!PlacesSeen(b, l) \subseteq Upgrade!PlacesSeen(a, l)

Grows(a, b) == Upgrade!Sound(b) /\ Above(a, b) /\ Keeps(a, b)

\* The transaction of the writer goes further than what is committed.
Store ==
    /\ Upgrade!Sound(disk)
    /\ writer # None => Grows(disk, work) /\ pc[writer] # "up"

StoreInv ==
    /\ Upgrade!TypeOK
    /\ Store
    /\ \A s \in Starts : Done(Upgrade!View(s), pc[s], todo[s])

-----------------------------------------------------------------------------
(* Least and greatest numbers *)

LEMMA Least ==
    ASSUME NEW S \in SUBSET Nat, S # {}
    PROVE  \E n \in S : \A m \in S : n <= m
<1>1. IsWellFoundedOn(OpToRel(<, Nat), Nat)
    BY NatLessThanWellFounded
<1>2. PICK n \in S : \A m \in S : ~(<<m, n>> \in OpToRel(<, Nat))
    BY <1>1, WFMin
<1>3. ASSUME NEW m \in S
      PROVE  n <= m
    <2>1. m \in Nat /\ n \in Nat
        OBVIOUS
    <2>2. <<m, n>> \notin OpToRel(<, Nat)
        BY <1>2
    <2>3. ~(m < n)
        BY <2>1, <2>2 DEF OpToRel
    <2>4. QED
        BY <2>1, <2>3
<1>4. QED
    BY <1>3

\* A property that holds at 0 and passes on holds for every number.
LEMMA Induction ==
    ASSUME NEW S, 0 \in S, \A n \in Nat : n \in S => n + 1 \in S
    PROVE  Nat \subseteq S
<1> DEFINE T == {n \in Nat : n \notin S}
<1> SUFFICES ASSUME T # {}
             PROVE  FALSE
    OBVIOUS
<1>1. PICK n \in T : \A m \in T : n <= m
    BY Least
<1>2. n # 0 /\ n \in Nat
    OBVIOUS
<1>3. n - 1 \in Nat /\ n - 1 \notin T
    BY <1>1, <1>2
<1>4. QED
    BY <1>2, <1>3

\* The numbers of a list have a bound.
LEMMA Bounded ==
    \A n \in Nat : \A f \in [1 .. n -> Nat] : \E b \in Nat : \A i \in 1 .. n : f[i] <= b
<1> DEFINE S == {n \in Nat : \A f \in [1 .. n -> Nat] : \E b \in Nat : \A i \in 1 .. n : f[i] <= b}
<1>1. 0 \in S
    OBVIOUS
<1>2. ASSUME NEW n \in Nat, n \in S
      PROVE  n + 1 \in S
    <2>1. ASSUME NEW f \in [1 .. n + 1 -> Nat]
          PROVE  \E b \in Nat : \A i \in 1 .. n + 1 : f[i] <= b
        <3> DEFINE g == [i \in 1 .. n |-> f[i]]
        <3>1. \A i \in 1 .. n : i \in 1 .. n + 1
            OBVIOUS
        <3>2. g \in [1 .. n -> Nat]
            BY <3>1
        <3>3. PICK b \in Nat : \A i \in 1 .. n : g[i] <= b
            BY <1>2, <3>2
        <3>4. f[n + 1] \in Nat
            OBVIOUS
        <3>5. PICK c \in Nat : b <= c /\ f[n + 1] <= c
            BY <3>4
        <3>6. \A i \in 1 .. n + 1 : f[i] <= c
            BY <3>1, <3>3, <3>5
        <3>7. QED
            BY <3>6
    <2>2. n + 1 \in Nat
        OBVIOUS
    <2>3. QED
        BY <2>1, <2>2
<1>3. Nat \subseteq S
    <2> HIDE DEF S
    <2> QED
        BY <1>1, <1>2, Induction
<1>4. QED
    BY <1>3

LEMMA Greatest ==
    ASSUME NEW S \in SUBSET Nat, IsFiniteSet(S), S # {}
    PROVE  \E n \in S : \A m \in S : m <= n
<1>1. PICK n \in Nat : \E f \in [1 .. n -> S] : \A m \in S : \E i \in 1 .. n : f[i] = m
    <2>1. PICK k \in Nat : ExistsBijection(1 .. k, S)
        BY FS_NatBijection
    <2>2. PICK f \in Bijection(1 .. k, S) : TRUE
        BY <2>1 DEF ExistsBijection
    <2>3. f \in [1 .. k -> S] /\ \A m \in S : \E i \in 1 .. k : f[i] = m
        BY <2>2 DEF Bijection, Injection, Surjection
    <2>4. QED
        BY <2>3
<1>2. PICK f \in [1 .. n -> Nat] : \A m \in S : \E i \in 1 .. n : f[i] = m
    BY <1>1
<1>3. PICK b \in Nat : \A i \in 1 .. n : f[i] <= b
    BY <1>2, Bounded
<1> DEFINE B == {c \in Nat : \A m \in S : m <= c}
<1>4. B \in SUBSET Nat /\ B # {}
    BY <1>2, <1>3
<1>5. PICK c \in B : \A d \in B : c <= d
    BY <1>4, Least
<1>6. ASSUME c \notin S
      PROVE  FALSE
    <2>1. \A m \in S : m <= c - 1
        BY <1>5, <1>6
    <2>2. PICK m \in S : m <= c - 1
        BY <2>1
    <2>3. c \in Nat /\ m \in Nat
        BY <1>5
    <2>4. c - 1 \in Nat
        BY <2>2, <2>3
    <2>5. c - 1 \in B
        BY <2>1, <2>4
    <2>6. QED
        BY <1>5, <2>3, <2>5
<1>7. QED
    BY <1>5, <1>6

-----------------------------------------------------------------------------
(* The tag that stays *)

LEMMA KeptFacts ==
    ASSUME NEW db \in Upgrade!Database, NEW t \in OldTags, db.tags[t] # None
    PROVE  /\ Upgrade!Kept(db, t) \in OldTags
           /\ db.tags[Upgrade!Kept(db, t)] # None
           /\ OldNorm[db.tags[Upgrade!Kept(db, t)]] = OldNorm[db.tags[t]]
<1> DEFINE same == {u \in OldTags : db.tags[u] # None /\ OldNorm[db.tags[u]] = OldNorm[db.tags[t]]}
           good == {u \in same : db.tags[u] = OldNorm[db.tags[u]]}
           from == IF good # {} THEN good ELSE same
<1>1. from \in SUBSET Nat /\ from # {} /\ from \subseteq same
    BY MigrationAssumption DEF Upgrade!MigrationConstants
<1>2. Upgrade!Kept(db, t) = CHOOSE u \in from : \A v \in from : u <= v
    BY DEF Upgrade!Kept
<1>3. Upgrade!Kept(db, t) \in from
    <2> HIDE DEF from
    <2>1. \E u \in from : \A v \in from : u <= v
        BY <1>1, Least
    <2>2. QED
        BY <1>2, <2>1
<1>4. QED
    BY <1>1, <1>3

\* It is the same for the tags of one normalised name.
LEMMA KeptOfClass ==
    ASSUME NEW db, NEW t, NEW u, OldNorm[db.tags[t]] = OldNorm[db.tags[u]]
    PROVE  Upgrade!Kept(db, t) = Upgrade!Kept(db, u)
    BY DEF Upgrade!Kept

LEMMA KeptTwice ==
    ASSUME NEW db \in Upgrade!Database, NEW t \in OldTags, db.tags[t] # None
    PROVE  Upgrade!Kept(db, Upgrade!Kept(db, t)) = Upgrade!Kept(db, t)
    BY KeptFacts, KeptOfClass

LEMMA KeptOfTags ==
    ASSUME NEW a, NEW b, a.tags = b.tags, NEW t
    PROVE  Upgrade!Kept(a, t) = Upgrade!Kept(b, t)
    BY DEF Upgrade!Kept

-----------------------------------------------------------------------------
(* Updates of a database *)

\* What b shares with a when only the tags may differ, and when they may not.
SameTagsOf(a, b) == b.tags = a.tags /\ b.tagged = a.tagged
SameRest(a, b) ==
    /\ b.groups = a.groups /\ b.members = a.members /\ b.filed = a.filed
    /\ b.columns = a.columns /\ b.uniques = a.uniques /\ b.slugged = a.slugged
    /\ b.key = a.key /\ b.token = a.token

LEMMA MergedFields ==
    ASSUME NEW db, Upgrade!Sound(db)
    PROVE  /\ Upgrade!Merged(db) \in Upgrade!Database
           /\ Upgrade!Merged(db).tags =
                  [t \in OldTags |-> IF db.tags[t] # None /\ Upgrade!Kept(db, t) = t
                                     THEN OldNorm[db.tags[t]] ELSE None]
           /\ Upgrade!Merged(db).tagged = {<<a[1], Upgrade!Kept(db, a[2])>> : a \in db.tagged}
           /\ SameRest(db, Upgrade!Merged(db))
<1> DEFINE tags == [t \in OldTags |-> IF db.tags[t] # None /\ Upgrade!Kept(db, t) = t
                                    THEN OldNorm[db.tags[t]] ELSE None]
           joins == {<<a[1], Upgrade!Kept(db, a[2])>> : a \in db.tagged}
<1>0. db \in Upgrade!Database
    BY DEF Upgrade!Sound
<1>1. tags \in [OldTags -> OldNames \cup {None}]
    <2>1. \A t \in OldTags : db.tags[t] # None => db.tags[t] \in OldNames
        BY <1>0 DEF Upgrade!Database
    <2>2. \A t \in OldTags : db.tags[t] # None => OldNorm[db.tags[t]] \in OldNames
        BY <2>1, MigrationAssumption DEF Upgrade!MigrationConstants
    <2>3. QED
        BY <2>2
<1>2. joins \in SUBSET (OldLinks \X OldTags)
    <2>1. ASSUME NEW a \in db.tagged
          PROVE  <<a[1], Upgrade!Kept(db, a[2])>> \in OldLinks \X OldTags
        <3>1. a \in OldLinks \X OldTags
            BY <1>0 DEF Upgrade!Database
        <3>2. Upgrade!Kept(db, a[2]) \in OldTags
            BY <1>0, <3>1, KeptFacts DEF Upgrade!Sound
        <3>3. QED
            BY <3>1, <3>2
    <2>2. QED
        BY <2>1
<1>3. Upgrade!Merged(db) = [db EXCEPT !.tags = tags, !.tagged = joins]
    <2>1. db.tags = [t \in OldTags |-> db.tags[t]]
        BY <1>0 DEF Upgrade!Database
    <2>2. QED
        BY DEF Upgrade!Merged
<1>4. QED
    <2> HIDE DEF tags, joins
    <2>1. [db EXCEPT !.tags = tags, !.tagged = joins] \in Upgrade!Database
        BY <1>0, <1>1, <1>2 DEF Upgrade!Database
    <2>2. [db EXCEPT !.tags = tags, !.tagged = joins].tags = tags
        BY <1>0 DEF Upgrade!Database
    <2>3. [db EXCEPT !.tags = tags, !.tagged = joins].tagged = joins
        BY <1>0 DEF Upgrade!Database
    <2>4. SameRest(db, [db EXCEPT !.tags = tags, !.tagged = joins])
        BY <1>0 DEF Upgrade!Database, SameRest
    <2>5. QED
        BY <1>3, <2>1, <2>2, <2>3, <2>4 DEF tags, joins

\* Merging changes nothing when it changes neither the tags nor what is tagged.
LEMMA MergedIff ==
    ASSUME NEW db, Upgrade!Sound(db)
    PROVE  Upgrade!Merged(db) = db <=> SameTagsOf(db, Upgrade!Merged(db))
<1>1. db \in Upgrade!Database
    BY DEF Upgrade!Sound
<1>2. db = [db EXCEPT !.tags = db.tags, !.tagged = db.tagged]
    BY <1>1 DEF Upgrade!Database
<1>3. PICK x, y : Upgrade!Merged(db) = [db EXCEPT !.tags = x, !.tagged = y]
    BY DEF Upgrade!Merged
<1>4. Upgrade!Merged(db).tags = x /\ Upgrade!Merged(db).tagged = y
    BY <1>1, <1>3 DEF Upgrade!Database
<1>5. QED
    BY <1>2, <1>3, <1>4 DEF SameTagsOf

LEMMA MergedOfTags ==
    ASSUME NEW a, NEW b, Upgrade!Sound(a), Upgrade!Sound(b), SameTagsOf(a, b), Upgrade!Merged(a) = a
    PROVE  Upgrade!Merged(b) = b
<1>1. SameTagsOf(a, Upgrade!Merged(a))
    BY MergedIff
<1>2. \A t : Upgrade!Kept(a, t) = Upgrade!Kept(b, t)
    BY KeptOfTags DEF SameTagsOf
<1>3. Upgrade!Merged(a).tags = Upgrade!Merged(b).tags
            /\ Upgrade!Merged(a).tagged = Upgrade!Merged(b).tagged
    <2>1. a.tags = b.tags /\ a.tagged = b.tagged
        BY DEF SameTagsOf
    <2>2. Upgrade!Merged(a).tags = [t \in OldTags |-> IF a.tags[t] # None /\ Upgrade!Kept(a, t) = t
                                             THEN OldNorm[a.tags[t]] ELSE None]
        BY MergedFields
    <2>3. Upgrade!Merged(b).tags = [t \in OldTags |-> IF b.tags[t] # None /\ Upgrade!Kept(b, t) = t
                                             THEN OldNorm[b.tags[t]] ELSE None]
        BY MergedFields
    <2>4. Upgrade!Merged(a).tagged = {<<x[1], Upgrade!Kept(a, x[2])>> : x \in a.tagged}
        BY MergedFields
    <2>5. Upgrade!Merged(b).tagged = {<<x[1], Upgrade!Kept(b, x[2])>> : x \in b.tagged}
        BY MergedFields
    <2>6. QED
        BY <1>2, <2>1, <2>2, <2>3, <2>4, <2>5
<1>4. SameTagsOf(b, Upgrade!Merged(b))
    BY <1>1, <1>3 DEF SameTagsOf
<1>5. QED
    BY <1>4, MergedIff

-----------------------------------------------------------------------------
(* Growing *)

LEMMA GrowsReflexive ==
    ASSUME NEW a, Upgrade!Sound(a)
    PROVE  Grows(a, a)
    BY DEF Grows, Above, Keeps

LEMMA GrowsTransitive ==
    ASSUME NEW a, NEW b, NEW c, Grows(a, b), Grows(b, c)
    PROVE  Grows(a, c)
    BY DEF Grows, Above, Keeps

\* Neither the tags nor the groups change, and the rest advances.
LEMMA GrowsSchema ==
    ASSUME NEW a, NEW b, Upgrade!Sound(a), b \in Upgrade!Database, SameTagsOf(a, b),
           b.groups = a.groups, b.members = a.members, b.filed = a.filed,
           a.columns \subseteq b.columns, a.uniques \subseteq b.uniques,
           a.slugged => b.slugged,
           a.key = "hashed" => b.key = "hashed",
           a.token = "encrypted" => b.token = "encrypted"
    PROVE  Grows(a, b)
<1>1. Upgrade!Sound(b)
    BY DEF Upgrade!Sound, SameTagsOf
<1>2. Above(a, b)
    BY <1>1, MergedOfTags DEF Above
<1>3. Keeps(a, b)
    BY DEF Keeps, Upgrade!TagsSeen, Upgrade!NamesOf, Upgrade!PlacesSeen, Upgrade!GroupsOf,
           Upgrade!Groups, SameTagsOf
<1>4. QED
    BY <1>1, <1>2, <1>3 DEF Grows

\* What the index and its triggers become is of no matter here.
LEMMA GrowsIndex ==
    ASSUME NEW a, NEW b, Upgrade!Sound(a), b \in Upgrade!Database, SameTagsOf(a, b), SameRest(a, b)
    PROVE  Grows(a, b)
    BY GrowsSchema DEF SameRest

\* A database without groups, with the tags of another.
LEMMA GrowsGroups ==
    ASSUME NEW a, NEW b, Upgrade!Sound(a), b \in Upgrade!Database, SameTagsOf(a, b),
           b.members = None,
           b.columns = a.columns, b.uniques = a.uniques, b.slugged = a.slugged,
           b.key = a.key, b.token = a.token,
           a.groups = None => b.groups = None,
           \A l \in OldLinks : b.filed[l] \in Upgrade!PlacesSeen(a, l)
    PROVE  Grows(a, b)
<1>1. Upgrade!Sound(b)
    BY DEF Upgrade!Sound, SameTagsOf
<1>2. Above(a, b)
    BY <1>1, MergedOfTags DEF Above
<1>3. ASSUME NEW l \in OldLinks
      PROVE  Upgrade!TagsSeen(b, l) = Upgrade!TagsSeen(a, l)
                  /\ Upgrade!PlacesSeen(b, l) \subseteq Upgrade!PlacesSeen(a, l)
    <2>1. Upgrade!GroupsOf(b, l) = {}
        BY DEF Upgrade!GroupsOf
    <2>2. Upgrade!TagsSeen(b, l) = Upgrade!TagsSeen(a, l)
        BY DEF Upgrade!TagsSeen, Upgrade!NamesOf, SameTagsOf
    <2>3. QED
        BY <2>1, <2>2 DEF Upgrade!PlacesSeen
<1>4. QED
    BY <1>1, <1>2, <1>3 DEF Grows, Keeps

LEMMA NoTable == None \in Upgrade!GroupTable /\ None \in Upgrade!MemberTable
    BY DEF Upgrade!GroupTable, Upgrade!MemberTable

\* The groups can be counted: a link of several has a last one.
LEMMA GroupsAreFinite == OldGroups \subseteq Nat /\ IsFiniteSet(OldGroups)
    BY MigrationAssumption DEF Upgrade!MigrationConstants, Upgrade!IsFiniteSet, IsFiniteSet

LEMMA MovedGrows ==
    ASSUME NEW db, Upgrade!Sound(db)
    PROVE  Grows(db, Upgrade!Moved(db)) /\ Upgrade!Moved(db).groups = None
<1> DEFINE moved == {l \in OldLinks : Upgrade!GroupsOf(db, l) # {}}
           last(l) == CHOOSE g \in Upgrade!GroupsOf(db, l) : \A h \in Upgrade!GroupsOf(db, l) : h <= g
           filed == [l \in OldLinks |-> IF l \in moved THEN db.groups[last(l)] ELSE db.filed[l]]
           index == [l \in OldLinks |-> IF l \in moved /\ db.triggers["links_au"] = "marked"
                                     THEN Upgrade!NamesOf(db, l) ELSE db.index[l]]
<1>0. db \in Upgrade!Database
    BY DEF Upgrade!Sound
<1>1. ASSUME NEW l \in OldLinks, Upgrade!GroupsOf(db, l) # {}
      PROVE  /\ db.groups[last(l)] \in OldNames
             /\ db.groups[last(l)] \in Upgrade!PlacesSeen(db, l)
    <2>1. Upgrade!GroupsOf(db, l) \subseteq OldGroups
                /\ Upgrade!GroupsOf(db, l) \subseteq Upgrade!Groups(db)
        BY DEF Upgrade!GroupsOf, Upgrade!Groups
    <2>2. Upgrade!GroupsOf(db, l) \in SUBSET Nat /\ IsFiniteSet(Upgrade!GroupsOf(db, l))
        BY <2>1, FS_Subset, GroupsAreFinite
    <2>3. \E g \in Upgrade!GroupsOf(db, l) : \A h \in Upgrade!GroupsOf(db, l) : h <= g
        BY <1>1, <2>2, Greatest
    <2>4. last(l) \in Upgrade!GroupsOf(db, l)
        BY <2>3
    <2>5. db.groups # None /\ db.groups[last(l)] # None /\ last(l) \in OldGroups
        BY <2>1, <2>4 DEF Upgrade!Groups
    <2>6. db.groups[last(l)] \in OldNames
        BY <1>0, <2>5 DEF Upgrade!Database, Upgrade!GroupTable
    <2> HIDE DEF last
    <2>7. QED
        BY <1>1, <2>4, <2>6 DEF Upgrade!PlacesSeen
<1>2. \A l \in OldLinks : Upgrade!NamesOf(db, l) \in SUBSET OldNames
    <2>1. ASSUME NEW l \in OldLinks, NEW t \in OldTags, <<l, t>> \in db.tagged
          PROVE  db.tags[t] \in OldNames
        BY <1>0, <2>1 DEF Upgrade!Sound, Upgrade!Database
    <2>2. QED
        BY <2>1 DEF Upgrade!NamesOf
<1>3. filed \in [OldLinks -> OldNames \cup {None}]
    <2>1. \A l \in OldLinks : db.filed[l] \in OldNames \cup {None}
        BY <1>0 DEF Upgrade!Database
    <2> HIDE DEF last
    <2>2. QED
        BY <1>1, <2>1
<1>4. index \in [OldLinks -> {None} \cup SUBSET OldNames]
    <2>1. \A l \in OldLinks : db.index[l] \in {None} \cup SUBSET OldNames
        BY <1>0 DEF Upgrade!Database
    <2> HIDE DEF moved
    <2>2. QED
        BY <1>2, <2>1
<1>5. Upgrade!Moved(db) = [db EXCEPT !.filed = filed, !.index = index,
                                   !.groups = None, !.members = None]
    BY DEF Upgrade!Moved
<1>6. \A l \in OldLinks : filed[l] \in Upgrade!PlacesSeen(db, l)
    <2> HIDE DEF last
    <2>1. QED
        BY <1>1 DEF Upgrade!PlacesSeen
<1>7. QED
    <2> HIDE DEF filed, index
    <2> DEFINE b == [db EXCEPT !.filed = filed, !.index = index, !.groups = None, !.members = None]
    <2>1. b \in Upgrade!Database
        <3> DEFINE c == [db EXCEPT !.filed = filed, !.index = index]
        <3>1. c \in Upgrade!Database
            BY <1>0, <1>3, <1>4 DEF Upgrade!Database
        <3>2. b = [c EXCEPT !.groups = None, !.members = None]
            OBVIOUS
        <3> HIDE DEF c, b
        <3>3. [c EXCEPT !.groups = None, !.members = None] \in Upgrade!Database
            BY <3>1, NoTable DEF Upgrade!Database
        <3>4. QED
            BY <3>2, <3>3
    <2>2. /\ SameTagsOf(db, b) /\ b.groups = None /\ b.members = None /\ b.filed = filed
          /\ b.columns = db.columns /\ b.uniques = db.uniques /\ b.slugged = db.slugged
          /\ b.key = db.key /\ b.token = db.token
        BY <1>0 DEF Upgrade!Database, SameTagsOf
    <2> HIDE DEF b
    <2>3. Grows(db, b)
        BY <1>6, <2>1, <2>2, GrowsGroups
    <2>4. QED
        BY <1>5, <2>2, <2>3 DEF b

\* The tags that stay, in a database whose tags are merged.
LEMMA MergedKept ==
    ASSUME NEW db, Upgrade!Sound(db), NEW t \in OldTags, Upgrade!Merged(db).tags[t] # None
    PROVE  /\ db.tags[t] # None /\ Upgrade!Kept(db, t) = t
           /\ Upgrade!Merged(db).tags[t] = OldNorm[db.tags[t]]
           /\ OldNorm[Upgrade!Merged(db).tags[t]] = OldNorm[db.tags[t]]
           /\ Upgrade!Kept(Upgrade!Merged(db), t) = t
<1> DEFINE b == Upgrade!Merged(db)
<1>0. db \in Upgrade!Database /\ b \in Upgrade!Database
    BY MergedFields DEF Upgrade!Sound
<1>1. ASSUME NEW u \in OldTags, b.tags[u] # None
      PROVE  /\ db.tags[u] # None /\ Upgrade!Kept(db, u) = u
             /\ b.tags[u] = OldNorm[db.tags[u]]
             /\ OldNorm[b.tags[u]] = OldNorm[db.tags[u]]
    <2>1. b.tags = [v \in OldTags |-> IF db.tags[v] # None /\ Upgrade!Kept(db, v) = v
                                     THEN OldNorm[db.tags[v]] ELSE None]
        BY MergedFields
    <2>2. db.tags[u] # None /\ Upgrade!Kept(db, u) = u /\ b.tags[u] = OldNorm[db.tags[u]]
        BY <1>1, <2>1
    <2>3. db.tags[u] \in OldNames
        BY <1>0, <2>2 DEF Upgrade!Database
    <2>4. QED
        BY <2>2, <2>3, MigrationAssumption DEF Upgrade!MigrationConstants
<1>2. Upgrade!Kept(b, t) \in OldTags /\ b.tags[Upgrade!Kept(b, t)] # None
      /\ OldNorm[b.tags[Upgrade!Kept(b, t)]] = OldNorm[b.tags[t]]
    BY <1>0, KeptFacts
<1>3. OldNorm[db.tags[Upgrade!Kept(b, t)]] = OldNorm[db.tags[t]]
    BY <1>1, <1>2
<1>4. Upgrade!Kept(db, Upgrade!Kept(b, t)) = Upgrade!Kept(db, t)
    BY <1>3, KeptOfClass
<1>5. Upgrade!Kept(b, t) = t
    BY <1>1, <1>2, <1>4
<1>6. QED
    BY <1>1, <1>5

\* The tag that stays has a row, with the normalised name of those it replaces.
LEMMA KeptStays ==
    ASSUME NEW db, Upgrade!Sound(db), NEW t \in OldTags, db.tags[t] # None
    PROVE  /\ Upgrade!Merged(db).tags[Upgrade!Kept(db, t)] = OldNorm[db.tags[t]]
           /\ Upgrade!Merged(db).tags[Upgrade!Kept(db, t)] # None
<1>0. db \in Upgrade!Database
    BY DEF Upgrade!Sound
<1>1. /\ Upgrade!Kept(db, t) \in OldTags /\ db.tags[Upgrade!Kept(db, t)] # None
      /\ OldNorm[db.tags[Upgrade!Kept(db, t)]] = OldNorm[db.tags[t]]
      /\ Upgrade!Kept(db, Upgrade!Kept(db, t)) = Upgrade!Kept(db, t)
    BY <1>0, KeptFacts, KeptTwice
<1>2. Upgrade!Merged(db).tags[Upgrade!Kept(db, t)] = OldNorm[db.tags[t]]
    <2>1. Upgrade!Merged(db).tags = [u \in OldTags |-> IF db.tags[u] # None /\ Upgrade!Kept(db, u) = u
                                              THEN OldNorm[db.tags[u]] ELSE None]
        BY MergedFields
    <2>2. QED
        BY <1>1, <2>1
<1>3. OldNorm[db.tags[t]] \in OldNames
    BY <1>0, MigrationAssumption DEF Upgrade!MigrationConstants, Upgrade!Database
<1>4. QED
    BY <1>2, <1>3, MigrationAssumption DEF Upgrade!MigrationConstants

\* What is tagged once merged.
LEMMA MergedTagged ==
    ASSUME NEW db, Upgrade!Sound(db)
    PROVE  /\ \A a \in db.tagged : <<a[1], Upgrade!Kept(db, a[2])>> \in Upgrade!Merged(db).tagged
           /\ \A a \in Upgrade!Merged(db).tagged : \E c \in db.tagged :
                  a = <<c[1], Upgrade!Kept(db, c[2])>>
<1>1. Upgrade!Merged(db).tagged = {<<a[1], Upgrade!Kept(db, a[2])>> : a \in db.tagged}
    BY MergedFields
<1>2. QED
    BY <1>1

LEMMA MergedSound ==
    ASSUME NEW db, Upgrade!Sound(db)
    PROVE  Upgrade!Sound(Upgrade!Merged(db))
<1>1. ASSUME NEW a \in Upgrade!Merged(db).tagged
      PROVE  Upgrade!Merged(db).tags[a[2]] # None
    <2>1. PICK c \in db.tagged : a = <<c[1], Upgrade!Kept(db, c[2])>>
        BY MergedTagged
    <2>2. c[2] \in OldTags /\ db.tags[c[2]] # None
        BY DEF Upgrade!Sound, Upgrade!Database
    <2>3. QED
        BY <2>1, <2>2, KeptStays
<1>2. Upgrade!Merged(db) \in Upgrade!Database /\ SameRest(db, Upgrade!Merged(db))
    BY MergedFields
<1>3. QED
    BY <1>1, <1>2 DEF Upgrade!Sound, SameRest

\* Merging twice is merging once.
LEMMA MergedTwice ==
    ASSUME NEW db, Upgrade!Sound(db)
    PROVE  Upgrade!Merged(Upgrade!Merged(db)) = Upgrade!Merged(db)
<1> DEFINE b == Upgrade!Merged(db)
           c == Upgrade!Merged(b)
<1>1. Upgrade!Sound(b) /\ b \in Upgrade!Database
    BY MergedSound DEF Upgrade!Sound
<1>2. c.tags = b.tags
    <2>1. c.tags = [t \in OldTags |-> IF b.tags[t] # None /\ Upgrade!Kept(b, t) = t
                                     THEN OldNorm[b.tags[t]] ELSE None]
        BY <1>1, MergedFields
    <2>2. \A t \in OldTags : b.tags[t] # None => Upgrade!Kept(b, t) = t
                /\ OldNorm[b.tags[t]] = b.tags[t]
        BY MergedKept
    <2>3. b.tags \in [OldTags -> OldNames \cup {None}]
        BY <1>1 DEF Upgrade!Database
    <2> HIDE DEF b, c
    <2>4. QED
        BY <2>1, <2>2, <2>3
<1>3. c.tagged = b.tagged
    <2>1. c.tagged = {<<a[1], Upgrade!Kept(b, a[2])>> : a \in b.tagged}
        BY <1>1, MergedFields
    <2>2. ASSUME NEW a \in b.tagged
          PROVE  <<a[1], Upgrade!Kept(b, a[2])>> = a
        <3>1. a \in OldLinks \X OldTags /\ b.tags[a[2]] # None
            BY <1>1 DEF Upgrade!Sound, Upgrade!Database
        <3>2. Upgrade!Kept(b, a[2]) = a[2]
            BY <3>1, MergedKept
        <3>3. QED
            BY <3>1, <3>2
    <2>3. QED
        BY <2>1, <2>2
<1>4. SameTagsOf(b, c)
    BY <1>2, <1>3 DEF SameTagsOf
<1>5. QED
    BY <1>1, <1>4, MergedIff

LEMMA MergedTagsSeen ==
    ASSUME NEW db, Upgrade!Sound(db), NEW l \in OldLinks
    PROVE  Upgrade!TagsSeen(Upgrade!Merged(db), l) = Upgrade!TagsSeen(db, l)
<1> DEFINE b == Upgrade!Merged(db)
<1>0. db \in Upgrade!Database
    BY DEF Upgrade!Sound
<1>1. ASSUME NEW t \in OldTags, <<l, t>> \in db.tagged
      PROVE  /\ Upgrade!Kept(db, t) \in OldTags /\ <<l, Upgrade!Kept(db, t)>> \in b.tagged
             /\ OldNorm[b.tags[Upgrade!Kept(db, t)]] = OldNorm[db.tags[t]]
    <2>1. db.tags[t] # None
        BY <1>1 DEF Upgrade!Sound
    <2>2. Upgrade!Kept(db, t) \in OldTags /\ b.tags[Upgrade!Kept(db, t)] # None
        BY <1>0, <2>1, KeptFacts, KeptStays
    <2>3. OldNorm[b.tags[Upgrade!Kept(db, t)]] = OldNorm[db.tags[Upgrade!Kept(db, t)]]
        BY <2>2, MergedKept
    <2>4. <<l, Upgrade!Kept(db, t)>> \in b.tagged
        BY <1>1, MergedTagged
    <2>5. QED
        BY <1>0, <2>1, <2>2, <2>3, <2>4, KeptFacts
<1>2. ASSUME NEW k \in OldTags, <<l, k>> \in b.tagged
      PROVE  \E t \in OldTags : <<l, t>> \in db.tagged /\ OldNorm[db.tags[t]] = OldNorm[b.tags[k]]
    <2>1. PICK a \in db.tagged : <<l, k>> = <<a[1], Upgrade!Kept(db, a[2])>>
        BY <1>2, MergedTagged
    <2>2. a \in OldLinks \X OldTags
        BY <1>0 DEF Upgrade!Database
    <2>3. a = <<l, a[2]>> /\ k = Upgrade!Kept(db, a[2]) /\ a[2] \in OldTags
        BY <2>1, <2>2
    <2>4. QED
        BY <1>1, <2>3
<1>3. Upgrade!TagsSeen(db, l) = {OldNorm[db.tags[t]] : t \in {u \in OldTags : <<l, u>> \in db.tagged}}
    BY DEF Upgrade!TagsSeen, Upgrade!NamesOf
<1>4. Upgrade!TagsSeen(b, l) = {OldNorm[b.tags[t]] : t \in {u \in OldTags : <<l, u>> \in b.tagged}}
    BY DEF Upgrade!TagsSeen, Upgrade!NamesOf
<1> HIDE DEF b
<1>5. ASSUME NEW n \in Upgrade!TagsSeen(db, l)
      PROVE  n \in Upgrade!TagsSeen(b, l)
    <2>1. PICK t \in OldTags : <<l, t>> \in db.tagged /\ n = OldNorm[db.tags[t]]
        BY <1>3
    <2>2. QED
        BY <1>1, <1>4, <2>1
<1>6. ASSUME NEW n \in Upgrade!TagsSeen(b, l)
      PROVE  n \in Upgrade!TagsSeen(db, l)
    <2>1. PICK k \in OldTags : <<l, k>> \in b.tagged /\ n = OldNorm[b.tags[k]]
        BY <1>4
    <2>2. PICK t \in OldTags : <<l, t>> \in db.tagged /\ OldNorm[db.tags[t]] = OldNorm[b.tags[k]]
        BY <1>2, <2>1
    <2>3. QED
        BY <1>3, <2>1, <2>2
<1>7. Upgrade!TagsSeen(b, l) = Upgrade!TagsSeen(db, l)
    BY <1>5, <1>6
<1>8. QED
    BY <1>7 DEF b

LEMMA RebuiltIs ==
    ASSUME NEW db, Upgrade!Sound(db)
    PROVE  /\ Upgrade!Rebuilt(db) \in Upgrade!Database
           /\ SameTagsOf(db, Upgrade!Rebuilt(db)) /\ SameRest(db, Upgrade!Rebuilt(db))
<1> DEFINE index == [l \in OldLinks |-> Upgrade!NamesOf(db, l)]
<1>0. db \in Upgrade!Database
    BY DEF Upgrade!Sound
<1>1. index \in [OldLinks -> {None} \cup SUBSET OldNames]
    <2>1. \A l \in OldLinks, t \in OldTags : <<l, t>> \in db.tagged => db.tags[t] \in OldNames
        BY <1>0 DEF Upgrade!Sound, Upgrade!Database
    <2>2. \A l \in OldLinks : Upgrade!NamesOf(db, l) \in SUBSET OldNames
        BY <2>1 DEF Upgrade!NamesOf
    <2>3. QED
        BY <2>2
<1>2. Upgrade!Rebuilt(db) = [db EXCEPT !.index = index]
    BY DEF Upgrade!Rebuilt
<1> HIDE DEF index
<1>3. QED
    BY <1>0, <1>1, <1>2 DEF Upgrade!Database, SameTagsOf, SameRest

LEMMA MergedGrows ==
    ASSUME NEW db, Upgrade!Sound(db)
    PROVE  /\ Grows(db, Upgrade!Rebuilt(Upgrade!Merged(db)))
           /\ Upgrade!Merged(Upgrade!Rebuilt(Upgrade!Merged(db))) = Upgrade!Rebuilt(Upgrade!Merged(db))
<1> DEFINE b == Upgrade!Merged(db)
<1>1. Upgrade!Sound(b) /\ Upgrade!Merged(b) = b
    BY MergedSound, MergedTwice
<1>2. SameRest(db, b)
    BY MergedFields
<1>3. Above(db, b)
    BY <1>1, <1>2 DEF Above, SameRest
<1>4. \A l \in OldLinks : Upgrade!PlacesSeen(b, l) = Upgrade!PlacesSeen(db, l)
    BY <1>2 DEF Upgrade!PlacesSeen, Upgrade!GroupsOf, Upgrade!Groups, SameRest
<1>5. Grows(db, b)
    BY <1>1, <1>3, <1>4, MergedTagsSeen DEF Grows, Keeps
<1>6. Grows(b, Upgrade!Rebuilt(b))
    BY <1>1, RebuiltIs, GrowsIndex
<1>7. Upgrade!Merged(Upgrade!Rebuilt(b)) = Upgrade!Rebuilt(b)
    BY <1>1, <1>6 DEF Grows, Above
<1>8. QED
    BY <1>5, <1>6, <1>7, GrowsTransitive

-----------------------------------------------------------------------------
(* The other updates *)

LEMMA TableGrows ==
    ASSUME NEW db, Upgrade!Sound(db)
    PROVE  /\ Grows(db, [db EXCEPT !.table = "current"])
           /\ Grows(db, [db EXCEPT !.table = "absent", !.index = [l \in OldLinks |-> None]])
<1>0. db \in Upgrade!Database
    BY DEF Upgrade!Sound
<1>1. Grows(db, [db EXCEPT !.table = "current"])
    <2> DEFINE b == [db EXCEPT !.table = "current"]
    <2>1. b \in Upgrade!Database
        BY <1>0 DEF Upgrade!Database
    <2>2. SameTagsOf(db, b) /\ SameRest(db, b)
        BY <1>0 DEF Upgrade!Database, SameTagsOf, SameRest
    <2> HIDE DEF b
    <2>3. QED
        BY <2>1, <2>2, GrowsIndex DEF b
<1>2. Grows(db, [db EXCEPT !.table = "absent", !.index = [l \in OldLinks |-> None]])
    <2> DEFINE index == [l \in OldLinks |-> None]
               b == [db EXCEPT !.table = "absent", !.index = index]
    <2>1. index \in [OldLinks -> {None} \cup SUBSET OldNames]
        OBVIOUS
    <2> HIDE DEF index
    <2>2. b \in Upgrade!Database
        BY <1>0, <2>1 DEF Upgrade!Database
    <2>3. SameTagsOf(db, b) /\ SameRest(db, b)
        BY <1>0 DEF Upgrade!Database, SameTagsOf, SameRest
    <2> HIDE DEF b
    <2>4. Grows(db, b)
        BY <2>2, <2>3, GrowsIndex
    <2>5. QED
        BY <2>4 DEF b, index
<1>3. QED
    BY <1>1, <1>2

LEMMA TriggerGrows ==
    ASSUME NEW db, Upgrade!Sound(db), NEW t, NEW x,
           t \in Upgrade!Range(Upgrade!Triggers) => x \in {"absent", "stale", "marked"}
    PROVE  Grows(db, [db EXCEPT !.triggers[t] = x])
<1> DEFINE triggers == [db.triggers EXCEPT ![t] = x]
           b == [db EXCEPT !.triggers = triggers]
<1>0. db \in Upgrade!Database
    BY DEF Upgrade!Sound
<1>1. triggers \in [Upgrade!Range(Upgrade!Triggers) -> {"absent", "stale", "marked"}]
    <2>1. db.triggers \in [Upgrade!Range(Upgrade!Triggers) -> {"absent", "stale", "marked"}]
        BY <1>0 DEF Upgrade!Database
    <2>2. QED
        BY <2>1
<1>2. [db EXCEPT !.triggers[t] = x] = b
    OBVIOUS
<1> HIDE DEF triggers
<1>3. b \in Upgrade!Database
    BY <1>0, <1>1 DEF Upgrade!Database
<1>4. SameTagsOf(db, b) /\ SameRest(db, b)
    BY <1>0 DEF Upgrade!Database, SameTagsOf, SameRest
<1> HIDE DEF b
<1>5. QED
    BY <1>2, <1>3, <1>4, GrowsIndex

LEMMA ColumnGrows ==
    ASSUME NEW db, Upgrade!Sound(db), NEW c \in Upgrade!Additions
    PROVE  LET b == [db EXCEPT !.columns = @ \cup {c}]
           IN  Grows(db, b) /\ b.columns = db.columns \cup {c}
<1> DEFINE columns == db.columns \cup {c}
           b == [db EXCEPT !.columns = columns]
<1>0. db \in Upgrade!Database
    BY DEF Upgrade!Sound
<1>1. columns \in SUBSET Upgrade!Additions /\ db.columns \subseteq columns
    BY <1>0 DEF Upgrade!Database
<1> HIDE DEF columns
<1>2. b \in Upgrade!Database
    BY <1>0, <1>1 DEF Upgrade!Database
<1>3. /\ SameTagsOf(db, b) /\ b.columns = columns
      /\ b.groups = db.groups /\ b.members = db.members /\ b.filed = db.filed
      /\ b.uniques = db.uniques /\ b.slugged = db.slugged
      /\ b.key = db.key /\ b.token = db.token
    BY <1>0 DEF Upgrade!Database, SameTagsOf
<1> HIDE DEF b
<1>4. Grows(db, b)
    BY <1>1, <1>2, <1>3, GrowsSchema
<1>5. QED
    BY <1>3, <1>4 DEF b, columns

LEMMA SlugsGrow ==
    ASSUME NEW db, Upgrade!Sound(db)
    PROVE  LET b == [db EXCEPT !.slugged = TRUE]
           IN  Grows(db, b) /\ b.slugged /\ b.columns = db.columns /\ b.groups = db.groups
<1> DEFINE b == [db EXCEPT !.slugged = TRUE]
<1>0. db \in Upgrade!Database
    BY DEF Upgrade!Sound
<1>1. b \in Upgrade!Database
    BY <1>0 DEF Upgrade!Database
<1>2. /\ SameTagsOf(db, b) /\ b.slugged
      /\ b.groups = db.groups /\ b.members = db.members /\ b.filed = db.filed
      /\ b.columns = db.columns /\ b.uniques = db.uniques
      /\ b.key = db.key /\ b.token = db.token
    BY <1>0 DEF Upgrade!Database, SameTagsOf
<1> HIDE DEF b
<1>3. Grows(db, b)
    BY <1>1, <1>2, GrowsSchema
<1>4. QED
    BY <1>2, <1>3 DEF b

LEMMA SealedGrows ==
    ASSUME NEW db, Upgrade!Sound(db)
    PROVE  Grows(db, Upgrade!Sealed(db)) /\ Upgrade!Sealed(db).key = "hashed"
                /\ Upgrade!Sealed(db).token = "encrypted"
<1> DEFINE b == [db EXCEPT !.key = "hashed", !.token = "encrypted"]
<1>0. db \in Upgrade!Database
    BY DEF Upgrade!Sound
<1>1. b \in Upgrade!Database
    BY <1>0 DEF Upgrade!Database
<1>2. /\ SameTagsOf(db, b) /\ b.key = "hashed" /\ b.token = "encrypted"
      /\ b.groups = db.groups /\ b.members = db.members /\ b.filed = db.filed
      /\ b.columns = db.columns /\ b.uniques = db.uniques /\ b.slugged = db.slugged
    BY <1>0 DEF Upgrade!Database, SameTagsOf
<1> HIDE DEF b
<1>3. Grows(db, b)
    BY <1>1, <1>2, GrowsSchema
<1>4. QED
    BY <1>2, <1>3 DEF b, Upgrade!Sealed

LEMMA UniquesGrow ==
    ASSUME NEW db, Upgrade!Sound(db)
    PROVE  LET b == [db EXCEPT !.uniques = @ \cup {"tags"} \cup (IF db.twins THEN {} ELSE {"links"})]
           IN  Grows(db, b) /\ "tags" \in b.uniques
<1> DEFINE uniques == db.uniques \cup {"tags"} \cup (IF db.twins THEN {} ELSE {"links"})
           b == [db EXCEPT !.uniques = uniques]
<1>0. db \in Upgrade!Database
    BY DEF Upgrade!Sound
<1>1. uniques \in SUBSET {"tags", "links"} /\ db.uniques \subseteq uniques /\ "tags" \in uniques
    BY <1>0 DEF Upgrade!Database
<1> HIDE DEF uniques
<1>2. b \in Upgrade!Database
    BY <1>0, <1>1 DEF Upgrade!Database
<1>3. /\ SameTagsOf(db, b) /\ b.uniques = uniques
      /\ b.groups = db.groups /\ b.members = db.members /\ b.filed = db.filed
      /\ b.columns = db.columns /\ b.slugged = db.slugged
      /\ b.key = db.key /\ b.token = db.token
    BY <1>0 DEF Upgrade!Database, SameTagsOf
<1> HIDE DEF b
<1>4. Grows(db, b)
    BY <1>1, <1>2, <1>3, GrowsSchema
<1>5. QED
    BY <1>1, <1>3, <1>4 DEF b, uniques

\* link_groups alone is dropped, when there is no group.
LEMMA MembersDropGrows ==
    ASSUME NEW db, Upgrade!Sound(db), Upgrade!Groups(db) = {}
    PROVE  Grows(db, [db EXCEPT !.members = None])
<1> DEFINE b == [db EXCEPT !.members = None]
<1>0. db \in Upgrade!Database
    BY DEF Upgrade!Sound
<1>1. b \in Upgrade!Database
    BY <1>0, NoTable DEF Upgrade!Database
<1>2. /\ SameTagsOf(db, b) /\ b.members = None
      /\ b.groups = db.groups /\ b.filed = db.filed
      /\ b.columns = db.columns /\ b.uniques = db.uniques /\ b.slugged = db.slugged
      /\ b.key = db.key /\ b.token = db.token
    BY <1>0 DEF Upgrade!Database, SameTagsOf
<1>3. \A l \in OldLinks : b.filed[l] \in Upgrade!PlacesSeen(db, l)
    BY <1>2 DEF Upgrade!PlacesSeen, Upgrade!GroupsOf
<1> HIDE DEF b
<1>4. Grows(db, b)
    BY <1>1, <1>2, <1>3, GrowsGroups
<1>5. QED
    BY <1>4 DEF b

-----------------------------------------------------------------------------
(* A statement, a read and the end of a start *)

Statements == Seq(Upgrade!Range(Upgrade!Triggers) \cup Upgrade!Additions)

LEMMA DoneGrows ==
    ASSUME NEW a, NEW b, NEW p, NEW left, Grows(a, b), Done(a, p, left)
    PROVE  Done(b, p, left)
    BY DEF Grows, Above, Done

\* Nothing is asked of a start before it has moved the groups.
LEMMA DoneEarly ==
    ASSUME NEW db, NEW p \in Upgrade!Places \ FromColumns, NEW left
    PROVE  Done(db, p, left)
    BY DEF Done, FromColumns, FromSlugs, FromLate, FromSeal, FromTags, FromUniques,
           FromCommit, FromUp

LEMMA ViewFacts ==
    ASSUME StoreInv, NEW s \in Starts
    PROVE  /\ Upgrade!Sound(Upgrade!View(s)) /\ Done(Upgrade!View(s), pc[s], todo[s])
           /\ s # None /\ pc[s] \in Upgrade!Places /\ todo[s] \in Statements
           /\ writer # None => Upgrade!Sound(work) /\ writer \in Starts
    BY MigrationAssumption
       DEF StoreInv, Upgrade!TypeOK, Store, Upgrade!View, Grows, Upgrade!MigrationConstants,
           Statements

\* What a step of start s, at place p and with the loop over left after it,
\* makes of the invariant.
Onward(s, p, left) ==
    /\ pc' = [pc EXCEPT ![s] = p]
    /\ todo' = [todo EXCEPT ![s] = left]
    /\ rebuild' \in [Starts -> BOOLEAN]
    /\ kills' \in 0 .. MaxKills
    /\ slugLost' \in BOOLEAN

\* The step is good when every start sees a database at least as far, and the
\* one that takes it what it must have done.
LEMMA OnwardInv ==
    ASSUME StoreInv, NEW s \in Starts, NEW p \in Upgrade!Places, NEW left \in Statements,
           Onward(s, p, left), Store', writer' \in Starts \cup {None},
           work' \in Upgrade!Database \cup {None},
           \A t \in Starts \ {s} : Grows(Upgrade!View(t), Upgrade!View(t)'),
           Done(Upgrade!View(s)', p, left)
    PROVE  StoreInv'
<1>1. Upgrade!TypeOK'
    BY DEF StoreInv, Upgrade!TypeOK, Onward, Store, Upgrade!Sound, Statements
<1>2. ASSUME NEW t \in Starts
      PROVE  Done(Upgrade!View(t), pc[t], todo[t])'
    <2>1. CASE t = s
        BY <2>1 DEF Onward, StoreInv, Upgrade!TypeOK
    <2>2. CASE t # s
        <3>1. pc'[t] = pc[t] /\ todo'[t] = todo[t]
            BY <2>2 DEF Onward, StoreInv, Upgrade!TypeOK
        <3>2. Done(Upgrade!View(t)', pc[t], todo[t])
            BY <2>2, DoneGrows DEF StoreInv
        <3>3. QED
            BY <3>1, <3>2 DEF Done
    <2>3. QED
        BY <2>1, <2>2
<1>3. QED
    BY <1>1, <1>2 DEF StoreInv

LEMMA WriteInv ==
    ASSUME StoreInv, NEW s \in Starts, NEW p \in Upgrade!Places \ {"up"}, NEW left \in Statements,
           Onward(s, p, left), NEW db, Upgrade!Ddl(s, db) \/ Upgrade!Dml(s, db),
           Grows(Upgrade!View(s), db), Done(db, p, left)
    PROVE  StoreInv' /\ Grows(disk, disk')
<1>1. s # None /\ Upgrade!Sound(disk) /\ Upgrade!Sound(db) /\ db \in Upgrade!Database
    BY ViewFacts DEF StoreInv, Store, Grows, Upgrade!Sound
<1>2. /\ writer # None => Grows(disk, work) /\ pc[writer] # "up" /\ writer \in Starts
      /\ work \in Upgrade!Database \cup {None}
    BY DEF StoreInv, Store, Upgrade!TypeOK
<1>3. pc'[s] = p /\ \A t \in Starts \ {s} : pc'[t] = pc[t]
    BY DEF Onward, StoreInv, Upgrade!TypeOK
<1>4. CASE Upgrade!Ddl(s, db) /\ writer = s
    <2>1. work' = db /\ disk' = disk /\ writer' = s /\ Upgrade!View(s) = work
        BY <1>4 DEF Upgrade!Ddl, Upgrade!View
    <2>2. Grows(disk', work')
        BY <1>1, <1>2, <1>4, <2>1, GrowsTransitive
    <2>3. Store'
        BY <1>1, <1>3, <2>1, <2>2 DEF Store
    <2>4. \A t \in Starts \ {s} : Upgrade!View(t) = disk /\ Upgrade!View(t)' = disk'
        BY <1>4, <2>1 DEF Upgrade!View
    <2>5. Upgrade!View(s)' = db
        BY <2>1 DEF Upgrade!View
    <2>6. QED
        BY <1>1, <2>1, <2>3, <2>4, <2>5, OnwardInv, GrowsReflexive
<1>5. CASE Upgrade!Ddl(s, db) /\ writer = None
    <2>1. disk' = db /\ work' = work /\ writer' = None /\ Upgrade!View(s) = disk
        BY <1>1, <1>5 DEF Upgrade!Ddl, Upgrade!View
    <2>2. Store'
        BY <1>1, <2>1 DEF Store
    <2>3. \A t \in Starts \ {s} : Upgrade!View(t) = disk /\ Upgrade!View(t)' = db
        BY <1>5, <2>1, MigrationAssumption DEF Upgrade!View, Upgrade!MigrationConstants
    <2>4. Upgrade!View(s)' = db
        BY <1>1, <2>1 DEF Upgrade!View
    <2>5. QED
        BY <1>2, <2>1, <2>2, <2>3, <2>4, OnwardInv
<1>6. CASE Upgrade!Dml(s, db)
    <2>1. work' = db /\ disk' = disk /\ writer' = s /\ writer \in {None, s}
        BY <1>6 DEF Upgrade!Dml, Upgrade!MayWrite
    <2>2. Grows(disk', work')
        <3>1. CASE writer = s
            BY <1>1, <1>2, <2>1, <3>1, GrowsTransitive DEF Upgrade!View
        <3>2. CASE writer = None
            BY <1>1, <2>1, <3>2 DEF Upgrade!View
        <3>3. QED
            BY <2>1, <3>1, <3>2
    <2>3. Store'
        BY <1>1, <1>3, <2>1, <2>2 DEF Store
    <2>4. \A t \in Starts \ {s} : Upgrade!View(t) = disk /\ Upgrade!View(t)' = disk'
        BY <2>1, MigrationAssumption DEF Upgrade!View, Upgrade!MigrationConstants
    <2>5. Upgrade!View(s)' = db
        BY <2>1 DEF Upgrade!View
    <2>6. QED
        BY <1>1, <2>1, <2>3, <2>4, <2>5, OnwardInv, GrowsReflexive
<1>7. QED
    BY <1>4, <1>5, <1>6 DEF Upgrade!Ddl, Upgrade!MayWrite

LEMMA ReadInv ==
    ASSUME StoreInv, NEW s \in Starts, NEW p \in Upgrade!Places \ {"up"}, NEW left \in Statements,
           Onward(s, p, left), Upgrade!NoWrite, Done(Upgrade!View(s), p, left)
    PROVE  StoreInv' /\ Grows(disk, disk')
<1>1. Upgrade!Sound(disk) /\ disk' = disk /\ work' = work /\ writer' = writer
    BY DEF StoreInv, Store, Upgrade!NoWrite
<1>2. \A t \in Starts : Upgrade!Sound(Upgrade!View(t)) /\ Upgrade!View(t)' = Upgrade!View(t)
    BY <1>1, ViewFacts DEF Upgrade!View
<1>3. pc'[s] = p /\ \A t \in Starts \ {s} : pc'[t] = pc[t]
    BY DEF Onward, StoreInv, Upgrade!TypeOK
<1>4. writer \in Starts \cup {None} /\ work \in Upgrade!Database \cup {None}
    BY DEF StoreInv, Upgrade!TypeOK
<1>5. Store'
    BY <1>1, <1>3, <1>4 DEF StoreInv, Store
<1>6. QED
    BY <1>1, <1>2, <1>4, <1>5, OnwardInv, GrowsReflexive

LEMMA StopInv ==
    ASSUME StoreInv, NEW s \in Starts, Upgrade!Stop(s), kills' \in 0 .. MaxKills
    PROVE  StoreInv' /\ Grows(disk, disk')
<1>1. Upgrade!Sound(disk) /\ disk' = disk /\ s # None
    BY ViewFacts DEF StoreInv, Store, Upgrade!Stop
<1>2. writer \in Starts \cup {None} /\ work \in Upgrade!Database \cup {None}
    BY DEF StoreInv, Upgrade!TypeOK
<1>3. pc'[s] = "down" /\ \A t \in Starts \ {s} : pc'[t] = pc[t]
    BY DEF Upgrade!Stop, StoreInv, Upgrade!TypeOK
<1>4. Store'
    <2>1. CASE writer = s
        BY <1>1, <2>1 DEF Store, Upgrade!Stop
    <2>2. CASE writer # s
        BY <1>1, <1>2, <1>3, <2>2 DEF Store, Upgrade!Stop, StoreInv
    <2>3. QED
        BY <2>1, <2>2
<1>5. \A t \in Starts \ {s} : Upgrade!Sound(Upgrade!View(t)) /\ Upgrade!View(t)' = Upgrade!View(t)
    BY <1>1, ViewFacts DEF Upgrade!View, Upgrade!Stop
<1>6. Onward(s, "down", <<>>)
    BY DEF Upgrade!Stop, Onward, StoreInv, Upgrade!TypeOK
<1>7. "down" \in Upgrade!Places \ FromColumns
    BY DEF Upgrade!Places, FromColumns, FromSlugs, FromLate, FromSeal, FromTags, FromUniques,
           FromCommit, FromUp
<1>8. /\ "down" \in Upgrade!Places /\ <<>> \in Statements
      /\ writer' \in Starts \cup {None} /\ work' \in Upgrade!Database \cup {None}
    BY <1>2 DEF Upgrade!Stop, Upgrade!Places, Statements
<1>9. QED
    BY <1>1, <1>4, <1>5, <1>6, <1>7, <1>8, DoneEarly, OnwardInv, GrowsReflexive

-----------------------------------------------------------------------------
(* The steps before the groups *)

Early == {"down", "create_all", "drop table", "drop old triggers", "table", "stale",
          "drop triggers", "triggers", "rebuild", "groups", "move", "move groups"}

LEMMA EarlyPlaces == Early \subseteq Upgrade!Places \ FromColumns /\ "up" \notin Early
    BY DEF Early, Upgrade!Places, FromColumns, FromSlugs, FromLate, FromSeal, FromTags,
           FromUniques, FromCommit, FromUp

LEMMA GotoOnward ==
    ASSUME StoreInv, NEW s \in Starts, NEW from, NEW to, Upgrade!Goto(s, from, to),
           rebuild' \in [Starts -> BOOLEAN]
    PROVE  /\ todo' = todo => Onward(s, to, todo[s])
           /\ \A left : todo' = [todo EXCEPT ![s] = left] => Onward(s, to, left)
    BY DEF StoreInv, Upgrade!TypeOK, Upgrade!Goto, Onward

LEMMA RangeOfTail ==
    ASSUME NEW S, NEW q \in Seq(S), q # <<>>
    PROVE  /\ Tail(q) \in Seq(S)
           /\ Upgrade!Range(q) = {Head(q)} \cup Upgrade!Range(Tail(q))
           /\ Len(q) = 1 => Upgrade!Range(q) = {Head(q)}
<1>1. /\ Len(q) \in Nat \ {0} /\ DOMAIN q = 1 .. Len(q) /\ Head(q) = q[1]
      /\ Tail(q) \in Seq(S) /\ Len(Tail(q)) = Len(q) - 1
      /\ \A i \in 1 .. Len(q) - 1 : Tail(q)[i] = q[i + 1]
    OBVIOUS
<1>2. DOMAIN Tail(q) = 1 .. Len(q) - 1
    BY <1>1
<1>3. ASSUME NEW x \in Upgrade!Range(q), x # Head(q)
      PROVE  x \in Upgrade!Range(Tail(q))
    <2>1. PICK i \in 1 .. Len(q) : x = q[i]
        BY <1>1 DEF Upgrade!Range
    <2>2. i - 1 \in 1 .. Len(q) - 1 /\ Tail(q)[i - 1] = x
        BY <1>1, <1>3, <2>1
    <2>3. QED
        BY <1>2, <2>2 DEF Upgrade!Range
<1>4. ASSUME NEW x \in Upgrade!Range(Tail(q))
      PROVE  x \in Upgrade!Range(q)
    <2>1. PICK i \in 1 .. Len(q) - 1 : x = Tail(q)[i]
        BY <1>2 DEF Upgrade!Range
    <2>2. i + 1 \in 1 .. Len(q) /\ q[i + 1] = x
        BY <1>1, <2>1
    <2>3. QED
        BY <1>1, <2>2 DEF Upgrade!Range
<1>5. Head(q) \in Upgrade!Range(q)
    BY <1>1 DEF Upgrade!Range
<1>6. Len(q) = 1 => Upgrade!Range(Tail(q)) = {}
    BY <1>1, <1>2 DEF Upgrade!Range
<1>7. QED
    BY <1>1, <1>3, <1>4, <1>5, <1>6

\* A loop goes on with the tail of what is left, or ends after its last element.
LEMMA LoopOnward ==
    ASSUME StoreInv, NEW s \in Starts, NEW from, NEW to, NEW next \in Statements,
           Upgrade!Loop(s, from, to, next), UNCHANGED rebuild
    PROVE  /\ pc[s] = from /\ Head(todo[s]) \in Upgrade!Range(todo[s])
           /\ \/ Onward(s, to, next) /\ Upgrade!Range(todo[s]) = {Head(todo[s])}
              \/ /\ Onward(s, from, Tail(todo[s])) /\ Tail(todo[s]) \in Statements
                 /\ Upgrade!Range(todo[s]) = {Head(todo[s])} \cup Upgrade!Range(Tail(todo[s]))
<1>1. todo[s] \in Statements /\ todo[s] # <<>> /\ pc[s] = from
    BY ViewFacts DEF Upgrade!Loop, Upgrade!Goto
<1>2. /\ Tail(todo[s]) \in Statements
      /\ Upgrade!Range(todo[s]) = {Head(todo[s])} \cup Upgrade!Range(Tail(todo[s]))
      /\ Len(todo[s]) = 1 => Upgrade!Range(todo[s]) = {Head(todo[s])}
    BY <1>1, RangeOfTail DEF Statements
<1>3. rebuild' \in [Starts -> BOOLEAN] /\ kills' \in 0 .. MaxKills /\ slugLost' \in BOOLEAN
    BY DEF StoreInv, Upgrade!TypeOK, Upgrade!Loop, Upgrade!Goto
<1>4. CASE Len(todo[s]) = 1
    <2>1. Onward(s, to, next)
        BY <1>3, <1>4 DEF Upgrade!Loop, Upgrade!Goto, Onward, StoreInv, Upgrade!TypeOK
    <2>2. QED
        BY <1>1, <1>2, <1>4, <2>1
<1>5. CASE Len(todo[s]) # 1
    <2>1. Onward(s, from, Tail(todo[s]))
        BY <1>3, <1>5 DEF Upgrade!Loop, Upgrade!Goto, Onward, StoreInv, Upgrade!TypeOK
    <2>2. QED
        BY <1>1, <1>2, <2>1
<1>6. QED
    BY <1>4, <1>5

LEMMA TriggersLoop == Upgrade!Triggers \in Statements /\ <<>> \in Statements
    BY DEF Upgrade!Triggers, Statements, Upgrade!Range

LEMMA EarlyReadsInv ==
    ASSUME StoreInv, NEW s \in Starts, Upgrade!Start(s) \/ Upgrade!ReadTable(s) \/ Upgrade!ReadTriggers(s)
    PROVE  StoreInv' /\ Grows(disk, disk')
<1>1. /\ Upgrade!NoWrite /\ rebuild' \in [Starts -> BOOLEAN]
      /\ \E p \in Early : \E left \in Statements : Onward(s, p, left)
    <2>1. CASE Upgrade!Start(s)
        BY <2>1, ViewFacts, GotoOnward
           DEF Upgrade!Start, Upgrade!local, Early, StoreInv, Upgrade!TypeOK
    <2>2. CASE Upgrade!ReadTable(s)
        <3>1. rebuild' \in [Starts -> BOOLEAN]
            BY <2>2 DEF Upgrade!ReadTable, StoreInv, Upgrade!TypeOK
        <3>2. QED
            BY ZenonT(60), <2>2, <3>1, ViewFacts, GotoOnward DEF Upgrade!ReadTable, Early
    <2>3. CASE Upgrade!ReadTriggers(s)
        <3>1. rebuild' \in [Starts -> BOOLEAN]
            BY <2>3 DEF Upgrade!ReadTriggers, StoreInv, Upgrade!TypeOK
        <3>2. QED
            BY <2>3, <3>1, TriggersLoop, GotoOnward DEF Upgrade!ReadTriggers, Early
    <2>4. QED
        BY <2>1, <2>2, <2>3
<1>2. QED
    BY <1>1, EarlyPlaces, DoneEarly, ReadInv

LEMMA EarlyWritesInv ==
    ASSUME StoreInv, NEW s \in Starts, Upgrade!DropTable(s) \/ Upgrade!CreateTable(s)
    PROVE  StoreInv' /\ Grows(disk, disk')
<1>1. Upgrade!Sound(Upgrade!View(s)) /\ todo[s] \in Statements /\ rebuild \in [Starts -> BOOLEAN]
    BY ViewFacts DEF StoreInv, Upgrade!TypeOK
<1>2. \E p \in Early : \E left \in Statements : Onward(s, p, left)
    <2>1. CASE Upgrade!DropTable(s)
        BY <1>1, <2>1, TriggersLoop, GotoOnward DEF Upgrade!DropTable, Early
    <2>2. CASE Upgrade!CreateTable(s)
        BY <1>1, <2>2, GotoOnward DEF Upgrade!CreateTable, Upgrade!local, Early
    <2>3. QED
        BY <2>1, <2>2
<1>3. \E db : Upgrade!Ddl(s, db) /\ Grows(Upgrade!View(s), db)
    <2>1. CASE Upgrade!DropTable(s)
        BY <1>1, <2>1, TableGrows DEF Upgrade!DropTable
    <2>2. CASE Upgrade!CreateTable(s)
        BY <1>1, <2>2, TableGrows, GrowsReflexive DEF Upgrade!CreateTable
    <2>3. QED
        BY <2>1, <2>2
<1>4. QED
    BY <1>2, <1>3, EarlyPlaces, DoneEarly, WriteInv

LEMMA TriggerStepsInv ==
    ASSUME StoreInv, NEW s \in Starts, Upgrade!DropTrigger(s) \/ Upgrade!CreateTrigger(s)
    PROVE  StoreInv' /\ Grows(disk, disk')
<1>1. Upgrade!Sound(Upgrade!View(s)) /\ Upgrade!View(s) \in Upgrade!Database
    BY ViewFacts DEF Upgrade!Sound
<1>2. \E p \in Early : \E left \in Statements : Onward(s, p, left)
    <2>1. CASE Upgrade!Loop(s, "drop old triggers", "table", <<>>) /\ UNCHANGED rebuild
        BY <2>1, TriggersLoop, LoopOnward DEF Early
    <2>2. CASE Upgrade!Loop(s, "drop triggers", "triggers", Upgrade!Triggers) /\ UNCHANGED rebuild
        BY <2>2, TriggersLoop, LoopOnward DEF Early
    <2>3. CASE Upgrade!Loop(s, "triggers", "rebuild", <<>>) /\ UNCHANGED rebuild
        BY <2>3, TriggersLoop, LoopOnward DEF Early
    <2>4. QED
        BY <2>1, <2>2, <2>3 DEF Upgrade!DropTrigger, Upgrade!CreateTrigger
<1>3. \E db : Upgrade!Ddl(s, db) /\ Grows(Upgrade!View(s), db)
    <2> DEFINE t == Head(todo[s])
    <2>1. CASE Upgrade!DropTrigger(s)
        BY <1>1, <2>1, TriggerGrows DEF Upgrade!DropTrigger
    <2>2. CASE Upgrade!CreateTrigger(s)
        <3> DEFINE x == IF Upgrade!View(s).triggers[t] = "absent" THEN "marked"
                    ELSE Upgrade!View(s).triggers[t]
        <3>1. t \in Upgrade!Range(Upgrade!Triggers) => x \in {"absent", "stale", "marked"}
            BY <1>1 DEF Upgrade!Database
        <3>2. Upgrade!AfterTriggers(Upgrade!View(s), t) = [Upgrade!View(s) EXCEPT !.triggers[t] = x]
            BY DEF Upgrade!AfterTriggers
        <3> HIDE DEF x, t
        <3>3. Grows(Upgrade!View(s), [Upgrade!View(s) EXCEPT !.triggers[t] = x])
            BY <1>1, <3>1, TriggerGrows
        <3>4. QED
            BY <2>2, <3>2, <3>3 DEF Upgrade!CreateTrigger, t
    <2>3. QED
        BY <2>1, <2>2
<1>4. QED
    BY <1>2, <1>3, EarlyPlaces, DoneEarly, WriteInv

LEMMA RebuildInv ==
    ASSUME StoreInv, NEW s \in Starts, Upgrade!RebuildIndex(s)
    PROVE  StoreInv' /\ Grows(disk, disk')
<1>1. Upgrade!Sound(Upgrade!View(s)) /\ todo[s] \in Statements /\ rebuild \in [Starts -> BOOLEAN]
    BY ViewFacts DEF StoreInv, Upgrade!TypeOK
<1>2. Onward(s, "groups", todo[s]) /\ "groups" \in Early
    BY <1>1, GotoOnward DEF Upgrade!RebuildIndex, Upgrade!local, Early
<1>3. CASE rebuild[s]
    <2>1. Upgrade!Dml(s, Upgrade!Rebuilt(Upgrade!View(s)))
                /\ Grows(Upgrade!View(s), Upgrade!Rebuilt(Upgrade!View(s)))
        BY <1>1, <1>3, RebuiltIs, GrowsIndex DEF Upgrade!RebuildIndex
    <2>2. QED
        BY <1>1, <1>2, <2>1, EarlyPlaces, DoneEarly, WriteInv
<1>4. CASE ~rebuild[s]
    BY <1>1, <1>2, <1>4, EarlyPlaces, DoneEarly, ReadInv DEF Upgrade!RebuildIndex
<1>5. QED
    BY <1>3, <1>4

-----------------------------------------------------------------------------
(* The steps from the groups on *)

\* What each place asks for, spelled out.
LEMMA DoneAt ==
    ASSUME NEW db, NEW left
    PROVE  /\ Done(db, "columns", left) <=> db.groups = None
           /\ Done(db, "alter", left) <=>
                 /\ Done(db, "columns", left) /\ Upgrade!Range(left) \subseteq Upgrade!Additions
                 /\ Upgrade!EarlyColumns \subseteq db.columns \cup Upgrade!Range(left)
           /\ Done(db, "slugs", left) <=>
                 Done(db, "columns", left) /\ Upgrade!EarlyColumns \subseteq db.columns
           /\ Done(db, "late columns", left) <=> Done(db, "slugs", left) /\ db.slugged
           /\ Done(db, "late alter", left) <=>
                 /\ Done(db, "late columns", left) /\ Upgrade!Range(left) \subseteq Upgrade!Additions
                 /\ Upgrade!LateColumns \subseteq db.columns \cup Upgrade!Range(left)
           /\ Done(db, "seal", left) <=>
                 Done(db, "late columns", left) /\ Upgrade!LateColumns \subseteq db.columns
           /\ Done(db, "tags", left) <=>
                 Done(db, "seal", left) /\ db.key = "hashed" /\ db.token = "encrypted"
           /\ Done(db, "uniques", left) <=> Done(db, "tags", left) /\ Upgrade!Merged(db) = db
           /\ Done(db, "commit", left) <=> Done(db, "uniques", left) /\ "tags" \in db.uniques
           /\ Done(db, "up", left) <=> Done(db, "commit", left)
    BY DEF Done, FromColumns, FromSlugs, FromLate, FromSeal, FromTags, FromUniques,
           FromCommit, FromUp

LEMMA LatePlaces ==
    {"columns", "alter", "slugs", "late columns", "late alter", "seal", "tags", "uniques",
     "commit"} \subseteq Upgrade!Places \ {"up"} /\ "up" \in Upgrade!Places
    BY DEF Upgrade!Places

LEMMA ReadGroupsInv ==
    ASSUME StoreInv, NEW s \in Starts, Upgrade!ReadGroups(s)
    PROVE  StoreInv' /\ Grows(disk, disk')
<1>1. todo[s] \in Statements /\ rebuild' \in [Starts -> BOOLEAN] /\ Upgrade!NoWrite
    BY ViewFacts DEF Upgrade!ReadGroups, Upgrade!local, StoreInv, Upgrade!TypeOK
<1>2. CASE Upgrade!View(s).groups = None
    <2>1. Onward(s, "columns", todo[s])
        BY <1>1, <1>2, GotoOnward DEF Upgrade!ReadGroups, Upgrade!local
    <2>2. QED
        BY <1>1, <1>2, <2>1, DoneAt, LatePlaces, ReadInv
<1>3. CASE Upgrade!View(s).groups # None
    <2>1. PICK p \in Early : Onward(s, p, todo[s])
        BY <1>1, <1>3, GotoOnward DEF Upgrade!ReadGroups, Upgrade!local, Early
    <2>2. QED
        BY <1>1, <2>1, EarlyPlaces, DoneEarly, ReadInv
<1>4. QED
    BY <1>2, <1>3

LEMMA MoveGroupsInv ==
    ASSUME StoreInv, NEW s \in Starts, Upgrade!MoveGroups(s)
    PROVE  StoreInv' /\ Grows(disk, disk')
<1>1. /\ todo[s] \in Statements /\ rebuild' \in [Starts -> BOOLEAN] /\ todo' = todo
      /\ Upgrade!Sound(Upgrade!View(s))
    BY ViewFacts DEF Upgrade!MoveGroups, Upgrade!local, StoreInv, Upgrade!TypeOK
<1>2. CASE /\ Upgrade!Goto(s, "move", "move groups") /\ Upgrade!Groups(Upgrade!View(s)) = {}
           /\ Upgrade!Ddl(s, [Upgrade!View(s) EXCEPT !.members = None])
    <2>1. Onward(s, "move groups", todo[s]) /\ "move groups" \in Early
        BY <1>1, <1>2, GotoOnward DEF Early
    <2>2. Grows(Upgrade!View(s), [Upgrade!View(s) EXCEPT !.members = None])
        BY <1>1, <1>2, MembersDropGrows
    <2>3. QED
        BY ZenonT(60), <1>1, <1>2, <2>1, <2>2, EarlyPlaces, DoneEarly, WriteInv
<1>3. CASE /\ \E from : Upgrade!Goto(s, from, "columns")
           /\ Upgrade!Ddl(s, Upgrade!Moved(Upgrade!View(s))) \/ Upgrade!Dml(s, Upgrade!Moved(Upgrade!View(s)))
    <2>1. Onward(s, "columns", todo[s])
        BY <1>1, <1>3, GotoOnward
    <2>2. Grows(Upgrade!View(s), Upgrade!Moved(Upgrade!View(s)))
                /\ Done(Upgrade!Moved(Upgrade!View(s)), "columns", todo[s])
        BY <1>1, MovedGrows, DoneAt
    <2>3. QED
        BY <1>1, <1>3, <2>1, <2>2, LatePlaces, WriteInv
<1>4. QED
    BY <1>2, <1>3 DEF Upgrade!MoveGroups

\* What the two readings of the columns leave to add.
LEMMA MissingColumns ==
    ASSUME NEW db
    PROVE  /\ Upgrade!MissingEarly(db) \in Statements /\ Upgrade!MissingLate(db) \in Statements
           /\ Upgrade!Range(Upgrade!MissingEarly(db)) \subseteq Upgrade!Additions
           /\ Upgrade!Range(Upgrade!MissingLate(db)) \subseteq Upgrade!Additions \cap Upgrade!LateColumns
           /\ Upgrade!EarlyColumns \subseteq db.columns \cup Upgrade!Range(Upgrade!MissingEarly(db))
           /\ Upgrade!LateColumns \subseteq db.columns \cup Upgrade!Range(Upgrade!MissingLate(db))
<1>1. /\ Upgrade!Range(<<>>) = {}
      /\ Upgrade!Range(<<"folder_id">>) = {"folder_id"}
      /\ Upgrade!Range(<<"archive_status">>) = {"archive_status"}
      /\ Upgrade!Range(<<"api_key_hmac">>) = {"api_key_hmac"}
      /\ Upgrade!Range(<<"public_slug", "ix_public_slug">>) = {"public_slug", "ix_public_slug"}
    BY DEF Upgrade!Range
<1>2. /\ <<>> \in Statements
      /\ <<"folder_id">> \in Statements /\ <<"public_slug", "ix_public_slug">> \in Statements
      /\ <<"archive_status">> \in Statements /\ <<"api_key_hmac">> \in Statements
    BY DEF Statements, Upgrade!Additions, Upgrade!EarlyColumns, Upgrade!LateColumns
<1>3. ASSUME NEW q \in Statements, NEW r \in Statements
      PROVE  q \o r \in Statements /\ Upgrade!Range(q \o r) = Upgrade!Range(q) \cup Upgrade!Range(r)
    <2>1. /\ q \o r \in Statements /\ Len(q \o r) = Len(q) + Len(r)
          /\ Len(q) \in Nat /\ Len(r) \in Nat
          /\ DOMAIN q = 1 .. Len(q) /\ DOMAIN r = 1 .. Len(r)
          /\ DOMAIN (q \o r) = 1 .. Len(q) + Len(r)
          /\ \A i \in 1 .. Len(q) + Len(r) :
                (q \o r)[i] = IF i <= Len(q) THEN q[i] ELSE r[i - Len(q)]
        BY DEF Statements
    <2>2. \A i \in 1 .. Len(r) : /\ i + Len(q) \in 1 .. Len(q) + Len(r)
                                 /\ (q \o r)[i + Len(q)] = r[i]
        BY <2>1
    <2>3. \A i \in 1 .. Len(q) : i \in 1 .. Len(q) + Len(r) /\ (q \o r)[i] = q[i]
        BY <2>1
    <2>4. \A i \in 1 .. Len(q) + Len(r) :
              \/ i \in 1 .. Len(q) /\ (q \o r)[i] = q[i]
              \/ i - Len(q) \in 1 .. Len(r) /\ (q \o r)[i] = r[i - Len(q)]
        BY <2>1
    <2>5. ASSUME NEW x \in Upgrade!Range(q \o r)
          PROVE  x \in Upgrade!Range(q) \cup Upgrade!Range(r)
        <3>1. PICK i \in 1 .. Len(q) + Len(r) : x = (q \o r)[i]
            BY <2>1 DEF Upgrade!Range
        <3>2. QED
            BY <2>1, <2>4, <3>1 DEF Upgrade!Range
    <2>6. ASSUME NEW x \in Upgrade!Range(q) \cup Upgrade!Range(r)
          PROVE  x \in Upgrade!Range(q \o r)
        <3>1. \/ \E i \in 1 .. Len(q) : x = q[i]
              \/ \E i \in 1 .. Len(r) : x = r[i]
            BY <2>1 DEF Upgrade!Range
        <3>2. \E i \in 1 .. Len(q) + Len(r) : x = (q \o r)[i]
            BY <2>2, <2>3, <3>1
        <3>3. QED
            BY <2>1, <3>2 DEF Upgrade!Range
    <2>7. QED
        BY <2>1, <2>5, <2>6
<1>4. \A c : \A q \in Statements : /\ Upgrade!Unless(c, db, q) \in Statements
                                   /\ Upgrade!Range(Upgrade!Unless(c, db, q)) \subseteq Upgrade!Range(q)
                                   /\ c \in db.columns \/ Upgrade!Range(Upgrade!Unless(c, db, q)) = Upgrade!Range(q)
    BY <1>1, <1>2 DEF Upgrade!Unless
<1>5. /\ Upgrade!MissingEarly(db) \in Statements
      /\ Upgrade!Range(Upgrade!MissingEarly(db)) =
                  Upgrade!Range(Upgrade!Unless("folder_id", db, <<"folder_id">>))
            \cup Upgrade!Range(Upgrade!Unless("public_slug", db, <<"public_slug", "ix_public_slug">>))
    BY <1>2, <1>3, <1>4 DEF Upgrade!MissingEarly
<1>6. /\ Upgrade!MissingLate(db) \in Statements
      /\ Upgrade!Range(Upgrade!MissingLate(db)) =
                  Upgrade!Range(Upgrade!Unless("archive_status", db, <<"archive_status">>))
            \cup Upgrade!Range(Upgrade!Unless("api_key_hmac", db, <<"api_key_hmac">>))
    BY <1>2, <1>3, <1>4 DEF Upgrade!MissingLate
<1>7. QED
    BY <1>1, <1>2, <1>4, <1>5, <1>6
       DEF Upgrade!Additions, Upgrade!EarlyColumns, Upgrade!LateColumns

LEMMA ReadColumnsInv ==
    ASSUME StoreInv, NEW s \in Starts, Upgrade!ReadColumns(s)
    PROVE  StoreInv' /\ Grows(disk, disk')
<1> DEFINE v == Upgrade!View(s)
           early == Upgrade!MissingEarly(v)
           late == Upgrade!MissingLate(v)
<1>1. Done(v, pc[s], todo[s]) /\ rebuild \in [Starts -> BOOLEAN]
    BY ViewFacts DEF StoreInv, Upgrade!TypeOK
<1>2. Upgrade!Range(<<>>) = {}
    BY DEF Upgrade!Range
<1>3. CASE Upgrade!Compare(s, "columns", early, "alter", "slugs")
    <2>1. early \in Statements /\ Onward(s, IF early = <<>> THEN "slugs" ELSE "alter", early)
          /\ Upgrade!NoWrite
        BY <1>1, <1>3, MissingColumns, GotoOnward DEF Upgrade!Compare
    <2>2. v.groups = None
        BY <1>1, <1>3, DoneAt DEF Upgrade!Compare, Upgrade!Goto
    <2>3. Done(v, IF early = <<>> THEN "slugs" ELSE "alter", early)
        BY <1>2, <2>2, MissingColumns, DoneAt
    <2>4. QED
        BY <2>1, <2>3, LatePlaces, ReadInv
<1>4. CASE Upgrade!Compare(s, "late columns", late, "late alter", "seal")
    <2>1. late \in Statements /\ Onward(s, IF late = <<>> THEN "seal" ELSE "late alter", late)
          /\ Upgrade!NoWrite
        BY <1>1, <1>4, MissingColumns, GotoOnward DEF Upgrade!Compare
    <2>2. v.groups = None /\ Upgrade!EarlyColumns \subseteq v.columns /\ v.slugged
        BY <1>1, <1>4, DoneAt DEF Upgrade!Compare, Upgrade!Goto
    <2>3. Done(v, IF late = <<>> THEN "seal" ELSE "late alter", late)
        BY <1>2, <2>2, MissingColumns, DoneAt
    <2>4. QED
        BY <2>1, <2>3, LatePlaces, ReadInv
<1>5. QED
    BY <1>3, <1>4 DEF Upgrade!ReadColumns

LEMMA AddColumnInv ==
    ASSUME StoreInv, NEW s \in Starts, Upgrade!AddColumn(s)
    PROVE  StoreInv' /\ Grows(disk, disk')
<1> DEFINE v == Upgrade!View(s)
           c == Head(todo[s])
           b == [v EXCEPT !.columns = @ \cup {c}]
<1>1. Upgrade!Sound(v) /\ Done(v, pc[s], todo[s]) /\ <<>> \in Statements
    BY ViewFacts DEF Statements
<1>2. ASSUME NEW from \in {"alter", "late alter"}, NEW to, Upgrade!Loop(s, from, to, <<>>),
             UNCHANGED rebuild
      PROVE  /\ c \in Upgrade!Additions
             /\ b.columns = v.columns \cup {c} /\ Grows(v, b)
             /\ Done(b, from, todo[s])
             /\ \/ Onward(s, to, <<>>) /\ Upgrade!Range(todo[s]) = {c}
                \/ /\ Onward(s, from, Tail(todo[s])) /\ Tail(todo[s]) \in Statements
                   /\ Upgrade!Range(todo[s]) = {c} \cup Upgrade!Range(Tail(todo[s]))
    <2>1. /\ pc[s] = from /\ c \in Upgrade!Range(todo[s])
          /\ \/ Onward(s, to, <<>>) /\ Upgrade!Range(todo[s]) = {c}
             \/ /\ Onward(s, from, Tail(todo[s])) /\ Tail(todo[s]) \in Statements
                /\ Upgrade!Range(todo[s]) = {c} \cup Upgrade!Range(Tail(todo[s]))
        BY <1>1, <1>2, LoopOnward
    <2>2. c \in Upgrade!Additions
        <3>1. Upgrade!Range(todo[s]) \subseteq Upgrade!Additions
            BY <1>1, <2>1 DEF Done
        <3>2. QED
            BY <2>1, <3>1
    <2>3. Grows(v, b) /\ b.columns = v.columns \cup {c}
        BY <1>1, <2>2, ColumnGrows
    <2>4. Done(b, from, todo[s])
        BY <1>1, <2>1, <2>3, DoneGrows
    <2>5. QED
        BY <2>1, <2>2, <2>3, <2>4
<1>3. Upgrade!Ddl(s, b) /\ UNCHANGED rebuild
    BY DEF Upgrade!AddColumn
<1> HIDE DEF b
<1>4. CASE Upgrade!Loop(s, "alter", "slugs", <<>>)
    <2>1. \/ Onward(s, "slugs", <<>>) /\ Done(b, "slugs", <<>>)
          \/ /\ Onward(s, "alter", Tail(todo[s])) /\ Tail(todo[s]) \in Statements
             /\ Done(b, "alter", Tail(todo[s]))
        BY <1>2, <1>3, <1>4, DoneAt
    <2>2. Grows(v, b)
        BY <1>2, <1>3, <1>4
    <2>3. QED
        BY <1>1, <1>3, <2>1, <2>2, LatePlaces, WriteInv
<1>5. CASE Upgrade!Loop(s, "late alter", "seal", <<>>)
    <2>1. \/ Onward(s, "seal", <<>>) /\ Done(b, "seal", <<>>)
          \/ /\ Onward(s, "late alter", Tail(todo[s])) /\ Tail(todo[s]) \in Statements
             /\ Done(b, "late alter", Tail(todo[s]))
        BY <1>2, <1>3, <1>5, DoneAt
    <2>2. Grows(v, b)
        BY <1>2, <1>3, <1>5
    <2>3. QED
        BY <1>1, <1>3, <2>1, <2>2, LatePlaces, WriteInv
<1>6. QED
    BY <1>4, <1>5 DEF Upgrade!AddColumn

LEMMA FillSlugsInv ==
    ASSUME StoreInv, NEW s \in Starts, Upgrade!FillSlugs(s)
    PROVE  StoreInv' /\ Grows(disk, disk')
<1> DEFINE v == Upgrade!View(s)
           b == [v EXCEPT !.slugged = TRUE]
<1>1. /\ Upgrade!Sound(v) /\ Done(v, "slugs", todo[s]) /\ todo[s] \in Statements
      /\ Onward(s, "late columns", todo[s])
    <2>1. rebuild' \in [Starts -> BOOLEAN] /\ pc[s] = "slugs"
        BY DEF Upgrade!FillSlugs, Upgrade!Goto, Upgrade!local, StoreInv, Upgrade!TypeOK
    <2>2. QED
        BY <2>1, ViewFacts, GotoOnward DEF Upgrade!FillSlugs, Upgrade!local
<1>2. CASE v.slugged
    <2>1. Upgrade!NoWrite
        BY <1>2 DEF Upgrade!FillSlugs
    <2>2. QED
        BY <1>1, <1>2, <2>1, DoneAt, LatePlaces, ReadInv
<1>3. CASE ~v.slugged
    <2>1. Upgrade!Dml(s, b)
        BY <1>3 DEF Upgrade!FillSlugs
    <2>2. Grows(v, b) /\ b.slugged /\ b.columns = v.columns /\ b.groups = v.groups
        BY <1>1, SlugsGrow
    <2>3. Done(b, "late columns", todo[s])
        <3> HIDE DEF b
        <3>1. QED
            BY <1>1, <2>2, DoneAt
    <2>4. QED
        BY <1>1, <2>1, <2>2, <2>3, LatePlaces, WriteInv
<1>4. QED
    BY <1>2, <1>3

LEMMA SealSecretsInv ==
    ASSUME StoreInv, NEW s \in Starts, Upgrade!SealSecrets(s)
    PROVE  StoreInv' /\ Grows(disk, disk')
<1> DEFINE v == Upgrade!View(s)
<1>1. /\ Upgrade!Sound(v) /\ Done(v, "seal", todo[s]) /\ todo[s] \in Statements
      /\ Onward(s, "tags", todo[s])
    <2>1. rebuild' \in [Starts -> BOOLEAN] /\ pc[s] = "seal"
        BY DEF Upgrade!SealSecrets, Upgrade!Goto, Upgrade!local, StoreInv, Upgrade!TypeOK
    <2>2. QED
        BY <2>1, ViewFacts, GotoOnward DEF Upgrade!SealSecrets, Upgrade!local
<1>2. Grows(v, Upgrade!Sealed(v)) /\ Upgrade!Sealed(v).key = "hashed"
            /\ Upgrade!Sealed(v).token = "encrypted"
    BY <1>1, SealedGrows
<1>3. Done(Upgrade!Sealed(v), "tags", todo[s])
    BY <1>1, <1>2, DoneGrows, DoneAt
<1>4. CASE Upgrade!Sealed(v) = v
    <2>1. Upgrade!NoWrite
        BY <1>4 DEF Upgrade!SealSecrets
    <2>2. QED
        BY <1>1, <1>3, <1>4, <2>1, LatePlaces, ReadInv
<1>5. CASE Upgrade!Sealed(v) # v
    <2>1. Upgrade!Dml(s, Upgrade!Sealed(v))
        BY <1>5 DEF Upgrade!SealSecrets
    <2>2. QED
        BY <1>1, <1>2, <1>3, <2>1, LatePlaces, WriteInv
<1>6. QED
    BY <1>4, <1>5

LEMMA MergeTagsInv ==
    ASSUME StoreInv, NEW s \in Starts, Upgrade!MergeTags(s)
    PROVE  StoreInv' /\ Grows(disk, disk')
<1> DEFINE v == Upgrade!View(s)
           b == Upgrade!Rebuilt(Upgrade!Merged(v))
<1>1. /\ Upgrade!Sound(v) /\ Done(v, "tags", todo[s]) /\ todo[s] \in Statements
      /\ Onward(s, "uniques", todo[s])
    <2>1. rebuild' \in [Starts -> BOOLEAN] /\ pc[s] = "tags"
        BY DEF Upgrade!MergeTags, Upgrade!Goto, Upgrade!local, StoreInv, Upgrade!TypeOK
    <2>2. QED
        BY <2>1, ViewFacts, GotoOnward DEF Upgrade!MergeTags, Upgrade!local
<1>2. CASE Upgrade!Merged(v) = v
    <2>1. Upgrade!NoWrite
        BY <1>2 DEF Upgrade!MergeTags
    <2>2. QED
        BY <1>1, <1>2, <2>1, DoneAt, LatePlaces, ReadInv
<1>3. CASE Upgrade!Merged(v) # v
    <2>1. Upgrade!Dml(s, b)
        BY <1>3 DEF Upgrade!MergeTags
    <2>2. Grows(v, b) /\ Upgrade!Merged(b) = b
        BY <1>1, MergedGrows
    <2>3. Done(b, "uniques", todo[s])
        BY <1>1, <2>2, DoneGrows, DoneAt
    <2>4. QED
        BY <1>1, <2>1, <2>2, <2>3, LatePlaces, WriteInv
<1>4. QED
    BY <1>2, <1>3

LEMMA UniqueIndexesInv ==
    ASSUME StoreInv, NEW s \in Starts, Upgrade!UniqueIndexes(s)
    PROVE  StoreInv' /\ Grows(disk, disk')
<1> DEFINE v == Upgrade!View(s)
           b == [v EXCEPT !.uniques = @ \cup {"tags"} \cup (IF v.twins THEN {} ELSE {"links"})]
<1>1. /\ Upgrade!Sound(v) /\ Done(v, "uniques", todo[s]) /\ todo[s] \in Statements
      /\ Onward(s, "commit", todo[s])
    <2>1. rebuild' \in [Starts -> BOOLEAN] /\ pc[s] = "uniques"
        BY DEF Upgrade!UniqueIndexes, Upgrade!Goto, Upgrade!local, StoreInv, Upgrade!TypeOK
    <2>2. QED
        BY <2>1, ViewFacts, GotoOnward DEF Upgrade!UniqueIndexes, Upgrade!local
<1>2. Upgrade!Ddl(s, b)
    BY DEF Upgrade!UniqueIndexes
<1>3. Grows(v, b) /\ "tags" \in b.uniques
    BY <1>1, UniquesGrow
<1> HIDE DEF b
<1>4. Done(b, "commit", todo[s])
    BY <1>1, <1>3, DoneGrows, DoneAt
<1>5. QED
    BY <1>1, <1>2, <1>3, <1>4, LatePlaces, WriteInv

LEMMA CommitInv ==
    ASSUME StoreInv, NEW s \in Starts, Upgrade!Commit(s)
    PROVE  StoreInv' /\ Grows(disk, disk')
<1>1. /\ Upgrade!Sound(Upgrade!View(s)) /\ Done(Upgrade!View(s), "commit", todo[s])
            /\ todo[s] \in Statements
      /\ Onward(s, "up", todo[s]) /\ s # None /\ Upgrade!Sound(disk)
    <2>1. rebuild' \in [Starts -> BOOLEAN] /\ pc[s] = "commit"
        BY DEF Upgrade!Commit, Upgrade!Goto, Upgrade!local, StoreInv, Upgrade!TypeOK
    <2>2. QED
        BY <2>1, ViewFacts, GotoOnward DEF Upgrade!Commit, Upgrade!local, StoreInv, Store
<1>2. /\ pc'[s] = "up" /\ \A t \in Starts \ {s} : pc'[t] = pc[t]
      /\ writer \in Starts \cup {None} /\ work \in Upgrade!Database \cup {None}
    BY <1>1 DEF Onward, StoreInv, Upgrade!TypeOK
<1>3. Done(Upgrade!View(s), "up", todo[s])
    BY <1>1, DoneAt
<1>4. CASE writer = s
    <2>1. disk' = work /\ work' = None /\ writer' = None /\ Grows(disk, work)
        BY <1>1, <1>4 DEF Upgrade!Commit, StoreInv, Store
    <2>2. Store'
        BY <2>1 DEF Store, Grows
    <2>3. \A t \in Starts \ {s} : Upgrade!View(t) = disk /\ Upgrade!View(t)' = work
        BY <1>4, <2>1, MigrationAssumption DEF Upgrade!View, Upgrade!MigrationConstants
    <2>4. Upgrade!View(s)' = Upgrade!View(s)
        BY <1>1, <1>4, <2>1 DEF Upgrade!View
    <2>5. QED
        BY <1>1, <1>3, <2>1, <2>2, <2>3, <2>4, LatePlaces, OnwardInv
<1>5. CASE writer # s
    <2>1. disk' = disk /\ work' = work /\ writer' = writer
        BY <1>5 DEF Upgrade!Commit, Upgrade!NoWrite
    <2>2. Store'
        BY <1>2, <1>5, <2>1 DEF StoreInv, Store
    <2>3. \A t \in Starts : Upgrade!View(t)' = Upgrade!View(t) /\ Upgrade!Sound(Upgrade!View(t))
        BY <2>1, ViewFacts DEF Upgrade!View
    <2>4. QED
        BY <1>1, <1>2, <1>3, <2>1, <2>2, <2>3, LatePlaces, OnwardInv, GrowsReflexive
<1>6. QED
    BY <1>4, <1>5

-----------------------------------------------------------------------------
(* The inductive invariant *)

LEMMA InitStoreInv == Upgrade!Init => StoreInv
<1> SUFFICES ASSUME Upgrade!Init PROVE StoreInv
    OBVIOUS
<1>1. Upgrade!Sound(disk)
    BY MigrationAssumption DEF Upgrade!Init, Upgrade!MigrationConstants
<1>2. "down" \in Upgrade!Places /\ 0 \in 0 .. MaxKills
    BY MigrationAssumption DEF Upgrade!Places, Upgrade!MigrationConstants
<1>3. Upgrade!TypeOK
    <2>1. slugLost \in BOOLEAN
        BY DEF Upgrade!Init, Upgrade!HalfSlugged
    <2>2. QED
        BY <1>1, <1>2, <2>1 DEF Upgrade!Init, Upgrade!TypeOK, Upgrade!Sound
<1>4. Store
    BY <1>1 DEF Upgrade!Init, Store
<1>5. ASSUME NEW s \in Starts
      PROVE  Done(Upgrade!View(s), pc[s], todo[s])
    <2>1. pc[s] \in Early
        BY DEF Upgrade!Init, Early
    <2>2. QED
        BY <2>1, EarlyPlaces, DoneEarly
<1>6. QED
    BY <1>3, <1>4, <1>5 DEF StoreInv

LEMMA StepInv ==
    ASSUME StoreInv, NEW s \in Starts, Upgrade!Step(s) \/ Upgrade!TimeOut(s) \/ Upgrade!Kill(s)
    PROVE  StoreInv' /\ Grows(disk, disk')
<1>1. CASE Upgrade!Fail(s) \/ Upgrade!TimeOut(s) \/ Upgrade!Kill(s)
    <2>1. kills' \in 0 .. MaxKills
        <3>1. kills \in 0 .. MaxKills /\ MaxKills \in Nat
            BY MigrationAssumption DEF StoreInv, Upgrade!TypeOK, Upgrade!MigrationConstants
        <3>2. kills' = kills \/ (kills < MaxKills /\ kills' = kills + 1)
            BY <1>1 DEF Upgrade!Fail, Upgrade!TimeOut, Upgrade!Kill
        <3>3. QED
            BY <3>1, <3>2
    <2>2. QED
        BY <1>1, <2>1, StopInv DEF Upgrade!Fail, Upgrade!TimeOut, Upgrade!Kill
<1>2. CASE Upgrade!Step(s) /\ ~Upgrade!Fail(s)
    BY <1>2, EarlyReadsInv, EarlyWritesInv, TriggerStepsInv, RebuildInv, ReadGroupsInv,
       MoveGroupsInv, ReadColumnsInv, AddColumnInv, FillSlugsInv, SealSecretsInv,
       MergeTagsInv, UniqueIndexesInv, CommitInv DEF Upgrade!Step
<1>3. QED
    BY <1>1, <1>2

LEMMA NextStoreInv == StoreInv /\ [Upgrade!Next]_Upgrade!vars => StoreInv' /\ Grows(disk, disk')
<1> SUFFICES ASSUME StoreInv, [Upgrade!Next]_Upgrade!vars
             PROVE  StoreInv' /\ Grows(disk, disk')
    OBVIOUS
<1>1. CASE Upgrade!Next
    BY <1>1, StepInv DEF Upgrade!Next
<1>2. CASE UNCHANGED Upgrade!vars
    <2>1. StoreInv'
        BY <1>2 DEF Upgrade!vars, StoreInv, Upgrade!TypeOK, Store, Upgrade!View
    <2>2. disk' = disk /\ Upgrade!Sound(disk)
        BY <1>2 DEF Upgrade!vars, StoreInv, Store
    <2>3. QED
        BY <2>1, <2>2, GrowsReflexive
<1>3. QED
    BY <1>1, <1>2

LEMMA StoreInvariance == Upgrade!Spec => []StoreInv
    BY InitStoreInv, NextStoreInv, PTL DEF Upgrade!Spec

-----------------------------------------------------------------------------
(* The unique index of the slugs *)

\* The index follows the column in every loop that has the column, and the
\* second loop has neither.
IndexFollows(q) ==
    \A i \in 1 .. Len(q) :
        q[i] = "public_slug" => i + 1 \in 1 .. Len(q) /\ q[i + 1] = "ix_public_slug"

InLoop(p, left) ==
    /\ p = "alter" => IndexFollows(left)
    /\ p = "late alter" => Upgrade!Range(left) \subseteq Upgrade!LateColumns

\* A database has the slugs' column without its index only while the start that
\* added the column is about to make the index, or once it was stopped there:
\* a writer sees its own column too, which is lost with its transaction.
SlugInv ==
    /\ \A s \in Starts : InLoop(pc[s], todo[s])
    /\ Upgrade!HalfSlugged(disk) =>
           slugLost \/ \E s \in Starts \ {writer} : Upgrade!BetweenSlugs(s)
    /\ writer # None /\ Upgrade!HalfSlugged(work) =>
           slugLost \/ \E s \in Starts : Upgrade!BetweenSlugs(s)

\* A step of start s leaves the others where they are.
Alone(s) ==
    /\ \A t \in Starts \ {s} : pc'[t] = pc[t] /\ todo'[t] = todo[t]
    /\ slugLost' = slugLost
    /\ InLoop(pc'[s], todo'[s])

LEMMA AloneInv ==
    ASSUME SlugInv, NEW s \in Starts, Alone(s)
    PROVE  /\ \A t \in Starts : InLoop(pc[t], todo[t])'
           /\ \A t \in Starts \ {s} : Upgrade!BetweenSlugs(t) => Upgrade!BetweenSlugs(t)'
    BY DEF SlugInv, Alone, InLoop, Upgrade!BetweenSlugs

\* What a statement makes of the column and its index.
SameSlugs(s, db) == Upgrade!HalfSlugged(db) <=> Upgrade!HalfSlugged(Upgrade!View(s))

\* A step that is not between the two statements and touches neither.
LEMMA CalmInv ==
    ASSUME SlugInv, NEW s \in Starts, s # None, Alone(s), ~Upgrade!BetweenSlugs(s),
           \/ Upgrade!NoWrite
           \/ \E db : (Upgrade!Ddl(s, db) \/ Upgrade!Dml(s, db)) /\ SameSlugs(s, db)
           \/ writer = s /\ disk' = work /\ work' = None /\ writer' = None
    PROVE  SlugInv'
<1>1. /\ \A t \in Starts : InLoop(pc[t], todo[t])'
      /\ \A t \in Starts : Upgrade!BetweenSlugs(t) => t # s /\ Upgrade!BetweenSlugs(t)'
      /\ slugLost' = slugLost
    BY AloneInv DEF Alone
<1>2. CASE Upgrade!NoWrite
    BY <1>1, <1>2 DEF Upgrade!NoWrite, SlugInv, Upgrade!HalfSlugged
<1>3. ASSUME NEW db, Upgrade!Ddl(s, db) \/ Upgrade!Dml(s, db), SameSlugs(s, db)
      PROVE  SlugInv'
    <2>1. CASE writer = s
        <3>1. disk' = disk /\ work' = db /\ writer' = s
            BY <1>3, <2>1 DEF Upgrade!Ddl, Upgrade!Dml
        <3>2. Upgrade!HalfSlugged(db) => Upgrade!HalfSlugged(work)
            BY <1>3, <2>1 DEF SameSlugs, Upgrade!View
        <3>3. QED
            BY <1>1, <2>1, <3>1, <3>2 DEF SlugInv, Upgrade!HalfSlugged
    <2>2. CASE writer # s
        <3>1. writer = None /\ (Upgrade!HalfSlugged(db) => Upgrade!HalfSlugged(disk))
            BY <1>3, <2>2 DEF SameSlugs, Upgrade!View, Upgrade!Ddl, Upgrade!Dml, Upgrade!MayWrite
        <3>2. CASE Upgrade!Ddl(s, db)
            <4>1. disk' = db /\ writer' = None
                BY <2>2, <3>1, <3>2 DEF Upgrade!Ddl
            <4>2. QED
                BY <1>1, <3>1, <4>1 DEF SlugInv, Upgrade!HalfSlugged
        <3>3. CASE Upgrade!Dml(s, db)
            <4>1. disk' = disk /\ work' = db /\ writer' = s
                BY <3>3 DEF Upgrade!Dml
            <4>2. QED
                BY <1>1, <3>1, <4>1 DEF SlugInv, Upgrade!HalfSlugged
        <3>4. QED
            BY <1>3, <3>2, <3>3
    <2>3. QED
        BY <2>1, <2>2
<1>4. CASE writer = s /\ disk' = work /\ work' = None /\ writer' = None
    <2>1. Upgrade!HalfSlugged(disk') => Upgrade!HalfSlugged(work)
        BY <1>4
    <2>2. \A t \in Starts : Upgrade!BetweenSlugs(t) => t # None
        BY MigrationAssumption DEF Upgrade!MigrationConstants
    <2>3. QED
        BY <1>1, <1>4, <2>1, <2>2 DEF SlugInv, Upgrade!HalfSlugged
<1>5. QED
    BY <1>2, <1>3, <1>4

\* The step from one place to another, and the loops over the triggers.
LEMMA GotoAlone ==
    ASSUME StoreInv, NEW s \in Starts, NEW from, NEW to, Upgrade!Goto(s, from, to),
           from # "alter", to # "alter", to # "late alter",
           UNCHANGED todo \/ \E left : todo' = [todo EXCEPT ![s] = left]
    PROVE  Alone(s) /\ ~Upgrade!BetweenSlugs(s)
    BY DEF StoreInv, Upgrade!TypeOK, Upgrade!Goto, Alone, InLoop, Upgrade!BetweenSlugs

LEMMA LoopAlone ==
    ASSUME StoreInv, NEW s \in Starts, NEW from, NEW to, NEW next, Upgrade!Loop(s, from, to, next),
           from # "alter", from # "late alter", to # "alter", to # "late alter"
    PROVE  Alone(s) /\ ~Upgrade!BetweenSlugs(s)
<1>1. \E left : todo' = [todo EXCEPT ![s] = left]
    BY DEF Upgrade!Loop
<1>2. \E p \in {from, to} : Upgrade!Goto(s, from, p)
    BY DEF Upgrade!Loop
<1>3. QED
    BY <1>1, <1>2, GotoAlone

\* Statements that change another part of the database.
LEMMA OtherParts ==
    ASSUME NEW s, NEW db \in Upgrade!Database, db.columns = Upgrade!View(s).columns
    PROVE  /\ SameSlugs(s, db)
           /\ \A x : SameSlugs(s, [db EXCEPT !.table = x])
           /\ \A x, y : SameSlugs(s, [db EXCEPT !.table = x, !.index = y])
           /\ \A x : SameSlugs(s, [db EXCEPT !.triggers = x])
           /\ \A x : SameSlugs(s, [db EXCEPT !.index = x])
           /\ \A x : SameSlugs(s, [db EXCEPT !.members = x])
           /\ \A x, y, z, w : SameSlugs(s, [db EXCEPT !.filed = x, !.index = y,
                                                     !.groups = z, !.members = w])
           /\ \A x : SameSlugs(s, [db EXCEPT !.slugged = x])
           /\ \A x, y : SameSlugs(s, [db EXCEPT !.key = x, !.token = y])
           /\ \A x : SameSlugs(s, [db EXCEPT !.uniques = x])
    BY DEF Upgrade!Database, SameSlugs, Upgrade!HalfSlugged

\* Every step but the two readings of the columns and the loops over them.
Quiet(s) ==
    \/ Upgrade!Start(s) \/ Upgrade!ReadTable(s) \/ Upgrade!DropTable(s) \/ Upgrade!DropTrigger(s)
    \/ Upgrade!CreateTable(s) \/ Upgrade!ReadTriggers(s) \/ Upgrade!CreateTrigger(s)
    \/ Upgrade!RebuildIndex(s) \/ Upgrade!ReadGroups(s) \/ Upgrade!MoveGroups(s)
    \/ Upgrade!FillSlugs(s) \/ Upgrade!SealSecrets(s) \/ Upgrade!MergeTags(s)
    \/ Upgrade!UniqueIndexes(s) \/ Upgrade!Commit(s)

LEMMA QuietInv ==
    ASSUME StoreInv, SlugInv, NEW s \in Starts, Quiet(s)
    PROVE  SlugInv'
<1> DEFINE v == Upgrade!View(s)
<1>1. v \in Upgrade!Database /\ Upgrade!Sound(v) /\ s # None
    BY ViewFacts DEF Upgrade!Sound
<1>2. CASE Upgrade!Start(s)
    <2>1. Alone(s) /\ ~Upgrade!BetweenSlugs(s)
        BY <1>2, GotoAlone DEF Upgrade!Start, Upgrade!local
    <2>2. QED
        BY <1>1, <1>2, <2>1, CalmInv DEF Upgrade!Start
<1>3. CASE Upgrade!ReadTable(s)
    <2>1. PICK to \in {"drop table", "table"} : Upgrade!Goto(s, "create_all", to)
        BY <1>3 DEF Upgrade!ReadTable
    <2>2. Alone(s) /\ ~Upgrade!BetweenSlugs(s)
        BY <1>3, <2>1, GotoAlone DEF Upgrade!ReadTable
    <2>3. QED
        BY <1>1, <1>3, <2>2, CalmInv DEF Upgrade!ReadTable
<1>4. CASE Upgrade!DropTable(s)
    <2>1. Alone(s) /\ ~Upgrade!BetweenSlugs(s)
        BY <1>4, GotoAlone DEF Upgrade!DropTable
    <2>2. PICK x : Upgrade!Ddl(s, [v EXCEPT !.table = "absent", !.index = x])
        BY <1>4 DEF Upgrade!DropTable
    <2>3. SameSlugs(s, [v EXCEPT !.table = "absent", !.index = x])
        BY <1>1, OtherParts
    <2>4. QED
        BY <1>1, <2>1, <2>2, <2>3, CalmInv
<1>5. CASE Upgrade!DropTrigger(s) \/ Upgrade!CreateTrigger(s)
    <2>1. Alone(s) /\ ~Upgrade!BetweenSlugs(s)
        <3>1. CASE Upgrade!CreateTrigger(s)
            BY <3>1, LoopAlone DEF Upgrade!CreateTrigger
        <3>2. CASE Upgrade!Loop(s, "drop old triggers", "table", <<>>)
            BY <3>2, LoopAlone
        <3>3. CASE Upgrade!Loop(s, "drop triggers", "triggers", Upgrade!Triggers)
            BY <3>3, LoopAlone
        <3>4. QED
            BY <1>5, <3>1, <3>2, <3>3 DEF Upgrade!DropTrigger
    <2>2. PICK x : Upgrade!Ddl(s, [v EXCEPT !.triggers = x])
        <3>1. \A t, x : [v EXCEPT !.triggers[t] = x] = [v EXCEPT !.triggers = [v.triggers EXCEPT ![t] = x]]
            BY <1>1 DEF Upgrade!Database
        <3>2. CASE Upgrade!DropTrigger(s)
            BY <3>1, <3>2 DEF Upgrade!DropTrigger
        <3>3. CASE Upgrade!CreateTrigger(s)
            BY <3>1, <3>3 DEF Upgrade!CreateTrigger, Upgrade!AfterTriggers
        <3>4. QED
            BY <1>5, <3>2, <3>3
    <2>3. SameSlugs(s, [v EXCEPT !.triggers = x])
        BY <1>1, OtherParts
    <2>4. QED
        BY <1>1, <2>1, <2>2, <2>3, CalmInv
<1>6. CASE Upgrade!CreateTable(s)
    <2>1. Alone(s) /\ ~Upgrade!BetweenSlugs(s)
        BY <1>6, GotoAlone DEF Upgrade!CreateTable, Upgrade!local
    <2>2. PICK db : Upgrade!Ddl(s, db) /\ db \in {v, [v EXCEPT !.table = "current"]}
        BY <1>6 DEF Upgrade!CreateTable
    <2>3. SameSlugs(s, db)
        BY <1>1, <2>2, OtherParts
    <2>4. QED
        BY <1>1, <2>1, <2>2, <2>3, CalmInv
<1>7. CASE Upgrade!ReadTriggers(s)
    <2>1. PICK to \in {"drop triggers", "triggers"} : Upgrade!Goto(s, "stale", to)
        BY <1>7 DEF Upgrade!ReadTriggers
    <2>2. Alone(s) /\ ~Upgrade!BetweenSlugs(s)
        BY <1>7, <2>1, GotoAlone DEF Upgrade!ReadTriggers
    <2>3. QED
        BY <1>1, <1>7, <2>2, CalmInv DEF Upgrade!ReadTriggers
<1>8. CASE Upgrade!RebuildIndex(s)
    <2>1. Alone(s) /\ ~Upgrade!BetweenSlugs(s)
        BY <1>8, GotoAlone DEF Upgrade!RebuildIndex, Upgrade!local
    <2>2. SameSlugs(s, Upgrade!Rebuilt(v))
        BY <1>1, OtherParts DEF Upgrade!Rebuilt
    <2>3. QED
        BY <1>1, <1>8, <2>1, <2>2, CalmInv DEF Upgrade!RebuildIndex
<1>9. CASE Upgrade!ReadGroups(s)
    <2>1. PICK to \in {"columns", "move groups", "move"} : Upgrade!Goto(s, "groups", to)
        BY <1>9 DEF Upgrade!ReadGroups
    <2>2. Alone(s) /\ ~Upgrade!BetweenSlugs(s)
        BY <1>9, <2>1, GotoAlone DEF Upgrade!ReadGroups, Upgrade!local
    <2>3. QED
        BY <1>1, <1>9, <2>2, CalmInv DEF Upgrade!ReadGroups
<1>10. CASE Upgrade!MoveGroups(s)
    <2>1. PICK from \in {"move", "move groups"}, to \in {"columns", "move groups"} :
              Upgrade!Goto(s, from, to)
        BY <1>10 DEF Upgrade!MoveGroups
    <2>2. Alone(s) /\ ~Upgrade!BetweenSlugs(s)
        BY <1>10, <2>1, GotoAlone DEF Upgrade!MoveGroups, Upgrade!local
    <2>3. PICK db : /\ Upgrade!Ddl(s, db) \/ Upgrade!Dml(s, db)
                    /\ db \in {Upgrade!Moved(v), [v EXCEPT !.members = None]}
        BY <1>10 DEF Upgrade!MoveGroups
    <2>4. SameSlugs(s, db)
        <3>1. SameSlugs(s, Upgrade!Moved(v))
            BY <1>1, OtherParts DEF Upgrade!Moved
        <3>2. SameSlugs(s, [v EXCEPT !.members = None])
            BY <1>1, OtherParts
        <3>3. QED
            BY <2>3, <3>1, <3>2
    <2>5. QED
        BY <1>1, <2>2, <2>3, <2>4, CalmInv
<1>11. CASE Upgrade!FillSlugs(s)
    <2>1. Alone(s) /\ ~Upgrade!BetweenSlugs(s)
        BY <1>11, GotoAlone DEF Upgrade!FillSlugs, Upgrade!local
    <2>2. SameSlugs(s, [v EXCEPT !.slugged = TRUE])
        BY <1>1, OtherParts
    <2>3. QED
        BY <1>1, <1>11, <2>1, <2>2, CalmInv DEF Upgrade!FillSlugs
<1>12. CASE Upgrade!SealSecrets(s)
    <2>1. Alone(s) /\ ~Upgrade!BetweenSlugs(s)
        BY <1>12, GotoAlone DEF Upgrade!SealSecrets, Upgrade!local
    <2>2. SameSlugs(s, Upgrade!Sealed(v))
        BY <1>1, OtherParts DEF Upgrade!Sealed
    <2>3. QED
        BY <1>1, <1>12, <2>1, <2>2, CalmInv DEF Upgrade!SealSecrets
<1>13. CASE Upgrade!MergeTags(s)
    <2>1. Alone(s) /\ ~Upgrade!BetweenSlugs(s)
        BY <1>13, GotoAlone DEF Upgrade!MergeTags, Upgrade!local
    <2>2. Upgrade!Merged(v) \in Upgrade!Database /\ Upgrade!Merged(v).columns = v.columns
        BY <1>1, MergedFields DEF SameRest
    <2>3. SameSlugs(s, Upgrade!Rebuilt(Upgrade!Merged(v)))
        BY <2>2, OtherParts DEF Upgrade!Rebuilt
    <2>4. QED
        BY <1>1, <1>13, <2>1, <2>3, CalmInv DEF Upgrade!MergeTags
<1>14. CASE Upgrade!UniqueIndexes(s)
    <2>1. Alone(s) /\ ~Upgrade!BetweenSlugs(s)
        BY <1>14, GotoAlone DEF Upgrade!UniqueIndexes, Upgrade!local
    <2>2. PICK x : Upgrade!Ddl(s, [v EXCEPT !.uniques = x])
        BY <1>14 DEF Upgrade!UniqueIndexes
    <2>3. SameSlugs(s, [v EXCEPT !.uniques = x])
        BY <1>1, OtherParts
    <2>4. QED
        BY <1>1, <2>1, <2>2, <2>3, CalmInv
<1>15. CASE Upgrade!Commit(s)
    <2>1. Alone(s) /\ ~Upgrade!BetweenSlugs(s)
        BY <1>15, GotoAlone DEF Upgrade!Commit, Upgrade!local
    <2>2. QED
        BY <1>1, <1>15, <2>1, CalmInv DEF Upgrade!Commit
<1>16. QED
    BY <1>2, <1>3, <1>4, <1>5, <1>6, <1>7, <1>8, <1>9, <1>10, <1>11, <1>12, <1>13, <1>14,
       <1>15 DEF Quiet

LEMMA FollowsJoined ==
    ASSUME NEW q \in Statements, NEW r \in Statements, IndexFollows(q), IndexFollows(r)
    PROVE  IndexFollows(q \o r)
<1>1. /\ Len(q \o r) = Len(q) + Len(r) /\ Len(q) \in Nat /\ Len(r) \in Nat
      /\ \A i \in 1 .. Len(q) + Len(r) : (q \o r)[i] = IF i <= Len(q) THEN q[i] ELSE r[i - Len(q)]
    BY DEF Statements
<1> SUFFICES ASSUME NEW i \in 1 .. Len(q) + Len(r), (q \o r)[i] = "public_slug"
             PROVE  i + 1 \in 1 .. Len(q) + Len(r) /\ (q \o r)[i + 1] = "ix_public_slug"
    BY <1>1 DEF IndexFollows
<1>2. CASE i <= Len(q)
    <2>1. i \in 1 .. Len(q) /\ q[i] = "public_slug"
        BY <1>1, <1>2
    <2>2. i + 1 \in 1 .. Len(q) /\ q[i + 1] = "ix_public_slug"
        BY <2>1 DEF IndexFollows
    <2>3. QED
        BY <1>1, <2>2
<1>3. CASE ~(i <= Len(q))
    <2>1. i - Len(q) \in 1 .. Len(r) /\ r[i - Len(q)] = "public_slug"
        BY <1>1, <1>3
    <2>2. (i - Len(q)) + 1 \in 1 .. Len(r) /\ r[(i - Len(q)) + 1] = "ix_public_slug"
        BY <2>1 DEF IndexFollows
    <2>3. (i - Len(q)) + 1 = (i + 1) - Len(q) /\ ~(i + 1 <= Len(q)) /\ i + 1 \in 1 .. Len(q) + Len(r)
        BY <1>1, <1>3, <2>2
    <2>4. QED
        BY <1>1, <2>2, <2>3
<1>4. QED
    BY <1>2, <1>3

LEMMA FollowsTail ==
    ASSUME NEW q \in Statements, q # <<>>, IndexFollows(q)
    PROVE  /\ IndexFollows(Tail(q))
           /\ Head(q) = "public_slug" =>
                  Len(q) # 1 /\ Tail(q) # <<>> /\ Head(Tail(q)) = "ix_public_slug"
<1>1. /\ Len(q) \in Nat \ {0} /\ Head(q) = q[1] /\ Len(Tail(q)) = Len(q) - 1
      /\ Tail(q) \in Seq(Upgrade!Range(Upgrade!Triggers) \cup Upgrade!Additions)
      /\ \A i \in 1 .. Len(q) - 1 : Tail(q)[i] = q[i + 1]
    BY DEF Statements
<1>2. ASSUME NEW i \in 1 .. Len(q) - 1, Tail(q)[i] = "public_slug"
      PROVE  i + 1 \in 1 .. Len(q) - 1 /\ Tail(q)[i + 1] = "ix_public_slug"
    <2>1. i + 1 \in 1 .. Len(q) /\ q[i + 1] = "public_slug"
        BY <1>1, <1>2
    <2>2. (i + 1) + 1 \in 1 .. Len(q) /\ q[(i + 1) + 1] = "ix_public_slug"
        BY <2>1 DEF IndexFollows
    <2>3. QED
        BY <1>1, <2>2
<1>3. ASSUME Head(q) = "public_slug"
      PROVE  Len(q) # 1 /\ Tail(q) # <<>> /\ Head(Tail(q)) = "ix_public_slug"
    <2>1. 1 \in 1 .. Len(q) /\ q[1] = "public_slug"
        BY <1>1, <1>3
    <2>2. 1 + 1 \in 1 .. Len(q) /\ q[1 + 1] = "ix_public_slug"
        BY <2>1 DEF IndexFollows
    <2>3. Len(q) # 1 /\ Len(Tail(q)) >= 1 /\ Tail(q)[1] = "ix_public_slug"
        BY <1>1, <2>2
    <2>4. QED
        <3> DEFINE r == Tail(q)
        <3>1. r \in Seq(Upgrade!Range(Upgrade!Triggers) \cup Upgrade!Additions)
                  /\ Len(r) >= 1 /\ r[1] = "ix_public_slug"
            BY <1>1, <2>3
        <3> HIDE DEF r
        <3>2. r # <<>> /\ Head(r) = "ix_public_slug"
            BY <3>1
        <3>3. QED
            BY <2>3, <3>2 DEF r
<1>4. QED
    BY <1>1, <1>2, <1>3 DEF IndexFollows

LEMMA MissingFollows ==
    ASSUME NEW db
    PROVE  IndexFollows(Upgrade!MissingEarly(db))
<1>1. /\ IndexFollows(<<>>) /\ IndexFollows(<<"folder_id">>)
      /\ IndexFollows(<<"public_slug", "ix_public_slug">>)
    BY DEF IndexFollows
<1>2. /\ <<>> \in Statements
      /\ <<"folder_id">> \in Statements /\ <<"public_slug", "ix_public_slug">> \in Statements
    BY DEF Statements, Upgrade!Additions, Upgrade!EarlyColumns, Upgrade!LateColumns
<1>3. QED
    BY <1>1, <1>2, FollowsJoined DEF Upgrade!MissingEarly, Upgrade!Unless

LEMMA ReadColumnsSlug ==
    ASSUME StoreInv, SlugInv, NEW s \in Starts, Upgrade!ReadColumns(s)
    PROVE  SlugInv'
<1> DEFINE v == Upgrade!View(s)
<1>1. s # None /\ Upgrade!NoWrite
    BY ViewFacts DEF Upgrade!ReadColumns, Upgrade!Compare
<1>2. PICK to \in Upgrade!Places, left \in Statements :
          /\ pc[s] \in {"columns", "late columns"}
          /\ pc' = [pc EXCEPT ![s] = to] /\ todo' = [todo EXCEPT ![s] = left]
          /\ InLoop(to, left) /\ slugLost' = slugLost
    <2>1. CASE Upgrade!Compare(s, "columns", Upgrade!MissingEarly(v), "alter", "slugs")
        <3> DEFINE q == Upgrade!MissingEarly(v)
                   at == IF q = <<>> THEN "slugs" ELSE "alter"
        <3>1. /\ pc[s] \in {"columns", "late columns"} /\ slugLost' = slugLost
              /\ pc' = [pc EXCEPT ![s] = at] /\ todo' = [todo EXCEPT ![s] = q]
            BY <2>1 DEF Upgrade!Compare, Upgrade!Goto
        <3>2. InLoop(at, q)
            BY MissingFollows DEF InLoop
        <3>3. at \in Upgrade!Places /\ q \in Statements
            BY MissingColumns DEF Upgrade!Places
        <3> HIDE DEF q, at
        <3>4. QED
            BY <3>1, <3>2, <3>3
    <2>2. CASE Upgrade!Compare(s, "late columns", Upgrade!MissingLate(v), "late alter", "seal")
        <3> DEFINE q == Upgrade!MissingLate(v)
                   at == IF q = <<>> THEN "seal" ELSE "late alter"
        <3>1. /\ pc[s] \in {"columns", "late columns"} /\ slugLost' = slugLost
              /\ pc' = [pc EXCEPT ![s] = at] /\ todo' = [todo EXCEPT ![s] = q]
            BY <2>2 DEF Upgrade!Compare, Upgrade!Goto
        <3>2. InLoop(at, q)
            BY MissingColumns DEF InLoop
        <3>3. at \in Upgrade!Places /\ q \in Statements
            BY MissingColumns DEF Upgrade!Places
        <3> HIDE DEF q, at
        <3>4. QED
            BY <3>1, <3>2, <3>3
    <2>3. QED
        BY <2>1, <2>2 DEF Upgrade!ReadColumns
<1>3. Alone(s) /\ ~Upgrade!BetweenSlugs(s)
    BY <1>2 DEF StoreInv, Upgrade!TypeOK, Alone, Upgrade!BetweenSlugs
<1>4. QED
    BY <1>1, <1>3, CalmInv

LEMMA AddColumnSlug ==
    ASSUME StoreInv, SlugInv, NEW s \in Starts, Upgrade!AddColumn(s)
    PROVE  SlugInv'
<1> DEFINE v == Upgrade!View(s)
           c == Head(todo[s])
           b == [v EXCEPT !.columns = @ \cup {c}]
<1>1. /\ s # None /\ todo[s] \in Statements /\ b.columns = v.columns \cup {c}
      /\ Upgrade!Ddl(s, b)
    <2>1. v \in Upgrade!Database
        BY ViewFacts DEF Upgrade!Sound
    <2>2. QED
        BY <2>1, ViewFacts DEF Upgrade!Database, Upgrade!AddColumn
<1>2. \/ writer = s /\ work' = b /\ disk' = disk /\ writer' = s /\ v = work
      \/ writer = None /\ disk' = b /\ writer' = None /\ v = disk
    BY <1>1 DEF Upgrade!Ddl, Upgrade!MayWrite, Upgrade!View
<1> HIDE DEF b, v
<1>3. /\ \A t \in Starts \ {s} : pc'[t] = pc[t] /\ todo'[t] = todo[t]
      /\ slugLost' = slugLost /\ todo[s] # <<>>
      /\ \/ pc[s] = "alter" /\ pc'[s] = "slugs"
         \/ pc[s] = "late alter" /\ pc'[s] = "seal"
         \/ /\ pc'[s] = pc[s] /\ pc[s] \in {"alter", "late alter"}
            /\ Len(todo[s]) # 1 /\ todo'[s] = Tail(todo[s])
      /\ Len(todo[s]) # 1 => pc'[s] = pc[s] /\ todo'[s] = Tail(todo[s])
    BY DEF Upgrade!AddColumn, Upgrade!Loop, Upgrade!Goto, StoreInv, Upgrade!TypeOK
<1>4. pc[s] = "alter" => IndexFollows(todo[s])
    BY DEF SlugInv, InLoop
<1>5. pc[s] = "late alter" => c \in Upgrade!LateColumns
          /\ Upgrade!Range(Tail(todo[s])) \subseteq Upgrade!LateColumns
    BY <1>1, <1>3, RangeOfTail DEF SlugInv, InLoop, Statements
<1>6. Alone(s)
    <2>1. InLoop(pc'[s], todo'[s])
        BY <1>1, <1>3, <1>4, <1>5, FollowsTail DEF InLoop
    <2>2. QED
        BY <1>3, <2>1 DEF Alone
<1>7. CASE c = "ix_public_slug"
    <2>1. ~Upgrade!HalfSlugged(b)
        BY <1>1, <1>7 DEF Upgrade!HalfSlugged
    <2>2. QED
        BY <1>1, <1>2, <1>6, <2>1, AloneInv DEF SlugInv, Alone, Upgrade!HalfSlugged
<1>8. CASE c = "public_slug"
    <2>1. pc[s] = "alter"
        BY <1>3, <1>5, <1>8 DEF Upgrade!LateColumns
    <2>2. pc'[s] = "alter" /\ todo'[s] # <<>> /\ Head(todo'[s]) = "ix_public_slug"
        BY <1>1, <1>3, <1>4, <1>8, <2>1, FollowsTail
    <2>3. Upgrade!BetweenSlugs(s)'
        BY <2>2 DEF Upgrade!BetweenSlugs
    <2>4. QED
        BY <1>1, <1>2, <1>6, <2>3, AloneInv DEF SlugInv, Alone, Upgrade!HalfSlugged
<1>9. CASE c \notin {"public_slug", "ix_public_slug"}
    <2>1. SameSlugs(s, b)
        BY <1>1, <1>9 DEF SameSlugs, Upgrade!HalfSlugged, v
    <2>2. ~Upgrade!BetweenSlugs(s)
        BY <1>9 DEF Upgrade!BetweenSlugs
    <2>3. QED
        BY <1>1, <1>6, <2>1, <2>2, CalmInv
<1>10. QED
    BY <1>7, <1>8, <1>9

LEMMA StopSlug ==
    ASSUME StoreInv, SlugInv, NEW s \in Starts, Upgrade!Stop(s)
    PROVE  SlugInv'
<1>1. /\ pc'[s] = "down" /\ disk' = disk
      /\ \A t \in Starts \ {s} : pc'[t] = pc[t] /\ todo'[t] = todo[t]
      /\ slugLost' <=> slugLost \/ (Upgrade!BetweenSlugs(s) /\ writer # s)
      /\ IF writer = s THEN writer' = None ELSE work' = work /\ writer' = writer
    BY DEF Upgrade!Stop, StoreInv, Upgrade!TypeOK
<1>2. \A t \in Starts : InLoop(pc[t], todo[t])'
    BY <1>1 DEF SlugInv, InLoop
<1>3. \A t \in Starts \ {s} : Upgrade!BetweenSlugs(t) => Upgrade!BetweenSlugs(t)' /\ t # None
    BY <1>1, MigrationAssumption DEF Upgrade!BetweenSlugs, Upgrade!MigrationConstants
<1>4. ASSUME Upgrade!HalfSlugged(disk')
      PROVE  slugLost' \/ \E t \in Starts \ {writer'} : Upgrade!BetweenSlugs(t)'
    <2>1. slugLost \/ \E t \in Starts \ {writer} : Upgrade!BetweenSlugs(t)
        BY <1>1, <1>4 DEF SlugInv
    <2>2. QED
        BY <1>1, <1>3, <2>1
<1>5. ASSUME writer' # None, Upgrade!HalfSlugged(work')
      PROVE  slugLost' \/ \E t \in Starts : Upgrade!BetweenSlugs(t)'
    <2>1. writer # s /\ writer # None /\ Upgrade!HalfSlugged(work)
        BY <1>1, <1>5
    <2>2. slugLost \/ \E t \in Starts : Upgrade!BetweenSlugs(t)
        BY <2>1 DEF SlugInv
    <2>3. QED
        BY <1>1, <1>3, <2>1, <2>2
<1>6. QED
    BY <1>2, <1>4, <1>5 DEF SlugInv, Upgrade!HalfSlugged

LEMMA NextSlugInv == StoreInv /\ SlugInv /\ [Upgrade!Next]_Upgrade!vars => SlugInv'
<1> SUFFICES ASSUME StoreInv, SlugInv, [Upgrade!Next]_Upgrade!vars
             PROVE  SlugInv'
    OBVIOUS
<1>1. ASSUME NEW s \in Starts, Upgrade!Step(s) \/ Upgrade!TimeOut(s) \/ Upgrade!Kill(s)
      PROVE  SlugInv'
    <2>1. CASE Upgrade!Fail(s) \/ Upgrade!TimeOut(s) \/ Upgrade!Kill(s)
        BY <2>1, StopSlug DEF Upgrade!Fail, Upgrade!TimeOut, Upgrade!Kill
    <2>2. CASE Upgrade!ReadColumns(s) \/ Upgrade!AddColumn(s)
        BY <2>2, ReadColumnsSlug, AddColumnSlug
    <2>3. CASE Quiet(s)
        BY <2>3, QuietInv
    <2>4. QED
        BY <1>1, <2>1, <2>2, <2>3 DEF Upgrade!Step, Quiet
<1>2. CASE UNCHANGED Upgrade!vars
    BY <1>2 DEF Upgrade!vars, SlugInv, InLoop, Upgrade!BetweenSlugs, Upgrade!HalfSlugged
<1>3. QED
    BY <1>1, <1>2 DEF Upgrade!Next

LEMMA SlugInvariance == Upgrade!Spec => []SlugInv
<1>1. Upgrade!Init => SlugInv
    BY MigrationAssumption
       DEF Upgrade!Init, SlugInv, InLoop, Upgrade!HalfSlugged, Upgrade!MigrationConstants
<1>2. QED
    BY <1>1, StoreInvariance, NextSlugInv, PTL DEF Upgrade!Spec

-----------------------------------------------------------------------------
(* The theorems *)

\* The types of Migrations: no start reads a table, or writes a row, that the
\* database of its release cannot hold.
THEOREM MigrationTypes == Upgrade!Spec => []Upgrade!TypeOK
<1>1. StoreInv => Upgrade!TypeOK
    BY DEF StoreInv
<1>2. QED
    BY <1>1, StoreInvariance, PTL

\* Both halves of the store keep their types: the tags and the index under the
\* requests (tags.py, links/crud.py), the old database under init_db.
THEOREM StoreTypes == Spec /\ Upgrade!Spec => []IndexTypeOK
<1>1. TypeOK /\ Upgrade!TypeOK => IndexTypeOK
    BY DEF IndexTypeOK
<1>2. QED
    BY <1>1, TypesHold, MigrationTypes, PTL

\* init_db (database.py:82-316): once a start is up, whatever starts were killed,
\* refused or running beside it, the rows and the schema other than the search
\* index are those of this release.  The unique index of the slugs is the one
\* exception, and exactly when a start was stopped between the two statements of
\* lines 195-196, or another start stands between them.
THEOREM EveryStartMigrates == Upgrade!Spec => []StartsMigrate
<1>1. ASSUME StoreInv, SlugInv
      PROVE  StartsMigrate
    <2> SUFFICES ASSUME NEW s \in Starts, pc[s] = "up"
                 PROVE  /\ Upgrade!Additions \ {"ix_public_slug"} \subseteq disk.columns
                        /\ \/ "ix_public_slug" \in disk.columns
                           \/ slugLost
                           \/ \E t \in Starts : Upgrade!BetweenSlugs(t)
                        /\ disk.groups = None /\ disk.members = None
                        /\ disk.slugged /\ disk.key = "hashed" /\ disk.token = "encrypted"
                        /\ Upgrade!Merged(disk) = disk /\ "tags" \in disk.uniques
        BY DEF StartsMigrate, Upgrade!StartsMigrate
    <2>1. writer # s
        BY <1>1, MigrationAssumption DEF StoreInv, Store, Upgrade!MigrationConstants
    <2>2. Done(disk, "up", todo[s]) /\ Upgrade!Sound(disk)
        BY <1>1, <2>1 DEF StoreInv, Upgrade!View, Store
    <2>3. /\ disk.groups = None /\ disk.members = None
          /\ Upgrade!EarlyColumns \subseteq disk.columns /\ Upgrade!LateColumns \subseteq disk.columns
          /\ disk.slugged /\ disk.key = "hashed" /\ disk.token = "encrypted"
          /\ Upgrade!Merged(disk) = disk /\ "tags" \in disk.uniques
        BY <2>2, DoneAt DEF Upgrade!Sound
    <2>4. "public_slug" \in disk.columns
        BY <2>3 DEF Upgrade!EarlyColumns
    <2>5. \/ "ix_public_slug" \in disk.columns
          \/ slugLost
          \/ \E t \in Starts : Upgrade!BetweenSlugs(t)
        BY <1>1, <2>4 DEF SlugInv, Upgrade!HalfSlugged
    <2>6. QED
        BY <2>3, <2>5 DEF Upgrade!Additions
<1>2. QED
    BY <1>1, StoreInvariance, SlugInvariance, PTL

\* init_db: no statement that commits, and no kill between two of them, loses a
\* tag of a link up to its case, or what the link was filed under.
THEOREM NoStartLoses == Upgrade!Spec => NothingIsLost
<1> DEFINE A == \A l \in OldLinks :
                  /\ Upgrade!TagsSeen(disk', l) = Upgrade!TagsSeen(disk, l)
                  /\ Upgrade!PlacesSeen(disk', l) \subseteq Upgrade!PlacesSeen(disk, l)
<1>1. StoreInv /\ [Upgrade!Next]_Upgrade!vars => [A]_Upgrade!vars
    BY NextStoreInv DEF Grows, Keeps
<1>2. Upgrade!Spec => [][A]_Upgrade!vars
    <2> HIDE DEF A
    <2>1. QED
        BY <1>1, StoreInvariance, PTL DEF Upgrade!Spec
<1>3. QED
    BY <1>2 DEF NothingIsLost, Upgrade!NothingIsLost
=============================================================================
