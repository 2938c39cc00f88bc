------------------------- MODULE FolderForestProofs -------------------------
(***************************************************************************)
(* The folders stay a forest, for any number of folders and any sequence   *)
(* of requests.  The inductive invariant adds to the properties that the   *)
(* committed table is a forest too, which a failed reorder falls back on,  *)
(* that the dict of the reorder loop agrees with the rows, and that the    *)
(* folders placed from the root down are closed under parent.  The second  *)
(* part is about the loops over the parents, on any table; the third about *)
(* the list and the totals of the pages, on any rows: its invariants say   *)
(* what the calls that have not returned still owe.                        *)
(***************************************************************************)
EXTENDS FolderPages, TLAPS, FiniteSetTheorems, SequenceTheorems, WellFoundedInduction

\* The parent of every row of a table is a row of it.
Parented(rows) ==
    \A f \in Ids : rows[f] # None =>
        (rows[f].parent # None => rows[rows[f].parent] # None)

GraphAgrees == busy => graph = ParentMap

AskedPlaced ==
    busy => /\ \A a \in asked : folder[a.id] # None /\ a.parent \in Placed \cup {None}
            /\ TopDownItemsApplied

IInv ==
    /\ TypeOK
    /\ WellFounded(folder) /\ Parented(folder)
    /\ WellFounded(saved) /\ Parented(saved)
    /\ ~busy => saved = folder
    /\ GraphAgrees
    /\ AskedPlaced

-----------------------------------------------------------------------------
(* The walk and the tables *)

\* What the walk meets contains its start and goes up with every folder in it.
LEMMA UpClosed ==
    ASSUME NEW par \in [Ids -> Ids \cup {None}], NEW p \in Ids
    PROVE  /\ p \in Up(par, p)
           /\ Up(par, p) \subseteq Ids
           /\ \A g \in Up(par, p) : par[g] # None => par[g] \in Up(par, p)
           /\ \A A \in SUBSET Ids : p \in A /\ Closed(par, A) => Up(par, p) \subseteq A
    BY DEF Up, Closed

\* Filing c below p keeps a table a forest when the walk from p misses c.
LEMMA Refiled ==
    ASSUME NEW rows \in [Ids -> Row \cup {None}], WellFounded(rows),
           NEW par \in [Ids -> Ids \cup {None}],
           \A f \in Ids : rows[f] # None => par[f] = rows[f].parent,
           NEW c \in Ids, NEW p \in Ids \cup {None},
           p # None => c \notin Up(par, p),
           NEW rows2 \in [Ids -> Row \cup {None}],
           rows2[c] # None => rows2[c].parent = p,
           \A f \in Ids \ {c} : rows2[f] # None =>
               rows[f] # None /\ rows2[f].parent = rows[f].parent
    PROVE  WellFounded(rows2)
<1> SUFFICES ASSUME NEW S \in SUBSET {f \in Ids : rows2[f] # None}, S # {},
                    \A f \in S : rows2[f].parent \in S
             PROVE  FALSE
    BY DEF WellFounded
<1>0. None \notin S
    BY ForestAssumption
<1>1. CASE c \notin S
    BY <1>1 DEF WellFounded
<1>2. CASE c \in S
    <2>1. p \in S /\ p \in Ids /\ p # None
        BY <1>0, <1>2
    <2> DEFINE T == S \cap Up(par, p)
    <2>2. p \in T /\ c \notin T
        BY <2>1, UpClosed
    <2>3. T \in SUBSET {f \in Ids : rows[f] # None} /\ T # {}
        BY <2>2
    <2>4. PICK g \in T : rows[g].parent \notin T
        BY <2>3 DEF WellFounded
    <2>5. rows2[g].parent = rows[g].parent /\ rows[g].parent \in S
        BY <2>2, <2>4
    <2>6. par[g] = rows[g].parent /\ par[g] # None
        BY <2>3, <2>5, <1>0
    <2>7. par[g] \in Up(par, p)
        BY <2>1, <2>6, UpClosed
    <2>8. QED
        BY <2>4, <2>5, <2>6, <2>7
<1>3. QED
    BY <1>1, <1>2

\* Dropping rows and sending others to the root keeps a table a forest.
LEMMA Pruned ==
    ASSUME NEW rows \in [Ids -> Row \cup {None}], WellFounded(rows),
           NEW rows2 \in [Ids -> Row \cup {None}],
           \A f \in Ids : rows2[f] # None =>
               rows[f] # None /\ rows2[f].parent \in {rows[f].parent, None}
    PROVE  WellFounded(rows2)
<1> SUFFICES ASSUME NEW S \in SUBSET {f \in Ids : rows2[f] # None}, S # {},
                    \A f \in S : rows2[f].parent \in S
             PROVE  FALSE
    BY DEF WellFounded
<1>1. \A f \in S : rows2[f].parent = rows[f].parent
    BY ForestAssumption
<1>2. QED
    BY <1>1 DEF WellFounded

LEMMA ParentMapType ==
    ASSUME TypeOK
    PROVE  /\ ParentMap \in [Ids -> Ids \cup {None}]
           /\ \A f \in Ids : folder[f] # None => ParentMap[f] = folder[f].parent
           /\ \A f \in Ids : folder[f] = None => ParentMap[f] = None
    BY DEF TypeOK, ParentMap, Row

\* The walk from a folder of a forest misses the folders outside any set that
\* contains the start and goes up, and it ends.
LEMMA WalkEnds ==
    ASSUME TypeOK, WellFounded(folder), Parented(folder),
           NEW p \in Existing
    PROVE  /\ Up(ParentMap, p) \subseteq Existing
           /\ \E g \in Up(ParentMap, p) : ParentMap[g] = None
<1>1. Closed(ParentMap, Existing)
    BY ParentMapType DEF Closed, Existing, Parented, TypeOK, Row
<1>2. p \in Ids /\ Existing \in SUBSET Ids
    BY DEF Existing
<1>3. Up(ParentMap, p) \subseteq Existing /\ p \in Up(ParentMap, p)
    BY <1>1, <1>2, ParentMapType, UpClosed
<1>4. PICK g \in Up(ParentMap, p) : folder[g].parent \notin Up(ParentMap, p)
    BY <1>3 DEF WellFounded, Existing
<1>5. ParentMap[g] = folder[g].parent /\ g \in Ids
    BY <1>3, <1>4, ParentMapType DEF Existing
<1>6. QED
    BY <1>2, <1>3, <1>4, <1>5, ParentMapType, UpClosed

-----------------------------------------------------------------------------
(* Handlers that run in one step *)

LEMMA CommitInv ==
    ASSUME IInv, NEW rows \in [Ids -> Row \cup {None}], Commit(rows),
           WellFounded(rows), Parented(rows)
    PROVE  IInv'
<1>1. TypeOK'
    BY DEF Commit, IInv, TypeOK
<1>2. /\ WellFounded(folder') /\ Parented(folder')
      /\ WellFounded(saved') /\ Parented(saved')
      /\ saved' = folder' /\ ~busy'
    BY DEF Commit
<1>3. (WellFounded(folder) /\ Parented(folder) /\ WellFounded(saved) /\ Parented(saved))'
    BY <1>2 DEF WellFounded, Parented
<1>4. QED
    BY <1>1, <1>2, <1>3 DEF IInv, GraphAgrees, AskedPlaced

\* A parent that was validated exists, and the walk from it misses the folder
\* it is validated for.
LEMMA ValidParentFacts ==
    ASSUME TypeOK, NEW p \in Ids \cup {None}, NEW c \in Ids \cup {None}
    PROVE  /\ ValidParent(p, c) \in Existing \cup {None}
           /\ ValidParent(p, c) # None /\ c # None =>
                  c \notin Up(ParentMap, ValidParent(p, c))
           /\ ValidParent(p, c) # None => ValidParent(p, c) # c
    BY ForestAssumption DEF ValidParent, CreatesCycle, Existing

\* What every step reads of the rows.
LEMMA RowFacts ==
    ASSUME IInv
    PROVE  /\ folder \in [Ids -> Row \cup {None}] /\ WellFounded(folder)
           /\ \A f \in Ids : f \in Existing <=> folder[f] # None
           /\ \A f \in Existing : /\ f \in Ids /\ folder[f] \in Row
                                  /\ folder[f].parent \in Existing \cup {None}
           /\ None \notin Existing
    BY ForestAssumption DEF IInv, TypeOK, Parented, Existing, Row

LEMMA AddFolderInv ==
    ASSUME IInv, NEW n \in Names, NEW pid \in Ids \cup {None}, AddFolder(n, pid)
    PROVE  IInv'
<1> DEFINE q == ValidParent(pid, None)
<1>1. PICK f \in Ids, o \in Orders :
          /\ IsNextId(f)
          /\ Commit([folder EXCEPT ![f] = [name |-> n, parent |-> q, order |-> o]])
    BY DEF AddFolder
<1>2. q \in Existing \cup {None}
    BY ValidParentFacts DEF IInv
<1> HIDE DEF q
<1> DEFINE row  == [name |-> n, parent |-> q, order |-> o]
           rows == [folder EXCEPT ![f] = row]
<1>3. row \in Row /\ row.parent = q /\ row # None
    BY <1>2, NoneIsNoRow DEF Existing, Row
<1> HIDE DEF row
<1>4. /\ rows \in [Ids -> Row \cup {None}] /\ rows[f] = row
      /\ \A g \in Ids \ {f} : rows[g] = folder[g]
    BY <1>3 DEF IInv, TypeOK
<1>5. f \notin Existing
    BY <1>1 DEF IsNextId, Ids
<1>6. q # None => f \notin Up(ParentMap, q)
    BY <1>2, <1>5, WalkEnds DEF IInv
<1>7. Commit(rows)
    BY <1>1 DEF row
<1> HIDE DEF rows
<1>8. WellFounded(rows)
    <2>1. q \in Ids \cup {None}
        BY <1>2, RowFacts
    <2>2. \A g \in Ids : folder[g] # None => ParentMap[g] = folder[g].parent
        BY ParentMapType DEF IInv
    <2>3. ParentMap \in [Ids -> Ids \cup {None}]
        BY ParentMapType DEF IInv
    <2>4. \A g \in Ids \ {f} : rows[g] # None =>
              folder[g] # None /\ rows[g].parent = folder[g].parent
        BY <1>4
    <2>5. QED
        BY <1>3, <1>4, <1>6, <2>1, <2>2, <2>3, <2>4, RowFacts, Refiled
<1>9. Parented(rows)
    BY <1>2, <1>3, <1>4, RowFacts DEF Parented
<1>10. QED
    BY <1>4, <1>7, <1>8, <1>9, CommitInv

LEMMA EditFolderInv ==
    ASSUME IInv, NEW f \in Ids, NEW n \in Names, NEW pid \in Ids \cup {None},
           EditFolder(f, n, pid)
    PROVE  IInv'
<1> DEFINE q    == ValidParent(pid, f)
           rows == [folder EXCEPT ![f].name = n, ![f].parent = q]
<1>1. f \in Existing /\ Commit(rows)
    BY DEF EditFolder
<1>2. /\ q \in Existing \cup {None}
      /\ q # None => f \notin Up(ParentMap, q)
    BY ValidParentFacts, ForestAssumption DEF IInv
<1>3. folder[f] \in Row
    BY <1>1 DEF Existing, IInv, TypeOK
<1> HIDE DEF q
<1>4. /\ rows \in [Ids -> Row \cup {None}]
      /\ rows[f] # None /\ rows[f].parent = q
      /\ \A g \in Ids \ {f} : rows[g] = folder[g]
    BY <1>2, <1>3, NoneIsNoRow DEF IInv, TypeOK, Row, Existing
<1> HIDE DEF rows
<1>5. WellFounded(rows)
    <2>1. q \in Ids \cup {None}
        BY <1>2, RowFacts
    <2>2. \A g \in Ids : folder[g] # None => ParentMap[g] = folder[g].parent
        BY ParentMapType DEF IInv
    <2>3. ParentMap \in [Ids -> Ids \cup {None}]
        BY ParentMapType DEF IInv
    <2>4. \A g \in Ids \ {f} : rows[g] # None =>
              folder[g] # None /\ rows[g].parent = folder[g].parent
        BY <1>4
    <2>5. QED
        BY <1>2, <1>4, <2>1, <2>2, <2>3, <2>4, RowFacts, Refiled
<1>6. Parented(rows)
    BY <1>1, <1>2, <1>4, RowFacts DEF Parented
<1>7. QED
    BY <1>1, <1>4, <1>5, <1>6, CommitInv

\* A handler that only drops folders, or sends them to the root.
LEMMA PruneInv ==
    ASSUME IInv, NEW rows \in [Ids -> Row \cup {None}], Commit(rows),
           \A f \in Ids : rows[f] # None =>
               /\ folder[f] # None
               /\ rows[f].parent \in {folder[f].parent, None}
               /\ rows[f].parent # None => rows[rows[f].parent] # None
    PROVE  IInv'
<1>1. WellFounded(rows)
    BY Pruned DEF IInv, TypeOK
<1>2. Parented(rows)
    BY DEF Parented
<1>3. QED
    BY <1>1, <1>2, CommitInv

LEMMA RenameFolderInv ==
    ASSUME IInv, NEW f \in Ids, NEW n \in Names, RenameFolder(f, n)
    PROVE  IInv'
<1> DEFINE rows == [folder EXCEPT ![f].name = n]
<1>1. f \in Existing /\ Commit(rows)
    BY DEF RenameFolder
<1>2. folder[f] \in Row
    BY <1>1 DEF Existing, IInv, TypeOK
<1>3. /\ rows \in [Ids -> Row \cup {None}]
      /\ rows[f] # None /\ rows[f].parent = folder[f].parent
      /\ \A g \in Ids \ {f} : rows[g] = folder[g]
    BY <1>2, NoneIsNoRow DEF IInv, TypeOK, Row
<1> HIDE DEF rows
<1>4. QED
    <2>1. \A g \in Ids : rows[g] # None =>
              /\ folder[g] # None
              /\ rows[g].parent = folder[g].parent
        BY <1>1, <1>3, RowFacts
    <2>2. \A g \in Existing : rows[g] # None
        BY <1>3, RowFacts
    <2>3. QED
        BY <1>1, <1>3, <2>1, <2>2, RowFacts, PruneInv

LEMMA SortAlphaInv ==
    ASSUME IInv, SortAlpha
    PROVE  IInv'
<1> DEFINE ord(f) == IF AlphaRank(f) \in Orders THEN AlphaRank(f) ELSE MaxOrder
           rows == [f \in Ids |-> IF f \notin Existing THEN None
                                  ELSE [folder[f] EXCEPT !.order = ord(f)]]
<1>1. Commit(rows)
    BY DEF SortAlpha
<1>2. ASSUME NEW f \in Ids PROVE ord(f) \in Orders
    BY ForestAssumption DEF Orders
<1> HIDE DEF ord
<1>3. ASSUME NEW f \in Existing
      PROVE  /\ rows[f] \in Row /\ rows[f] # None
             /\ rows[f].parent = folder[f].parent
    BY <1>2, NoneIsNoRow DEF IInv, TypeOK, Row, Existing
<1>4. \A f \in Ids \ Existing : rows[f] = None
    OBVIOUS
<1>5. rows \in [Ids -> Row \cup {None}]
    BY <1>3, <1>4
<1> HIDE DEF rows
<1>6. QED
    <2>1. \A g \in Ids : rows[g] # None =>
              folder[g] # None /\ rows[g].parent = folder[g].parent
        BY <1>3, <1>4, RowFacts
    <2>2. QED
        BY <1>1, <1>3, <1>5, <2>1, RowFacts, PruneInv

LEMMA DeleteFolderInv ==
    ASSUME IInv, NEW f \in Ids, DeleteFolder(f)
    PROVE  IInv'
<1> DEFINE rows == Without(f)
<1>1. Commit(rows)
    BY DEF DeleteFolder
<1>2. ASSUME NEW g \in Ids, folder[g] # None, g # f
      PROVE  /\ rows[g] \in Row /\ rows[g] # None
             /\ rows[g].parent = IF folder[g].parent = f THEN None ELSE folder[g].parent
    BY <1>2, NoneIsNoRow DEF IInv, TypeOK, Row, Without
<1>3. rows[f] = None /\ \A g \in Ids : folder[g] = None => rows[g] = None
    BY DEF Without
<1>4. rows \in [Ids -> Row \cup {None}]
    BY <1>2, <1>3 DEF Without
<1> HIDE DEF rows
<1>5. \A g \in Ids : folder[g] # None => folder[g].parent \in Ids \cup {None}
    BY DEF IInv, TypeOK, Row
<1>6. QED
    BY <1>1, <1>2, <1>3, <1>4, <1>5, PruneInv DEF IInv, Parented

LEMMA PurgeAllInv ==
    ASSUME IInv, PurgeAll
    PROVE  IInv'
    BY PruneInv DEF PurgeAll

-----------------------------------------------------------------------------
(* The loop of reorder_folders *)

LEMMA ReorderBeginInv ==
    ASSUME IInv, ReorderBegin
    PROVE  IInv'
<1>1. TypeOK'
    BY ParentMapType DEF ReorderBegin, IInv, TypeOK
<1>2. GraphAgrees'
    BY DEF ReorderBegin, GraphAgrees, ParentMap
<1>3. AskedPlaced'
    BY DEF ReorderBegin, AskedPlaced, TopDownItemsApplied
<1>4. QED
    BY <1>1, <1>2, <1>3 DEF ReorderBegin, IInv, WellFounded, Parented

LEMMA ReorderEndInv ==
    ASSUME IInv, ReorderCommit \/ ReorderFails
    PROVE  IInv'
<1>1. TypeOK'
    BY DEF ReorderCommit, ReorderFails, ReorderEnd, IInv, TypeOK
<1>2. GraphAgrees' /\ AskedPlaced'
    BY DEF ReorderCommit, ReorderFails, ReorderEnd, GraphAgrees, AskedPlaced
<1>3. folder' = saved' /\ (folder' = folder \/ folder' = saved)
    BY DEF ReorderCommit, ReorderFails
<1>4. QED
    BY <1>1, <1>2, <1>3 DEF IInv, WellFounded, Parented

\* The folders placed so far are closed under parent: the walk from one of
\* them misses every other folder.
LEMMA PlacedClosed ==
    ASSUME IInv, busy, NEW p \in Placed
    PROVE  p \in Existing /\ Up(graph, p) \subseteq Placed
<1>1. Placed \in SUBSET Ids
    BY DEF Placed, IInv, TypeOK
<1>2. graph = ParentMap /\ graph \in [Ids -> Ids \cup {None}]
    BY DEF IInv, GraphAgrees, TypeOK
<1>3. ASSUME NEW g \in Placed
      PROVE  /\ g \in Existing
             /\ graph[g] # None => graph[g] \in Placed
    <2>1. PICK a \in asked : g = a.id
        BY DEF Placed
    <2>2. /\ folder[g] # None /\ folder[g].parent = a.parent
          /\ a.parent \in Placed \cup {None}
        BY <2>1 DEF IInv, AskedPlaced, TopDownItemsApplied
    <2>3. graph[g] = folder[g].parent
        BY <1>1, <1>2, <2>2, ParentMapType DEF IInv
    <2>4. QED
        BY <1>1, <2>2, <2>3 DEF Existing
<1>4. QED
    BY <1>1, <1>2, <1>3, UpClosed DEF Closed

LEMMA ReorderItemInv ==
    ASSUME IInv, NEW f \in Ids, NEW p \in Ids \cup {None}, NEW o \in Orders,
           ReorderItem(f, p, o)
    PROVE  IInv'
<1>1. CASE f \notin Existing
    <2>1. UNCHANGED vars
        BY <1>1 DEF ReorderItem, vars
    <2>2. QED
        BY <2>1 DEF vars, IInv, TypeOK, WellFounded, Parented, GraphAgrees, ParentMap,
                    AskedPlaced, TopDownItemsApplied, Placed
<1>2. CASE f \in Existing
    <2> DEFINE q    == NewParent(f, p)
               rows == [folder EXCEPT ![f].parent = q, ![f].order = o]
    <2>1. /\ busy /\ busy' /\ saved' = saved
          /\ folder' = rows /\ graph' = [graph EXCEPT ![f] = q]
          /\ asked' = Asked(f, p)
        BY <1>2 DEF ReorderItem, IInv, TypeOK
    <2>2. graph = ParentMap /\ graph \in [Ids -> Ids \cup {None}]
        BY <2>1 DEF IInv, GraphAgrees, TypeOK
    <2>3. /\ q \in Existing \cup {None}
          /\ q # None => f \notin Up(graph, q)
        BY ForestAssumption DEF NewParent, CreatesCycle, Existing
    <2>4. f \notin Placed /\ p \in Placed \cup {None} => q = p
        <3>1. ASSUME f \notin Placed, p \in Placed PROVE q = p
            <4>1. p \in Existing /\ Up(graph, p) \subseteq Placed
                BY <2>1, <3>1, PlacedClosed
            <4>2. \E g \in Up(graph, p) : graph[g] = None
                BY <4>1, <2>2, WalkEnds DEF IInv
            <4>3. QED
                BY <3>1, <4>1, <4>2 DEF NewParent, CreatesCycle
        <3>2. ASSUME p = None PROVE q = p
            BY <3>2 DEF NewParent
        <3>3. QED
            BY <3>1, <3>2
    <2>5. folder[f] \in Row
        BY <1>2, RowFacts
    <2> HIDE DEF q
    <2>6. /\ rows \in [Ids -> Row \cup {None}]
          /\ rows[f] # None /\ rows[f].parent = q
          /\ \A g \in Ids \ {f} : rows[g] = folder[g]
        BY <2>3, <2>5, NoneIsNoRow, RowFacts DEF Row
    <2> HIDE DEF rows
    <2>7. Asked(f, p) \in SUBSET [id : Ids, parent : Ids \cup {None}]
        BY DEF Asked, IInv, TypeOK
    <2>8. TypeOK'
        BY <2>1, <2>3, <2>6, <2>7, RowFacts DEF IInv, TypeOK
    <2>9. WellFounded(rows)
        <3>1. q \in Ids \cup {None}
            BY <2>3, RowFacts
        <3>2. \A g \in Ids : folder[g] # None => graph[g] = folder[g].parent
            BY <2>2, ParentMapType DEF IInv
        <3>3. \A g \in Ids \ {f} : rows[g] # None =>
                  folder[g] # None /\ rows[g].parent = folder[g].parent
            BY <2>6
        <3>4. QED
            BY <2>2, <2>3, <2>6, <3>1, <3>2, <3>3, RowFacts, Refiled
    <2>10. Parented(rows)
        BY <1>2, <2>3, <2>6, RowFacts DEF Parented
    <2>11. GraphAgrees'
        <3>1. ASSUME NEW g \in Ids PROVE graph'[g] = ParentMap'[g]
            BY <2>1, <2>2, <2>6, <2>8, <1>2, RowFacts DEF ParentMap
        <3>2. graph' \in [Ids -> Ids \cup {None}]
            BY <2>8 DEF TypeOK
        <3>3. graph' = ParentMap'
            BY <3>1, <3>2 DEF ParentMap
        <3>4. QED
            BY <3>3 DEF GraphAgrees
    <2>12. AskedPlaced'
        <3>1. \A a \in asked : /\ a.id \in Placed /\ a.id \in Ids
                               /\ folder[a.id] # None /\ folder[a.id].parent = a.parent
                               /\ a.parent \in Placed \cup {None}
            BY <2>1 DEF IInv, AskedPlaced, TopDownItemsApplied, Placed, TypeOK
        <3>2. CASE f \in Placed
            <4>1. asked' = {}
                BY <2>1, <3>2 DEF Asked
            <4>2. QED
                BY <4>1 DEF AskedPlaced, TopDownItemsApplied
        <3>3. CASE f \notin Placed /\ p \notin Placed \cup {None}
            <4>1. asked' = asked
                BY <2>1, <3>3 DEF Asked
            <4>2. \A a \in asked : folder'[a.id] = folder[a.id]
                BY <2>1, <2>6, <3>1, <3>3
            <4>3. QED
                BY <3>1, <4>1, <4>2 DEF AskedPlaced, TopDownItemsApplied, Placed
        <3>4. CASE f \notin Placed /\ p \in Placed \cup {None}
            <4>1. asked' = asked \cup {[id |-> f, parent |-> p]}
                BY <2>1, <3>4 DEF Asked
            <4>2. Placed \subseteq Placed' /\ f \in Placed'
                <5>1. Placed' = {a.id : a \in asked'}
                    BY DEF Placed
                <5>2. \A a \in asked' : a.id \in Placed'
                    BY <5>1
                <5>3. [id |-> f, parent |-> p] \in asked' /\ [id |-> f, parent |-> p].id = f
                    BY <4>1
                <5>4. f \in Placed'
                    BY <5>2, <5>3
                <5>5. ASSUME NEW g \in Placed PROVE g \in Placed'
                    <6>1. PICK a \in asked : g = a.id
                        BY DEF Placed
                    <6>2. QED
                        BY <4>1, <5>2, <6>1
                <5>6. QED
                    BY <5>4, <5>5
            <4>3. \A a \in asked : folder'[a.id] = folder[a.id]
                BY <2>1, <2>6, <3>1, <3>4
            <4>4. folder'[f] # None /\ folder'[f].parent = p
                BY <2>1, <2>4, <2>6, <3>4
            <4>5. QED
                BY <3>1, <3>4, <4>1, <4>2, <4>3, <4>4 DEF AskedPlaced, TopDownItemsApplied
        <3>5. QED
            BY <3>2, <3>3, <3>4
    <2>13. (WellFounded(folder) /\ Parented(folder) /\ WellFounded(saved) /\ Parented(saved))'
        BY <2>1, <2>9, <2>10 DEF IInv, WellFounded, Parented
    <2>14. QED
        BY <2>1, <2>8, <2>11, <2>12, <2>13 DEF IInv
<1>3. QED
    BY <1>1, <1>2

-----------------------------------------------------------------------------
(* The theorems *)

LEMMA InitIInv == Init => IInv
    BY ZenonT(60), ForestAssumption DEF Init, IInv, TypeOK, WellFounded, Parented, GraphAgrees,
       AskedPlaced

LEMMA NextInv == IInv /\ [Next]_vars => IInv'
<1> SUFFICES ASSUME IInv, [Next]_vars PROVE IInv'
    OBVIOUS
<1>1. ASSUME NEW n \in Names, NEW p \in Ids \cup {None}, AddFolder(n, p) PROVE IInv'
    BY <1>1, AddFolderInv
<1>2. ASSUME NEW f \in Ids, NEW n \in Names, NEW p \in Ids \cup {None}, EditFolder(f, n, p)
      PROVE IInv'
    BY <1>2, EditFolderInv
<1>3. ASSUME NEW f \in Ids, NEW n \in Names, RenameFolder(f, n) PROVE IInv'
    BY <1>3, RenameFolderInv
<1>4. CASE SortAlpha
    BY <1>4, SortAlphaInv
<1>5. ASSUME NEW f \in Ids, DeleteFolder(f) PROVE IInv'
    BY <1>5, DeleteFolderInv
<1>6. CASE PurgeAll
    BY <1>6, PurgeAllInv
<1>7. CASE ReorderBegin
    BY <1>7, ReorderBeginInv
<1>8. ASSUME NEW f \in Ids, NEW p \in Ids \cup {None}, NEW o \in Orders, ReorderItem(f, p, o)
      PROVE IInv'
    BY <1>8, ReorderItemInv
<1>9. CASE ReorderCommit \/ ReorderFails
    BY <1>9, ReorderEndInv
<1>10. CASE UNCHANGED vars
    BY <1>10 DEF vars, IInv, TypeOK, WellFounded, Parented, GraphAgrees, ParentMap,
                 AskedPlaced, TopDownItemsApplied, Placed
<1>11. QED
    BY <1>1, <1>2, <1>3, <1>4, <1>5, <1>6, <1>7, <1>8, <1>9, <1>10 DEF Next

LEMMA Inductive == Spec => []IInv
    BY InitIInv, NextInv, PTL DEF Spec

\* The rows keep their type, in the session and in the database.
THEOREM FoldersTyped == Spec => []TypeOK
<1>1. IInv => TypeOK
    BY DEF IInv
<1>2. QED
    BY <1>1, Inductive, PTL

\* Whatever the number of folders and the items of the reorders, the folders
\* never close a loop, in the middle of a request or after one that failed.
THEOREM FoldersAreAForest == Spec => []NoFolderLoop
<1>1. IInv => NoFolderLoop
    BY DEF IInv, NoFolderLoop
<1>2. QED
    BY <1>1, Inductive, PTL

\* The parent of every folder exists, though no foreign key protects it.
THEOREM NoFolderWithoutParent == Spec => []ParentsExist
<1>1. IInv => ParentsExist
    BY RowFacts DEF ParentsExist
<1>2. QED
    BY <1>1, Inductive, PTL

\* A tree sent from the root down is applied as sent, whatever the tree before
\* it: the guard against loops refuses none of its items.
THEOREM TreesAreApplied == Spec => []TopDownItemsApplied
<1>1. IInv => TopDownItemsApplied
    BY DEF IInv, AskedPlaced, TopDownItemsApplied
<1>2. QED
    BY <1>1, Inductive, PTL

-----------------------------------------------------------------------------
(* The loops of FolderWalks *)

\* The climb: what is met is above the start, the child is not, and the parent
\* of what is met is met or is where the climb is.
ClimbInv ==
    /\ start \in seen \cup {current}
    /\ start = None => seen = {}
    /\ seen \subseteq Up(parents, start)
    /\ current # None => current \in Up(parents, start)
    /\ child \notin seen
    /\ \A g \in seen : parents[g] \in seen \cup {current}
    /\ current = None => start = None \/ \E g \in seen : parents[g] = None
    /\ at = "climb" => turns = Cardinality(seen)
    /\ at = "yes" => current # None /\ Met
    /\ at = "no" => current = None

\* The ids whose parent was taken, each of which was queued once.
Offspring == {g \in Ids : parents[g] \in seen}

\* The search: what is met and what is queued is below the start, and the
\* sub-folders of what is met are met or queued.
SearchInv ==
    /\ start \in Ids
    /\ start \in seen \cup ToSet(queue)
    /\ seen \cup ToSet(queue) \subseteq Below(start)
    /\ \A f \in seen : ChildrenOf(f) \subseteq seen \cup ToSet(queue)
    /\ ToSet(result) = seen /\ Len(result) = Cardinality(seen)
    /\ turns + Len(queue) <= Cardinality(Offspring) + 1
    /\ at = "listed" => queue = <<>>

WalkInv ==
    /\ WalksTypeOK
    /\ at \in {"climb", "yes", "no"} => ClimbInv
    /\ at \in {"search", "listed"} => SearchInv

LEMMA IdsFinite ==
    /\ IsFiniteSet(Ids) /\ Cardinality(Ids) \in Nat
    /\ \A S \in SUBSET Ids : /\ IsFiniteSet(S) /\ Cardinality(S) \in Nat
                             /\ Cardinality(S) <= Cardinality(Ids)
<1>1. IsFiniteSet(Ids)
    BY ForestAssumption, FS_Interval DEF Ids
<1>2. QED
    BY <1>1, FS_Subset, FS_CardinalityType

\* Whatever loop is called, its invariant holds before its first turn.
LEMMA CallClimbInv ==
    ASSUME WalkInv, NEW c \in Ids, NEW p \in Ids \cup {None}, CallCreatesCycle(c, p)
    PROVE  WalkInv'
<1>1. /\ at' = "climb" /\ child' = c /\ start' = p /\ current' = p
      /\ seen' = {} /\ queue' = <<>> /\ result' = <<>> /\ turns' = 0 /\ parents' = parents
    BY DEF CallCreatesCycle, Call
<1>2. WalksTypeOK'
    BY <1>1 DEF WalkInv, WalksTypeOK
<1>3. p # None => p \in Up(parents, p)
    BY DEF Up
<1>4. ClimbInv'
    BY <1>1, <1>3, FS_EmptySet DEF ClimbInv
<1>5. QED
    BY <1>1, <1>2, <1>4 DEF WalkInv

LEMMA ClimbTurnInv ==
    ASSUME WalkInv, ClimbTurn
    PROVE  WalkInv'
<1>1. /\ parents' = parents /\ child' = child /\ start' = start
      /\ queue' = queue /\ result' = result /\ turns' = turns + 1
      /\ at = "climb" /\ current # None
    BY DEF ClimbTurn
<1>2. WalksTypeOK /\ ClimbInv /\ current \in Ids /\ parents[current] \in Ids \cup {None}
    BY <1>1 DEF WalkInv, WalksTypeOK, Table
<1>3. CASE Met
    <2>1. at' = "yes" /\ current' = current /\ seen' = seen
        BY <1>3 DEF ClimbTurn
    <2>2. WalksTypeOK'
        BY <1>1, <1>2, <2>1 DEF WalksTypeOK
    <2>3. ClimbInv'
        BY <1>1, <1>2, <1>3, <2>1 DEF ClimbInv, Met
    <2>4. QED
        BY <2>1, <2>2, <2>3 DEF WalkInv
<1>4. CASE ~Met
    <2>1. at' = "climb" /\ current' = parents[current] /\ seen' = seen \cup {current}
        BY <1>1, <1>4 DEF ClimbTurn
    <2>2. WalksTypeOK'
        BY <1>1, <1>2, <2>1 DEF WalksTypeOK
    <2>3. parents[current] # None => parents[current] \in Up(parents, start)
        <3>1. \A A \in SUBSET Ids : current \in A /\ Closed(parents, A) =>
                  (parents[current] # None => parents[current] \in A)
            BY DEF Closed
        <3>2. current \in Up(parents, start)
            BY <1>1, <1>2 DEF ClimbInv
        <3>3. QED
            BY <1>2, <3>1, <3>2 DEF Up
    <2>4. Cardinality(seen') = Cardinality(seen) + 1
        BY <1>2, <1>4, <2>1, IdsFinite, FS_AddElement DEF Met, WalksTypeOK
    <2>5. start # None
        BY <1>1, <1>2 DEF ClimbInv
    <2>6. /\ start' \in seen' \cup {current'}
          /\ seen' \subseteq Up(parents', start')
          /\ child' \notin seen'
          /\ \A g \in seen' : parents'[g] \in seen' \cup {current'}
        BY <1>1, <1>2, <1>4, <2>1 DEF ClimbInv, Met
    <2>7. ClimbInv'
        BY <1>1, <1>2, <2>1, <2>3, <2>4, <2>5, <2>6 DEF ClimbInv
    <2>8. QED
        BY <2>1, <2>2, <2>7 DEF WalkInv
<1>5. QED
    BY <1>3, <1>4

LEMMA ClimbOverInv ==
    ASSUME WalkInv, ClimbOver
    PROVE  WalkInv'
<1>1. WalksTypeOK'
    BY DEF WalkInv, ClimbOver, WalksTypeOK
<1>2. ClimbInv'
    BY DEF WalkInv, ClimbOver, ClimbInv
<1>3. QED
    BY <1>1, <1>2 DEF WalkInv, ClimbOver

\* SetToSeq lists a set of ids, once each.
LEMMA Listing ==
    ASSUME NEW S \in SUBSET Ids
    PROVE  /\ SetToSeq(S) \in Seq(Ids)
           /\ Len(SetToSeq(S)) = Cardinality(S)
           /\ ToSet(SetToSeq(S)) = S
<1> DEFINE n == Cardinality(S)
           s == SetToSeq(S)
<1>1. IsFiniteSet(S) /\ n \in Nat
    BY IdsFinite
<1>2. \E f \in [1 .. n -> S] : IsInjective(f)
    <2>1. PICK f : f \in Bijection(1 .. n, S)
        BY <1>1, FS_CardinalityType DEF ExistsBijection
    <2>2. f \in [1 .. n -> S] /\ IsInjective(f)
        BY <2>1 DEF Bijection, Injection
    <2>3. QED
        BY <2>2
<1>3. s \in [1 .. n -> S] /\ IsInjective(s)
    BY <1>2 DEF SetToSeq
<1>4. s \in Injection(1 .. n, S)
    BY <1>3 DEF Injection
<1>5. Cardinality(1 .. n) = n
    BY <1>1, FS_Interval
<1>6. s \in Surjection(1 .. n, S)
    BY <1>1, <1>4, <1>5, FS_Injection
<1> HIDE DEF s, n
<1>7. s \in Seq(S) /\ Len(s) = n /\ DOMAIN s = 1 .. n
    BY <1>1, <1>3
<1>8. \A x \in S : \E i \in 1 .. n : s[i] = x
    BY <1>6 DEF Surjection
<1>9. ToSet(s) = S
    BY <1>3, <1>7, <1>8 DEF ToSet
<1>10. QED
    BY <1>7, <1>9, SeqMonotonic DEF s, n

\* The ids of two lists, one after the other.
LEMMA Joined ==
    ASSUME NEW s \in Seq(Ids), NEW t \in Seq(Ids)
    PROVE  /\ s \o t \in Seq(Ids) /\ Len(s \o t) = Len(s) + Len(t)
           /\ ToSet(s \o t) = ToSet(s) \cup ToSet(t)
<1>1. /\ s \o t \in Seq(Ids) /\ Len(s \o t) = Len(s) + Len(t)
      /\ \A i \in 1 .. Len(s) + Len(t) :
             (s \o t)[i] = IF i <= Len(s) THEN s[i] ELSE t[i - Len(s)]
    BY ConcatProperties
<1>2. Len(s) \in Nat /\ Len(t) \in Nat
    OBVIOUS
<1>3. /\ DOMAIN s = 1 .. Len(s) /\ DOMAIN t = 1 .. Len(t)
      /\ DOMAIN (s \o t) = 1 .. Len(s) + Len(t)
    BY <1>1
<1>4. ASSUME NEW i \in 1 .. Len(s) + Len(t)
      PROVE  (s \o t)[i] \in ToSet(s) \cup ToSet(t)
    BY <1>1, <1>2, <1>3 DEF ToSet
<1>5. ASSUME NEW i \in 1 .. Len(s)
      PROVE  s[i] \in ToSet(s \o t)
    <2>1. i \in 1 .. Len(s) + Len(t) /\ s[i] = (s \o t)[i]
        BY <1>1, <1>2
    <2>2. QED
        BY <1>3, <2>1 DEF ToSet
<1>6. ASSUME NEW i \in 1 .. Len(t)
      PROVE  t[i] \in ToSet(s \o t)
    <2>1. i + Len(s) \in 1 .. Len(s) + Len(t) /\ t[i] = (s \o t)[i + Len(s)]
        BY <1>1, <1>2
    <2>2. QED
        BY <1>3, <2>1 DEF ToSet
<1>7. ToSet(s \o t) \subseteq ToSet(s) \cup ToSet(t)
    <2>1. ToSet(s \o t) = {(s \o t)[i] : i \in 1 .. Len(s) + Len(t)}
        BY <1>3 DEF ToSet
    <2>2. QED
        BY <1>4, <2>1
<1>8. ToSet(s) \subseteq ToSet(s \o t)
    <2>1. ToSet(s) = {s[i] : i \in 1 .. Len(s)}
        BY <1>3 DEF ToSet
    <2>2. QED
        BY <1>5, <2>1
<1>9. ToSet(t) \subseteq ToSet(s \o t)
    <2>1. ToSet(t) = {t[i] : i \in 1 .. Len(t)}
        BY <1>3 DEF ToSet
    <2>2. QED
        BY <1>6, <2>1
<1>10. QED
    BY <1>1, <1>7, <1>8, <1>9

\* A list of one id, and a list with one more.
LEMMA Single ==
    ASSUME NEW x \in Ids
    PROVE  ToSet(<<x>>) = {x} /\ <<x>> \in Seq(Ids) /\ Len(<<x>>) = 1
    BY DEF ToSet

LEMMA Lengthened ==
    ASSUME NEW s \in Seq(Ids), NEW x \in Ids
    PROVE  /\ Append(s, x) \in Seq(Ids) /\ Len(Append(s, x)) = Len(s) + 1
           /\ ToSet(Append(s, x)) = ToSet(s) \cup {x}
<1>1. Append(s, x) = s \o <<x>>
    OBVIOUS
<1>2. QED
    BY <1>1, Single, Joined

\* A list is its head and its tail.
LEMMA TakenApart ==
    ASSUME NEW s \in Seq(Ids), s # <<>>
    PROVE  /\ Head(s) \in Ids /\ Tail(s) \in Seq(Ids)
           /\ Len(s) \in Nat /\ Len(Tail(s)) = Len(s) - 1
           /\ ToSet(s) = {Head(s)} \cup ToSet(Tail(s))
<1> DEFINE x == Head(s)
           r == Tail(s)
<1>1. x \in Ids /\ r \in Seq(Ids) /\ Len(r) = Len(s) - 1
    BY HeadTailProperties
<1>2. s = <<x>> \o r
    BY <1>1
<1>3. Len(s) \in Nat
    OBVIOUS
<1> HIDE DEF x, r
<1>4. ToSet(<<x>> \o r) = {x} \cup ToSet(r)
    <2>1. <<x>> \in Seq(Ids) /\ ToSet(<<x>>) = {x}
        BY <1>1, Single
    <2>2. ToSet(<<x>> \o r) = ToSet(<<x>>) \cup ToSet(r)
        BY <1>1, <2>1, Joined
    <2>3. QED
        BY <2>1, <2>2
<1>5. ToSet(s) = {x} \cup ToSet(r)
    BY <1>2, <1>4
<1>6. QED
    BY <1>1, <1>3, <1>5 DEF x, r

LEMMA CallSearchInv ==
    ASSUME WalkInv, NEW root \in Ids, CallDescendants(root)
    PROVE  WalkInv'
<1>1. /\ at' = "search" /\ child' = None /\ start' = root /\ current' = root
      /\ seen' = {} /\ queue' = <<root>> /\ result' = <<>> /\ turns' = 0 /\ parents' = parents
    BY DEF CallDescendants, Call
<1>2. ToSet(queue') = {root} /\ queue' \in Seq(Ids) /\ Len(queue') = 1
    BY <1>1, Single
<1>3. WalksTypeOK'
    BY <1>1, <1>2 DEF WalkInv, WalksTypeOK
<1>4. SearchInv'
    <2>1. ToSet(<<>>) = {} /\ Len(<<>>) = 0
        BY DEF ToSet
    <2>2. Cardinality(Offspring') \in Nat
        BY IdsFinite DEF Offspring
    <2>3. root \in Below(root)'
        BY DEF Below
    <2>4. start' \in Ids /\ start' \in seen' \cup ToSet(queue)'
        BY <1>1, <1>2
    <2>5. (seen \cup ToSet(queue))' \subseteq Below(start)'
        BY <1>1, <1>2, <2>3
    <2>6. ToSet(result)' = seen' /\ Len(result)' = Cardinality(seen)'
        BY <1>1, <2>1, FS_EmptySet
    <2>7. turns' + Len(queue)' <= Cardinality(Offspring)' + 1
        BY <1>1, <1>2, <2>2
    <2>8. QED
        BY <1>1, <2>4, <2>5, <2>6, <2>7 DEF SearchInv
<1>5. QED
    BY <1>1, <1>3, <1>4 DEF WalkInv

\* What is met once f is taken makes the sub-folders of f offspring.
LEMMA OffspringGrows ==
    ASSUME WalksTypeOK, NEW f \in Ids, f \notin seen, seen' = seen \cup {f},
           parents' = parents
    PROVE  /\ Cardinality(Offspring) \in Nat /\ Cardinality(Offspring') \in Nat
           /\ Cardinality(ChildrenOf(f)) \in Nat
           /\ Cardinality(Offspring') = Cardinality(Offspring) + Cardinality(ChildrenOf(f))
<1>1. Offspring' = Offspring \cup ChildrenOf(f)
    BY DEF Offspring, ChildrenOf
<1>2. Offspring \cap ChildrenOf(f) = {}
    BY DEF Offspring, ChildrenOf
<1>3. /\ Offspring \in SUBSET Ids /\ ChildrenOf(f) \in SUBSET Ids
      /\ Offspring' \in SUBSET Ids
    BY DEF Offspring, ChildrenOf
<1>4. /\ IsFiniteSet(Offspring) /\ IsFiniteSet(ChildrenOf(f))
      /\ Cardinality(Offspring) \in Nat /\ Cardinality(ChildrenOf(f)) \in Nat
      /\ Cardinality(Offspring') \in Nat
    BY <1>3, IdsFinite
<1>5. Cardinality(Offspring \cup ChildrenOf(f)) =
          Cardinality(Offspring) + Cardinality(ChildrenOf(f)) - Cardinality({})
    BY <1>2, <1>4, FS_Union
<1>6. QED
    BY <1>1, <1>4, <1>5, FS_EmptySet

LEMMA SearchTurnInv ==
    ASSUME WalkInv, SearchTurn
    PROVE  WalkInv'
<1> DEFINE f == Head(queue)
<1>1. /\ parents' = parents /\ at' = "search" /\ child' = child /\ start' = start
      /\ current' = current /\ turns' = turns + 1 /\ at = "search" /\ queue # <<>>
    BY DEF SearchTurn
<1>2. WalksTypeOK /\ SearchInv
    BY <1>1 DEF WalkInv
<1>3. /\ f \in Ids /\ Tail(queue) \in Seq(Ids) /\ Len(Tail(queue)) = Len(queue) - 1
      /\ ToSet(queue) = {f} \cup ToSet(Tail(queue)) /\ Len(queue) \in Nat
      /\ turns \in Nat
    BY <1>1, <1>2, TakenApart DEF WalksTypeOK
<1>4. Below(start)' = Below(start)
    BY <1>1 DEF Below, ChildrenOf
<1> HIDE DEF f
<1>5. CASE f \in seen
    <2>1. queue' = Tail(queue) /\ seen' = seen /\ result' = result
        BY <1>5 DEF SearchTurn, Known, f
    <2>2. WalksTypeOK'
        BY <1>1, <1>2, <1>3, <2>1 DEF WalksTypeOK
    <2>3. (seen \cup ToSet(queue))' = seen \cup ToSet(queue)
        BY <1>3, <1>5, <2>1
    <2>4. Offspring' = Offspring /\ Cardinality(Offspring) \in Nat
        BY <1>1, <2>1, IdsFinite DEF Offspring
    <2>5. turns' + Len(queue)' <= Cardinality(Offspring)' + 1
        BY <1>1, <1>2, <1>3, <2>1, <2>4 DEF SearchInv
    <2>6. \A g \in seen' : ChildrenOf(g)' \subseteq (seen \cup ToSet(queue))'
        BY <1>1, <1>2, <2>1, <2>3 DEF SearchInv, ChildrenOf
    <2>7. SearchInv'
        BY <1>1, <1>2, <1>4, <2>1, <2>3, <2>5, <2>6 DEF SearchInv
    <2>8. QED
        BY <1>1, <2>2, <2>7 DEF WalkInv
<1>6. CASE f \notin seen
    <2> DEFINE c == SetToSeq(ChildrenOf(f))
    <2>1. queue' = Tail(queue) \o c /\ seen' = seen \cup {f} /\ result' = Append(result, f)
        BY <1>6 DEF SearchTurn, Known, f
    <2>2. /\ c \in Seq(Ids) /\ Len(c) = Cardinality(ChildrenOf(f)) /\ ToSet(c) = ChildrenOf(f)
        BY Listing DEF ChildrenOf
    <2> HIDE DEF c
    <2>3. /\ queue' \in Seq(Ids) /\ Len(queue)' = Len(queue) - 1 + Len(c)
          /\ ToSet(queue)' = ToSet(Tail(queue)) \cup ChildrenOf(f)
        BY <1>3, <2>1, <2>2, Joined
    <2>4. /\ result' \in Seq(Ids) /\ Len(result)' = Len(result) + 1
          /\ ToSet(result)' = ToSet(result) \cup {f}
        BY <1>2, <1>3, <2>1, Lengthened DEF WalksTypeOK
    <2>5. WalksTypeOK'
        BY <1>1, <1>2, <1>3, <2>1, <2>3, <2>4 DEF WalksTypeOK
    <2>6. (seen \cup ToSet(queue))' = seen \cup ToSet(queue) \cup ChildrenOf(f)
        BY <1>3, <2>1, <2>3
    <2>7. f \in Below(start)
        BY <1>2, <1>3 DEF SearchInv
    <2>8. ChildrenOf(f) \subseteq Below(start)
        <3>1. ChildrenOf(f) \subseteq Ids
            BY DEF ChildrenOf
        <3>2. QED
            BY <2>7, <3>1 DEF Below
    <2>9. \A g \in seen' : ChildrenOf(g)' \subseteq (seen \cup ToSet(queue))'
        <3>1. \A g : ChildrenOf(g)' = ChildrenOf(g)
            BY <1>1 DEF ChildrenOf
        <3>2. QED
            BY <1>2, <2>1, <2>6, <3>1 DEF SearchInv
    <2>10. Len(result)' = Cardinality(seen)'
        <3>1. Len(result) = Cardinality(seen)
            BY <1>2 DEF SearchInv
        <3>2. IsFiniteSet(seen)
            BY <1>2, IdsFinite DEF WalksTypeOK
        <3>3. Cardinality(seen \cup {f}) = Cardinality(seen) + 1
            BY <1>6, <3>2, FS_AddElement
        <3>4. QED
            BY <2>1, <2>4, <3>1, <3>3
    <2>11. turns' + Len(queue)' <= Cardinality(Offspring)' + 1
        <3>1. turns + Len(queue) <= Cardinality(Offspring) + 1
            BY <1>2 DEF SearchInv
        <3>2. /\ Cardinality(Offspring) \in Nat /\ Cardinality(Offspring') \in Nat
              /\ Len(c) \in Nat
              /\ Cardinality(Offspring') = Cardinality(Offspring) + Len(c)
            BY <1>1, <1>2, <1>3, <1>6, <2>1, <2>2, OffspringGrows
        <3>3. QED
            BY <1>1, <1>3, <2>3, <3>1, <3>2
    <2>12. /\ start' \in Ids
           /\ start' \in (seen \cup ToSet(queue))'
           /\ (seen \cup ToSet(queue))' \subseteq Below(start)'
           /\ ToSet(result)' = seen'
        BY <1>1, <1>2, <1>4, <2>1, <2>4, <2>6, <2>8 DEF SearchInv
    <2>13. SearchInv'
        BY <1>1, <2>9, <2>10, <2>11, <2>12 DEF SearchInv
    <2>14. QED
        BY <1>1, <2>5, <2>13 DEF WalkInv
<1>7. QED
    BY <1>5, <1>6

LEMMA SearchOverInv ==
    ASSUME WalkInv, SearchOver
    PROVE  WalkInv'
<1>1. WalksTypeOK'
    BY DEF WalkInv, SearchOver, WalksTypeOK
<1>2. SearchInv'
    <2>1. /\ SearchInv /\ queue = <<>> /\ parents' = parents /\ start' = start
          /\ seen' = seen /\ queue' = queue /\ result' = result /\ turns' = turns
        BY DEF WalkInv, SearchOver
    <2>2. Below(start)' = Below(start) /\ Offspring' = Offspring
        BY <2>1 DEF Below, Offspring, ChildrenOf
    <2>3. \A g : ChildrenOf(g)' = ChildrenOf(g)
        BY <2>1 DEF ChildrenOf
    <2>4. QED
        BY <2>1, <2>2, <2>3 DEF SearchInv
<1>3. QED
    BY <1>1, <1>2 DEF WalkInv, SearchOver

LEMMA WalksInductive == WalksSpec => []WalkInv
<1>1. WalksInit => WalkInv
    BY DEF WalksInit, WalkInv, WalksTypeOK
<1>2. WalkInv /\ [WalksNext]_walkVars => WalkInv'
    <2> SUFFICES ASSUME WalkInv, [WalksNext]_walkVars PROVE WalkInv'
        OBVIOUS
    <2>1. CASE UNCHANGED walkVars
        BY <2>1 DEF walkVars, WalkInv, WalksTypeOK, ClimbInv, SearchInv, Met, Offspring,
           Below, ChildrenOf
    <2>2. CASE WalksNext
        BY <2>2, CallClimbInv, ClimbTurnInv, ClimbOverInv, CallSearchInv, SearchTurnInv,
           SearchOverInv DEF WalksNext
    <2>3. QED
        BY <2>1, <2>2
<1>3. QED
    BY <1>1, <1>2, PTL DEF WalksSpec

\* On any table, of any number of folders, the climb ends within as many turns
\* as there are ids and one, and answers exactly whether FolderForest would
\* refuse the parent.
THEOREM ClimbsAnswerExactly == WalksSpec => []ClimbIsExact
<1>1. ASSUME WalkInv, at = "yes"
      PROVE  CreatesCycle(parents, child, start)
    <2>1. ClimbInv /\ WalksTypeOK /\ current # None
        BY <1>1 DEF WalkInv, ClimbInv
    <2>2. start # None
        BY <1>1, <2>1 DEF ClimbInv, Met, WalksTypeOK
    <2>3. CASE current = child
        BY <2>1, <2>2, <2>3 DEF ClimbInv, CreatesCycle
    <2>4. CASE current # child
        <3>1. current \in seen
            BY <1>1, <2>1, <2>4 DEF ClimbInv, Met
        <3>2. start \in seen /\ \A g \in seen : parents[g] \in seen
            BY <2>1, <3>1 DEF ClimbInv
        <3>3. seen \in SUBSET Ids /\ Closed(parents, seen)
            BY <2>1, <3>2 DEF Closed, WalksTypeOK
        <3>4. Up(parents, start) \subseteq seen
            BY <3>2, <3>3 DEF Up
        <3>5. \A g \in Up(parents, start) : parents[g] # None
            BY <3>2, <3>3, <3>4, ForestAssumption
        <3>6. QED
            BY <2>2, <3>5 DEF CreatesCycle
    <2>5. QED
        BY <2>3, <2>4
<1>2. ASSUME WalkInv, at = "no"
      PROVE  ~CreatesCycle(parents, child, start)
    <2>1. ClimbInv /\ WalksTypeOK /\ current = None
        BY <1>2 DEF WalkInv, ClimbInv
    <2>2. CASE start = None
        BY <2>2 DEF CreatesCycle
    <2>3. CASE start # None
        <3>1. start \in seen
            BY <2>1, <2>3 DEF ClimbInv
        <3>2. seen \in SUBSET Ids /\ Closed(parents, seen)
            BY <2>1 DEF Closed, WalksTypeOK, ClimbInv
        <3>3. Up(parents, start) \subseteq seen
            BY <3>1, <3>2 DEF Up
        <3>4. child \notin Up(parents, start)
            BY <2>1, <3>3 DEF ClimbInv
        <3>5. \E g \in Up(parents, start) : parents[g] = None
            BY <2>1, <2>3 DEF ClimbInv
        <3>6. QED
            BY <3>4, <3>5 DEF CreatesCycle
    <2>4. QED
        BY <2>2, <2>3
<1>3. ASSUME WalkInv, at = "climb"
      PROVE  WalkIsShort
    <2>1. turns = Cardinality(seen) /\ seen \in SUBSET Ids
        BY <1>3 DEF WalkInv, ClimbInv, WalksTypeOK
    <2>2. QED
        BY <2>1, IdsFinite DEF WalkIsShort
<1>4. WalkInv => ClimbIsExact
    BY <1>1, <1>2, <1>3 DEF ClimbIsExact
<1>5. QED
    BY <1>4, WalksInductive, PTL

\* On any table, of any number of folders, the filter on a folder ends as soon
\* and lists exactly the ids below it, each once.
THEOREM FiltersListExactly == WalksSpec => []FilterIsExact
<1>1. ASSUME WalkInv, at = "listed"
      PROVE  ToSet(result) = Below(start) /\ Len(result) = Cardinality(Below(start))
    <2>1. SearchInv /\ WalksTypeOK /\ queue = <<>>
        BY <1>1 DEF WalkInv, SearchInv
    <2>2. ToSet(queue) = {}
        BY <2>1 DEF ToSet
    <2>3. /\ seen \in SUBSET Ids /\ start \in seen
          /\ \A f \in seen : ChildrenOf(f) \subseteq seen
          /\ seen \subseteq Below(start)
        BY <2>1, <2>2 DEF SearchInv, WalksTypeOK
    <2>4. seen = Below(start)
        BY <2>3 DEF Below
    <2>5. QED
        BY <2>1, <2>4 DEF SearchInv
<1>2. ASSUME WalkInv, at = "search"
      PROVE  WalkIsShort
    <2>1. /\ turns + Len(queue) <= Cardinality(Offspring) + 1
          /\ turns \in Nat /\ queue \in Seq(Ids)
        BY <1>2 DEF WalkInv, SearchInv, WalksTypeOK
    <2>2. /\ Cardinality(Offspring) \in Nat /\ Cardinality(Ids) \in Nat
          /\ Cardinality(Offspring) <= Cardinality(Ids)
        BY IdsFinite DEF Offspring
    <2>3. Len(queue) \in Nat
        BY <2>1
    <2>4. QED
        BY <2>1, <2>2, <2>3 DEF WalkIsShort
<1>3. WalkInv => FilterIsExact
    BY <1>1, <1>2 DEF FilterIsExact
<1>4. QED
    BY <1>3, WalksInductive, PTL

-----------------------------------------------------------------------------
(* The pages: the list of the sidebar and the totals *)

\* A call of walk belongs to a folder of the list that all that follows is
\* deeper than, or to the root.
Owned(k) ==
    IF walks[k].of = None THEN walks[k].depth = 0
    ELSE \E j \in DOMAIN listing :
            /\ listing[j].folder = walks[k].of
            /\ walks[k].depth = listing[j].depth + 1
            /\ \A i \in j + 1 .. Len(listing) : listing[i].depth >= walks[k].depth

\* A folder whose parent was walked is in the list or about to be.
NoneForgotten ==
    \A f \in present : parents[f] \in Listed \cup {None} =>
        f \in Listed \/ \E k \in DOMAIN walks : f \in walks[k].todo

\* What a call has still to list comes after what it has listed.
TodoIsAfter(k) ==
    \A i \in DOMAIN listing :
        (/\ parents[listing[i].folder] = walks[k].of
         /\ listing[i].depth > 0 \/ walks[k].of = None)
            => \A f \in walks[k].todo : listing[i].folder < f

ListInv ==
    /\ Listed \subseteq present
    /\ \A i, j \in DOMAIN listing : listing[i].folder = listing[j].folder => i = j
    /\ \A k \in DOMAIN walks : /\ walks[k].of \in Listed \cup {None}
                               /\ walks[k].todo \subseteq Kids(walks[k].of) \ Listed
    /\ \A j, k \in DOMAIN walks : walks[j].of = walks[k].of => j = k
    /\ \A j, k \in DOMAIN walks : j <= k => walks[j].depth <= walks[k].depth
    /\ \A k \in DOMAIN walks : Owned(k) /\ TodoIsAfter(k)
    /\ \A i \in DOMAIN listing : WellPlaced(i)
    /\ \A i, j \in DOMAIN listing : InOrder(i, j)
    /\ doing = "list" => NoneForgotten
    /\ doing # "list" => walks = <<>>
    /\ doing \notin {"list", "listed"} => listing = <<>>
    /\ doing = "listed" => present \subseteq Listed

\* The links a call on f has added up when it has the children in R to take.
AddedUp(f, R) ==
    {l \in Links : FolderOf[l] = f \/ \E c \in ChildrenOf(f) \ R : FolderOf[l] \in Below(c)}

CountInv ==
    /\ counted \subseteq present
    /\ \A k \in DOMAIN counts : /\ counts[k].of \in present \ counted
                                /\ counts[k].todo \subseteq ChildrenOf(counts[k].of)
    /\ \A j, k \in DOMAIN counts : counts[j].of = counts[k].of => j = k
    /\ \A j, k \in DOMAIN counts : j <= k => counts[k].of \in Below(counts[j].of)
    /\ \A f \in counted : Calm(f) => totals[f] = Cardinality(Under(f))
    /\ \A k \in DOMAIN counts : Calm(counts[k].of) =>
           counts[k].total = Cardinality(AddedUp(counts[k].of, counts[k].todo))
    /\ doing # "count" => counts = <<>>
    /\ doing \notin {"count", "counted"} => counted = {}
    /\ doing = "counted" => present \subseteq counted

PagesInv == PagesTypeOK /\ ListInv /\ CountInv

\* A set of naturals has a least one.
LEMMA LeastId ==
    ASSUME NEW S \in SUBSET Ids, S # {}
    PROVE  Least(S) \in S /\ \A g \in S : Least(S) <= g
<1>1. S \in SUBSET Nat
    BY ForestAssumption DEF Ids
<1>2. IsWellFoundedOn(OpToRel(<, Nat), Nat)
    BY NatLessThanWellFounded
<1>3. PICK f \in S : \A g \in S : ~(<<g, f>> \in OpToRel(<, Nat))
    BY <1>1, <1>2, WFMin
<1>4. ASSUME NEW g \in S
      PROVE  f <= g
    <2>1. g \in Nat /\ f \in Nat
        BY <1>1
    <2>2. ~(g < f)
        BY <1>3, <2>1 DEF OpToRel
    <2>3. QED
        BY <2>1, <2>2
<1>5. QED
    BY <1>4 DEF Least

LEMMA SeqFacts ==
    ASSUME NEW S, NEW s \in Seq(S)
    PROVE  /\ Len(s) \in Nat /\ DOMAIN s = 1 .. Len(s)
           /\ \A i \in 1 .. Len(s) : s[i] \in S
    OBVIOUS

\* A stack without its top.
LEMMA Popped ==
    ASSUME NEW S, NEW s \in Seq(S), s # <<>>
    PROVE  /\ Len(s) \in Nat \ {0} /\ Last(s) = s[Len(s)] /\ Last(s) \in S
           /\ Front(s) \in Seq(S) /\ Len(Front(s)) = Len(s) - 1
           /\ \A i \in 1 .. Len(s) - 1 : Front(s)[i] = s[i]
<1>1. Len(s) \in Nat \ {0} /\ \A i \in 1 .. Len(s) : s[i] \in S
    BY EmptySeq
<1>2. Front(s) = SubSeq(s, 1, Len(s) - 1)
    BY DEF Front
<1>3. Len(s) - 1 \in Int /\ 1 \in Int /\ \A i \in 1 .. Len(s) - 1 : s[i] \in S
    BY <1>1
<1>4. /\ SubSeq(s, 1, Len(s) - 1) \in Seq(S)
      /\ Len(SubSeq(s, 1, Len(s) - 1)) = IF 1 <= Len(s) - 1 THEN Len(s) - 1 - 1 + 1 ELSE 0
      /\ \A i \in 1 .. Len(s) - 1 - 1 + 1 : SubSeq(s, 1, Len(s) - 1)[i] = s[1 + i - 1]
    BY <1>3, SubSeqProperties
<1>5. Last(s) = s[Len(s)] /\ Last(s) \in S
    BY <1>1 DEF Last
<1>6. Len(s) - 1 - 1 + 1 = Len(s) - 1 /\ \A i \in 1 .. Len(s) - 1 : 1 + i - 1 = i
    BY <1>1
<1>7. Len(Front(s)) = Len(s) - 1
    <2>1. Len(Front(s)) = IF 1 <= Len(s) - 1 THEN Len(s) - 1 - 1 + 1 ELSE 0
        BY <1>2, <1>4
    <2>2. \A n \in Nat \ {0} : (IF 1 <= n - 1 THEN n - 1 - 1 + 1 ELSE 0) = n - 1
        OBVIOUS
    <2>3. QED
        BY <1>1, <2>1, <2>2
<1>8. \A i \in 1 .. Len(s) - 1 : Front(s)[i] = s[i]
    <2> DEFINE r == SubSeq(s, 1, Len(s) - 1)
    <2>1. \A i \in 1 .. Len(s) - 1 : r[i] = s[1 + i - 1]
        BY <1>4, <1>6
    <2>2. Front(s) = r
        BY <1>2
    <2> HIDE DEF r
    <2>3. QED
        BY <1>6, <2>1, <2>2
<1>9. QED
    BY <1>1, <1>2, <1>4, <1>5, <1>7, <1>8

\* A list of distinct ids is no longer than they are many.
LEMMA NoLonger ==
    ASSUME NEW n \in Nat, NEW T, IsFiniteSet(T), NEW f \in [1 .. n -> T],
           \A i, j \in 1 .. n : f[i] = f[j] => i = j
    PROVE  /\ n <= Cardinality(T)
           /\ T = {f[i] : i \in 1 .. n} => n = Cardinality(T)
<1>1. f \in Injection(1 .. n, T)
    BY DEF Injection, IsInjective
<1>2. Cardinality(1 .. n) = n
    BY FS_Interval
<1>3. T = {f[i] : i \in 1 .. n} => f \in Surjection(1 .. n, T)
    BY DEF Surjection
<1>4. QED
    BY <1>1, <1>2, <1>3, FS_Injection

\* What is below a folder has it, and goes down with every folder in it.
LEMMA BelowClosed ==
    ASSUME NEW f \in Ids
    PROVE  /\ f \in Below(f) /\ Below(f) \subseteq Ids
           /\ \A a \in Below(f) : ChildrenOf(a) \subseteq Below(f)
           /\ \A A \in SUBSET Ids :
                  f \in A /\ (\A a \in A : ChildrenOf(a) \subseteq A) => Below(f) \subseteq A
    BY DEF Below, ChildrenOf

\* It is the folder and what is below its children.
LEMMA BelowIsMadeOf ==
    ASSUME NEW f \in Ids
    PROVE  Below(f) = {f} \cup UNION {Below(c) : c \in ChildrenOf(f)}
<1> DEFINE A == {f} \cup UNION {Below(c) : c \in ChildrenOf(f)}
<1>1. ChildrenOf(f) \subseteq Ids
    BY DEF ChildrenOf
<1>2. A \subseteq Ids
    BY <1>1, BelowClosed
<1>3. ASSUME NEW a \in A
      PROVE  ChildrenOf(a) \subseteq A
    <2>1. CASE a = f
        BY <1>1, <2>1, BelowClosed
    <2>2. CASE a # f
        <3>1. PICK c \in ChildrenOf(f) : a \in Below(c)
            BY <2>2
        <3>2. c \in Ids /\ ChildrenOf(a) \subseteq Below(c)
            BY <1>1, <3>1, BelowClosed
        <3>3. QED
            BY <3>1, <3>2
    <2>3. QED
        BY <2>1, <2>2
<1>4. Below(f) \subseteq A
    BY <1>2, <1>3, BelowClosed
<1>5. ASSUME NEW c \in ChildrenOf(f)
      PROVE  Below(c) \subseteq Below(f)
    BY <1>1, BelowClosed
<1>6. A \subseteq Below(f)
    BY <1>5, BelowClosed
<1>7. QED
    BY <1>4, <1>6

\* What is below f is f, or has its parent below f too.
LEMMA ParentBelow ==
    ASSUME NEW f \in Ids, NEW a \in Below(f), a # f
    PROVE  parents[a] \in Below(f)
<1> DEFINE A == {b \in Below(f) : b = f \/ parents[b] \in Below(f)}
<1>1. A \subseteq Ids /\ f \in A
    BY BelowClosed
<1>2. ASSUME NEW b \in A
      PROVE  ChildrenOf(b) \subseteq A
    <2>1. b \in Below(f) /\ ChildrenOf(b) \subseteq Below(f)
        BY BelowClosed
    <2>2. QED
        BY <2>1 DEF ChildrenOf
<1>3. Below(f) \subseteq A
    BY <1>1, <1>2, BelowClosed
<1>4. QED
    BY <1>3

\* What is below two children of a folder on no loop is not the same,
LEMMA ApartBelow ==
    ASSUME NEW f \in Ids, Calm(f), NEW c \in ChildrenOf(f), NEW d \in ChildrenOf(f), c # d
    PROVE  Below(c) \cap Below(d) = {}
<1> DEFINE A == Below(c) \ Below(d)
<1>1. c \in Ids /\ d \in Ids /\ parents[c] = f /\ parents[d] = f
    BY DEF ChildrenOf
<1>2. f \notin Below(c) /\ f \notin Below(d)
    BY DEF Calm
<1>3. c \in A
    BY <1>1, <1>2, BelowClosed, ParentBelow
<1>4. ASSUME NEW a \in A, NEW g \in ChildrenOf(a)
      PROVE  g \in A
    <2>1. g \in Below(c) /\ parents[g] = a
        BY <1>1, BelowClosed DEF ChildrenOf
    <2>2. g # d
        BY <1>1, <1>2, <2>1
    <2>3. g \notin Below(d)
        BY <1>1, <2>1, <2>2, ParentBelow
    <2>4. QED
        BY <2>1, <2>3
<1>5. A \subseteq Ids
    BY <1>1, BelowClosed
<1>6. Below(c) \subseteq A
    BY <1>1, <1>3, <1>4, <1>5, BelowClosed
<1>7. QED
    BY <1>6

\* and its children are on no loop either.
LEMMA CalmChildren ==
    ASSUME NEW f \in Ids, Calm(f), NEW c \in ChildrenOf(f)
    PROVE  Calm(c)
<1>1. c \in Ids /\ parents[c] = f /\ f \notin Below(c)
    BY DEF ChildrenOf, Calm
<1>2. ASSUME NEW e \in ChildrenOf(c), c \in Below(e)
      PROVE  FALSE
    <2>1. e \in Ids /\ parents[e] = c
        BY DEF ChildrenOf
    <2>2. e \in Below(c) /\ Below(e) \subseteq Below(c)
        BY <1>1, <2>1, BelowClosed
    <2>3. CASE e = c
        BY <1>1, <2>1, <2>2, <2>3
    <2>4. CASE e # c
        <3>1. parents[c] \in Below(e)
            BY <1>2, <2>1, <2>4, ParentBelow
        <3>2. QED
            BY <1>1, <2>2, <3>1
    <2>5. QED
        BY <2>3, <2>4
<1>3. QED
    BY <1>2 DEF Calm

\* The list with one more item.
LEMMA OneMoreItem ==
    ASSUME PagesTypeOK, NEW f \in Ids, NEW d \in Nat, listing' = Append(listing, Item(f, d))
    PROVE  /\ Len(listing) \in Nat /\ DOMAIN listing = 1 .. Len(listing)
           /\ listing' \in Seq([folder : Ids, depth : Nat])
           /\ Len(listing') = Len(listing) + 1 /\ DOMAIN listing' = 1 .. Len(listing) + 1
           /\ \A i \in 1 .. Len(listing) : /\ listing'[i] = listing[i]
                                           /\ listing[i].folder \in Ids /\ listing[i].depth \in Nat
           /\ listing'[Len(listing) + 1].folder = f /\ listing'[Len(listing) + 1].depth = d
           /\ Listed' = Listed \cup {f}
<1> DEFINE R == [folder : Ids, depth : Nat]
           e == Item(f, d)
<1>1. e \in R /\ e.folder = f /\ e.depth = d
    BY DEF Item
<1>2. listing \in Seq(R)
    BY DEF PagesTypeOK
<1>3. /\ Len(listing) \in Nat /\ DOMAIN listing = 1 .. Len(listing)
      /\ \A i \in 1 .. Len(listing) : listing[i] \in R
    BY <1>2, SeqFacts
<1> HIDE DEF e
<1>4. /\ listing' \in Seq(R) /\ Len(listing') = Len(listing) + 1
      /\ \A i \in 1 .. Len(listing) : listing'[i] = listing[i]
      /\ listing'[Len(listing) + 1] = e
    BY <1>1, <1>2, AppendProperties DEF e
<1>5. DOMAIN listing' = 1 .. Len(listing) + 1
    BY <1>4
<1>6. Listed' = Listed \cup {f}
    <2>1. Listed' = {listing'[i].folder : i \in 1 .. Len(listing) + 1}
        BY <1>5 DEF Listed
    <2>2. Listed = {listing[i].folder : i \in 1 .. Len(listing)}
        BY <1>3 DEF Listed
    <2>3. \A i \in 1 .. Len(listing) + 1 : i \in 1 .. Len(listing) \/ i = Len(listing) + 1
        BY <1>3
    <2>4. 1 .. Len(listing) \subseteq 1 .. Len(listing) + 1 /\ Len(listing) + 1 \in 1 .. Len(listing) + 1
        BY <1>3
    <2>5. QED
        BY <1>1, <1>4, <2>1, <2>2, <2>3, <2>4
<1>7. QED
    BY <1>1, <1>3, <1>4, <1>5, <1>6

LEMMA PlacedUnder ==
    ASSUME NEW i, NEW j \in 1 .. i - 1,
           listing'[j].folder = parents'[listing'[i].folder],
           listing'[i].depth = listing'[j].depth + 1,
           \A k \in j + 1 .. i - 1 : listing'[k].depth >= listing'[i].depth
    PROVE  WellPlaced(i)'
    BY DEF WellPlaced

\* The items before it stay where they are.
LEMMA OldItemsStay ==
    ASSUME PagesTypeOK, ListInv, NEW f \in Ids, NEW d \in Nat, listing' = Append(listing, Item(f, d)),
           parents' = parents, present' = present
    PROVE  /\ \A i \in 1 .. Len(listing) : WellPlaced(i)'
           /\ \A i, j \in 1 .. Len(listing) : InOrder(i, j)'
<1>1. /\ Len(listing) \in Nat /\ DOMAIN listing = 1 .. Len(listing)
      /\ \A i \in 1 .. Len(listing) : listing'[i] = listing[i]
    BY OneMoreItem
<1>2. ASSUME NEW i \in 1 .. Len(listing)
      PROVE  WellPlaced(i)'
    <2>1. WellPlaced(i)
        BY <1>1 DEF ListInv
    <2>2. \A j \in 1 .. i - 1 : j \in 1 .. Len(listing)
        BY <1>1
    <2>3. \A g \in Ids : Adrift(g) => Adrift(g)'
        BY DEF Adrift
    <2>4. listing[i].folder \in Ids
        BY OneMoreItem
    <2>5. CASE listing[i].depth = 0 /\ (parents[listing[i].folder] = None \/ Adrift(listing[i].folder))
        BY <1>1, <2>3, <2>4, <2>5 DEF WellPlaced
    <2>6. CASE \E j \in 1 .. i - 1 :
                  /\ listing[j].folder = parents[listing[i].folder]
                  /\ listing[i].depth = listing[j].depth + 1
                  /\ \A k \in j + 1 .. i - 1 : listing[k].depth >= listing[i].depth
        <3>1. PICK j \in 1 .. i - 1 :
                  /\ listing[j].folder = parents[listing[i].folder]
                  /\ listing[i].depth = listing[j].depth + 1
                  /\ \A k \in j + 1 .. i - 1 : listing[k].depth >= listing[i].depth
            BY <2>6
        <3>2. \A k \in j + 1 .. i - 1 : k \in 1 .. Len(listing)
            BY <1>1
        <3>3. /\ listing'[j].folder = parents'[listing'[i].folder]
              /\ listing'[i].depth = listing'[j].depth + 1
              /\ \A k \in j + 1 .. i - 1 : listing'[k].depth >= listing'[i].depth
            BY <1>1, <2>2, <3>1, <3>2
        <3>4. QED
            BY <3>3, PlacedUnder
    <2>7. QED
        BY <2>1, <2>5, <2>6 DEF WellPlaced
<1>3. ASSUME NEW i \in 1 .. Len(listing), NEW j \in 1 .. Len(listing)
      PROVE  InOrder(i, j)'
    <2>1. InOrder(i, j)
        BY <1>1 DEF ListInv
    <2>2. listing'[i] = listing[i] /\ listing'[j] = listing[j]
        BY <1>1
    <2>3. QED
        BY <2>1, <2>2 DEF InOrder
<1>4. QED
    BY <1>2, <1>3

-----------------------------------------------------------------------------
(* The steps of build_folder_tree *)

\* What a step leaves of the other function.
LEMMA CountUntouched ==
    ASSUME CountInv, doing' = doing \/ {doing, doing'} \cap {"count", "counted"} = {},
           parents' = parents, present' = present, counts' = counts,
           counted' = counted, totals' = totals
    PROVE  CountInv'
<1>1. \A f : ChildrenOf(f)' = ChildrenOf(f)
    BY DEF ChildrenOf
<1>2. \A f : Below(f)' = Below(f)
    BY <1>1 DEF Below
<1>3. \A f : (Calm(f)' <=> Calm(f)) /\ Under(f)' = Under(f)
    BY <1>1, <1>2 DEF Calm, Under
<1>4. \A f, R : AddedUp(f, R)' = AddedUp(f, R)
    BY <1>1, <1>2 DEF AddedUp
<1>5. QED
    BY <1>1, <1>2, <1>3, <1>4 DEF CountInv

LEMMA ListUntouched ==
    ASSUME ListInv, doing' = doing \/ {doing, doing'} \cap {"list", "listed"} = {},
           parents' = parents, present' = present, listing' = listing, walks' = walks
    PROVE  ListInv'
<1>1. Listed' = Listed /\ \A f : Kids(f)' = Kids(f)
    BY DEF Listed, Kids
<1>2. \A i : (WellPlaced(i)' <=> WellPlaced(i)) /\ (TodoIsAfter(i)' <=> TodoIsAfter(i))
    BY DEF WellPlaced, Adrift, TodoIsAfter
<1>3. \A i, j : InOrder(i, j)' <=> InOrder(i, j)
    BY DEF InOrder
<1>4. \A k : Owned(k)' <=> Owned(k)
    BY DEF Owned
<1>5. NoneForgotten' <=> NoneForgotten
    BY <1>1 DEF NoneForgotten
<1>6. QED
    BY <1>1, <1>2, <1>3, <1>4, <1>5 DEF ListInv

LEMMA PagesInitInv == PagesInit => PagesInv
<1> SUFFICES ASSUME PagesInit
             PROVE  PagesInv
    OBVIOUS
<1>1. /\ listing = <<>> /\ walks = <<>> /\ counts = <<>> /\ counted = {} /\ doing = "nothing"
      /\ DOMAIN listing = {} /\ DOMAIN walks = {} /\ DOMAIN counts = {}
    BY DEF PagesInit
<1>2. PagesTypeOK
    BY DEF PagesInit, PagesTypeOK
<1>3. Listed = {}
    BY <1>1 DEF Listed
<1>4. ListInv
    BY <1>1, <1>3 DEF ListInv
<1>5. CountInv
    BY <1>1 DEF CountInv
<1>6. QED
    BY <1>2, <1>4, <1>5 DEF PagesInv

LEMMA ListBeginInv ==
    ASSUME PagesInv, ListBegin
    PROVE  PagesInv'
<1> DEFINE w == Walk(None, 0, {})
<1>1. /\ doing = "nothing" /\ doing' = "list" /\ walks' = <<w>> /\ listing' = <<>> /\ listing = <<>>
      /\ parents' = parents /\ present' = present
      /\ counts' = counts /\ counted' = counted /\ totals' = totals
    BY DEF ListBegin, PagesInv, ListInv
<1>2. w.of = None /\ w.depth = 0 /\ w.todo = Kids(None)
    BY DEF Walk
<1>3. Kids(None)' = Kids(None) /\ Kids(None) \subseteq Ids /\ Kids(None) \subseteq present
    BY <1>1 DEF Kids, PagesInv, PagesTypeOK
<1>4. w \in [of : Ids \cup {None}, todo : SUBSET Ids, depth : Nat]
    BY <1>3 DEF Walk
<1> HIDE DEF w
<1>5. PagesTypeOK'
    BY <1>1, <1>4 DEF PagesInv, PagesTypeOK
<1>6. /\ DOMAIN walks' = {1} /\ walks'[1] = w /\ DOMAIN listing' = {}
    BY <1>1
<1>7. Listed' = {}
    BY <1>6 DEF Listed
<1>8. Owned(1)' /\ TodoIsAfter(1)'
    BY <1>2, <1>6 DEF Owned, TodoIsAfter
<1>9. NoneForgotten'
    BY <1>1, <1>2, <1>3, <1>6, <1>7 DEF NoneForgotten, Kids
<1>10. ListInv'
    BY <1>1, <1>2, <1>3, <1>6, <1>7, <1>8, <1>9 DEF ListInv
<1>11. CountInv'
    BY <1>1, CountUntouched DEF PagesInv
<1>12. QED
    BY <1>5, <1>10, <1>11 DEF PagesInv

Frame == [of : Ids \cup {None}, todo : SUBSET Ids, depth : Nat]

\* What a turn of walk does to the stack, and what it starts from.
LEMMA ListChildFacts ==
    ASSUME PagesInv, ListChild, NEW n, n = Len(walks), NEW f, f = Least(walks[n].todo)
    PROVE  /\ n \in Nat \ {0} /\ DOMAIN walks = 1 .. n
           /\ \A k \in 1 .. n : walks[k] \in Frame
           /\ walks' \in Seq(Frame) /\ DOMAIN walks' = 1 .. n + 1
           /\ \A k \in 1 .. n : walks'[k].of = walks[k].of /\ walks'[k].depth = walks[k].depth
           /\ \A k \in 1 .. n - 1 : walks'[k].todo = walks[k].todo
           /\ walks'[n].todo = walks[n].todo \ {f}
           /\ walks'[n + 1].of = f /\ walks'[n + 1].depth = walks[n].depth + 1
           /\ walks'[n + 1].todo = Kids(f) \ (Listed \cup {f})
           /\ listing' = Append(listing, Item(f, walks[n].depth))
           /\ f \in walks[n].todo /\ f \in Ids /\ \A g \in walks[n].todo : f <= g
<1>1. walks \in Seq(Frame) /\ walks # <<>>
    BY DEF ListChild, PagesInv, PagesTypeOK, Frame
<1>2. /\ n \in Nat \ {0} /\ DOMAIN walks = 1 .. n
      /\ \A k \in 1 .. n : walks[k] \in Frame
      /\ Last(walks) = walks[n]
    BY <1>1, Popped, SeqFacts
<1>3. walks[n] \in Frame
    BY <1>2
<1>4. walks[n].todo \in SUBSET Ids /\ walks[n].todo # {}
    BY <1>2, <1>3 DEF Frame, ListChild
<1>5. f \in walks[n].todo /\ f \in Ids /\ \A g \in walks[n].todo : f <= g
    BY <1>4, LeastId
<1> DEFINE t == [walks[n] EXCEPT !.todo = @ \ {f}]
           w == Walk(f, walks[n].depth + 1, Listed \cup {f})
           s == [walks EXCEPT ![n] = t]
<1>6. t \in Frame /\ t.of = walks[n].of /\ t.depth = walks[n].depth /\ t.todo = walks[n].todo \ {f}
    BY <1>3 DEF Frame
<1>7. /\ w \in Frame /\ w.of = f /\ w.depth = walks[n].depth + 1
      /\ w.todo = Kids(f) \ (Listed \cup {f})
    <2>1. Kids(f) \in SUBSET Ids
        BY DEF Kids, PagesInv, PagesTypeOK
    <2>2. walks[n].depth + 1 \in Nat
        BY <1>3 DEF Frame
    <2>3. QED
        BY <1>5, <2>1, <2>2 DEF Walk, Frame
<1>8. walks' = Append(s, w) /\ listing' = Append(listing, Item(f, walks[n].depth))
    BY <1>2 DEF ListChild
<1> HIDE DEF t, w
<1>9. n \in 1 .. Len(walks)
    BY <1>2
<1>10. s \in Seq(Frame) /\ Len(s) = n /\ \A k \in 1 .. n : s[k] = IF k = n THEN t ELSE walks[k]
    BY <1>1, <1>6, <1>9, ExceptSeq
<1> HIDE DEF s
<1>11. /\ walks' \in Seq(Frame) /\ Len(walks') = n + 1
       /\ \A k \in 1 .. n : walks'[k] = s[k]
       /\ walks'[n + 1] = w
    BY <1>7, <1>8, <1>10, AppendProperties
<1>12. DOMAIN walks' = 1 .. n + 1
    BY <1>11, SeqFacts
<1>13. \A k \in 1 .. n : walks'[k] = IF k = n THEN t ELSE walks[k]
    BY <1>10, <1>11
<1>14. \A k \in 1 .. n - 1 : walks'[k] = walks[k]
    BY <1>2, <1>13
<1>15. walks'[n] = t
    BY <1>2, <1>13
<1>16. \A k \in 1 .. n : walks'[k].of = walks[k].of /\ walks'[k].depth = walks[k].depth
    BY <1>6, <1>13
<1>17. QED
    BY <1>2, <1>5, <1>6, <1>7, <1>8, <1>11, <1>12, <1>14, <1>15, <1>16

LEMMA ListChildInv ==
    ASSUME PagesInv, ListChild
    PROVE  PagesInv'
<1>m. PICK m : m = Len(listing)
    OBVIOUS
<1>n. PICK n : n = Len(walks)
    OBVIOUS
<1>f. PICK f : f = Least(walks[n].todo)
    OBVIOUS
<1>d. PICK d : d = walks[n].depth
    OBVIOUS
<1>1. /\ n \in Nat \ {0} /\ DOMAIN walks = 1 .. n
      /\ \A k \in 1 .. n : walks[k] \in Frame
      /\ walks' \in Seq(Frame) /\ DOMAIN walks' = 1 .. n + 1
    BY <1>n, <1>f, <1>d, ListChildFacts
<1>2. /\ \A k \in 1 .. n : walks'[k].of = walks[k].of /\ walks'[k].depth = walks[k].depth
      /\ \A k \in 1 .. n - 1 : walks'[k].todo = walks[k].todo
      /\ walks'[n].todo = walks[n].todo \ {f}
      /\ walks'[n + 1].of = f /\ walks'[n + 1].depth = d + 1
      /\ walks'[n + 1].todo = Kids(f) \ (Listed \cup {f})
    BY <1>n, <1>f, <1>d, ListChildFacts
<1>3. /\ listing' = Append(listing, Item(f, d))
      /\ f \in walks[n].todo /\ f \in Ids /\ \A g \in walks[n].todo : f <= g
    BY <1>n, <1>f, <1>d, ListChildFacts
<1>4. /\ doing = "list" /\ doing' = doing /\ parents' = parents /\ present' = present
      /\ counts' = counts /\ counted' = counted /\ totals' = totals
    BY DEF ListChild, WhileListing
<1>5. /\ PagesTypeOK /\ ListInv /\ CountInv
    BY DEF PagesInv
<1>6. /\ n \in 1 .. n /\ d \in Nat /\ walks[n].of \in Ids \cup {None} /\ walks[n].todo \in SUBSET Ids
      /\ \A k \in 1 .. n : walks[k].depth \in Nat
    BY <1>1, <1>d DEF Frame
<1>7. /\ m \in Nat /\ DOMAIN listing = 1 .. m
      /\ listing' \in Seq([folder : Ids, depth : Nat])
      /\ Len(listing') = m + 1 /\ DOMAIN listing' = 1 .. m + 1
      /\ \A i \in 1 .. m : /\ listing'[i] = listing[i]
                           /\ listing[i].folder \in Ids /\ listing[i].depth \in Nat
      /\ listing'[m + 1].folder = f /\ listing'[m + 1].depth = d
      /\ Listed' = Listed \cup {f}
    BY <1>m, <1>3, <1>5, <1>6, OneMoreItem
<1>8. /\ \A i \in 1 .. m : WellPlaced(i)'
      /\ \A i, j \in 1 .. m : InOrder(i, j)'
    BY <1>m, <1>3, <1>4, <1>5, <1>6, OldItemsStay
<1>9. PagesTypeOK'
    BY <1>1, <1>4, <1>5, <1>7 DEF PagesTypeOK, Frame
<1>10. CountInv'
    BY <1>4, <1>5, CountUntouched
<1>11. /\ f \in present /\ parents[f] = walks[n].of /\ f \notin Listed
    BY <1>1, <1>3, <1>5, <1>6 DEF ListInv, Kids
<1>12. \A g : Kids(g)' = Kids(g)
    BY <1>4 DEF Kids
<1>13. None \notin Ids
    BY ForestAssumption
<1>14. \A k \in 1 .. n : /\ walks[k].of \in Listed \cup {None}
                         /\ walks[k].todo \subseteq Kids(walks[k].of) \ Listed
    BY <1>1, <1>5 DEF ListInv
<1>15. \A k \in 1 .. n - 1 : walks[k].of # walks[n].of
    BY <1>1, <1>5 DEF ListInv
<1>16. \A k \in 1 .. n - 1 : f \notin walks[k].todo
    BY <1>1, <1>11, <1>14, <1>15 DEF Kids
<1>17. \A k \in 1 .. n + 1 : k \in 1 .. n - 1 \/ k = n \/ k = n + 1
    BY <1>1
<1>18. \A i \in 1 .. m + 1 : i \in 1 .. m \/ i = m + 1
    BY <1>7
<1>19. (\A k \in DOMAIN walks : /\ walks[k].of \in Listed \cup {None}
                                /\ walks[k].todo \subseteq Kids(walks[k].of) \ Listed)'
    <2>1. ASSUME NEW k \in 1 .. n + 1
          PROVE  /\ walks'[k].of \in Listed' \cup {None}
                 /\ walks'[k].todo \subseteq Kids(walks'[k].of) \ Listed'
        <3>1. CASE k \in 1 .. n - 1
            <4>1. k \in 1 .. n /\ walks'[k].of = walks[k].of /\ walks'[k].todo = walks[k].todo
                BY <1>1, <1>2, <3>1
            <4>2. QED
                BY <1>7, <1>14, <1>16, <3>1, <4>1
        <3>2. CASE k = n
            <4>1. walks'[n].of = walks[n].of /\ walks'[n].todo = walks[n].todo \ {f}
                BY <1>2, <1>6
            <4>2. QED
                BY <1>6, <1>7, <1>14, <3>2, <4>1
        <3>3. CASE k = n + 1
            BY <1>2, <1>7, <3>3
        <3>4. QED
            BY <1>17, <3>1, <3>2, <3>3
    <2>2. QED
        BY <1>1, <1>12, <2>1
<1>20. \A k \in 1 .. n : walks[k].of # f
    BY <1>11, <1>13, <1>14, <1>3
<1>21. (\A j, k \in DOMAIN walks : walks[j].of = walks[k].of => j = k)'
    <2>1. \A j, k \in 1 .. n : walks[j].of = walks[k].of => j = k
        BY <1>1, <1>5 DEF ListInv
    <2>2. \A k \in 1 .. n + 1 : k \in 1 .. n \/ k = n + 1
        BY <1>1
    <2>3. \A j, k \in 1 .. n + 1 : walks'[j].of = walks'[k].of => j = k
        BY <1>2, <1>20, <2>1, <2>2
    <2>4. QED
        BY <1>1, <2>3
<1>22. (\A j, k \in DOMAIN walks : j <= k => walks[j].depth <= walks[k].depth)'
    <2>1. \A j, k \in 1 .. n : j <= k => walks[j].depth <= walks[k].depth
        BY <1>1, <1>5 DEF ListInv
    <2>2. \A k \in 1 .. n : walks[k].depth <= d
        BY <1>d, <1>1, <1>6, <2>1
    <2>3. \A k \in 1 .. n + 1 : k \in 1 .. n \/ k = n + 1
        BY <1>1
    <2>4. ASSUME NEW j \in 1 .. n + 1, NEW k \in 1 .. n + 1, j <= k
          PROVE  walks'[j].depth <= walks'[k].depth
        <3>1. CASE k \in 1 .. n
            <4>1. j \in 1 .. n
                BY <1>1, <2>4, <3>1
            <4>2. QED
                BY <1>2, <2>1, <2>4, <3>1, <4>1
        <3>2. CASE k = n + 1
            <4>1. CASE j = n + 1
                BY <1>2, <1>6, <3>2, <4>1
            <4>2. CASE j \in 1 .. n
                <5>1. walks[j].depth <= d /\ walks[j].depth \in Nat
                    BY <1>6, <2>2, <4>2
                <5>2. walks'[j].depth = walks[j].depth /\ walks'[k].depth = d + 1
                    BY <1>2, <3>2, <4>2
                <5>3. QED
                    BY <1>6, <5>1, <5>2
            <4>3. QED
                BY <2>3, <4>1, <4>2
        <3>3. QED
            BY <2>3, <3>1, <3>2
    <2>5. QED
        BY <1>1, <2>4
<1>23. ASSUME NEW k \in 1 .. n + 1
       PROVE  Owned(k)'
    <2>1. CASE k = n + 1
        <3>1. walks'[k].of # None /\ walks'[k].of = f /\ walks'[k].depth = d + 1
            BY <1>2, <1>3, <1>13, <2>1
        <3>2. /\ m + 1 \in DOMAIN listing' /\ listing'[m + 1].folder = f /\ listing'[m + 1].depth = d
              /\ \A i \in m + 1 + 1 .. Len(listing') : FALSE
            BY <1>7
        <3>3. QED
            BY <3>1, <3>2 DEF Owned
    <2>2. CASE k \in 1 .. n
        <3>1. Owned(k) /\ walks'[k].of = walks[k].of /\ walks'[k].depth = walks[k].depth
            BY <1>1, <1>2, <1>5, <2>2 DEF ListInv
        <3>2. walks[k].depth <= d
            BY <1>d, <1>1, <1>5, <2>2, <1>6 DEF ListInv
        <3>3. CASE walks[k].of = None
            BY <3>1, <3>3 DEF Owned
        <3>4. CASE walks[k].of # None
            <4>1. PICK j \in DOMAIN listing :
                    /\ listing[j].folder = walks[k].of
                    /\ walks[k].depth = listing[j].depth + 1
                    /\ \A i \in j + 1 .. Len(listing) : listing[i].depth >= walks[k].depth
                BY <3>1, <3>4 DEF Owned
            <4>2. j \in 1 .. m /\ j \in DOMAIN listing' /\ listing'[j] = listing[j]
                BY <1>7, <4>1
            <4>3. ASSUME NEW i \in j + 1 .. m + 1
                  PROVE  listing'[i].depth >= walks[k].depth
                <5>1. CASE i \in 1 .. m
                    <6>1. i \in j + 1 .. Len(listing)
                        BY <1>m, <1>7, <4>2, <5>1
                    <6>2. QED
                        BY <1>7, <4>1, <5>1, <6>1
                <5>2. CASE i = m + 1
                    BY <1>6, <1>7, <2>2, <3>2, <5>2
                <5>3. QED
                    BY <1>7, <4>2, <5>1, <5>2
            <4>4. QED
                BY <1>7, <3>1, <3>4, <4>1, <4>2, <4>3 DEF Owned
        <3>5. QED
            BY <3>3, <3>4
    <2>3. QED
        BY <1>1, <2>1, <2>2
<1>24. ASSUME NEW q, q = m + 1
       PROVE  WellPlaced(q)'
    <2>1. Owned(n)
        BY <1>1, <1>5 DEF ListInv
    <2>2. CASE walks[n].of = None
        <3>1. d = 0 /\ parents'[f] = None
            BY <1>d, <1>4, <1>11, <2>1, <2>2 DEF Owned
        <3>2. QED
            BY <1>7, <1>24, <3>1 DEF WellPlaced
    <2>3. CASE walks[n].of # None
        <3>1. PICK j \in DOMAIN listing :
                /\ listing[j].folder = walks[n].of
                /\ d = listing[j].depth + 1
                /\ \A i \in j + 1 .. Len(listing) : listing[i].depth >= d
            BY <1>d, <2>1, <2>3 DEF Owned
        <3>2. j \in 1 .. q - 1 /\ listing'[j] = listing[j]
            BY <1>7, <1>24, <3>1
        <3>3. \A i \in j + 1 .. q - 1 : i \in j + 1 .. Len(listing) /\ listing'[i] = listing[i]
            BY <1>m, <1>7, <1>24, <3>2
        <3>4. /\ listing'[j].folder = parents'[listing'[q].folder]
              /\ listing'[q].depth = listing'[j].depth + 1
              /\ \A i \in j + 1 .. q - 1 : listing'[i].depth >= listing'[q].depth
            BY <1>4, <1>7, <1>11, <1>24, <3>1, <3>2, <3>3
        <3>5. QED
            BY <3>2, <3>4, PlacedUnder
    <2>4. QED
        BY <2>2, <2>3
<1>25. ASSUME NEW i \in 1 .. m + 1, NEW j \in 1 .. m + 1
       PROVE  InOrder(i, j)'
    <2>1. CASE i \in 1 .. m /\ j \in 1 .. m
        BY <1>8, <2>1
    <2>2. CASE i \in 1 .. m /\ j = m + 1
        <3>1. TodoIsAfter(n)
            BY <1>1, <1>5 DEF ListInv
        <3>2. walks[n].of = None => d = 0
            <4>1. Owned(n)
                BY <1>1, <1>5 DEF ListInv
            <4>2. QED
                BY <1>d, <4>1 DEF Owned
        <3>3. ASSUME parents[listing[i].folder] = walks[n].of,
                     listing[i].depth > 0 \/ walks[n].of = None
              PROVE  listing[i].folder < f
            BY <1>3, <1>7, <2>2, <3>1, <3>3 DEF TodoIsAfter
        <3>4. listing'[i] = listing[i] /\ listing'[j].folder = f
            BY <1>7, <2>2
        <3>5. QED
            BY <1>4, <1>11, <3>3, <3>4 DEF InOrder
    <2>3. CASE i = m + 1
        <3>1. ~(i < j)
            BY <1>7, <2>3
        <3>2. QED
            BY <3>1 DEF InOrder
    <2>4. QED
        BY <1>18, <2>1, <2>2, <2>3
<1>26. ASSUME NEW k \in 1 .. n + 1
       PROVE  TodoIsAfter(k)'
    <2> SUFFICES ASSUME NEW i \in 1 .. m + 1,
                        parents[listing'[i].folder] = walks'[k].of,
                        listing'[i].depth > 0 \/ walks'[k].of = None,
                        NEW g \in walks'[k].todo
                 PROVE  listing'[i].folder < g
        BY <1>4, <1>7 DEF TodoIsAfter
    <2>1. CASE k = n + 1
        <3>1. walks'[k].of = f /\ parents[listing'[i].folder] = f /\ listing'[i].depth > 0
            BY <1>2, <1>3, <1>13, <2>1
        <3>2. WellPlaced(i)'
            BY <1>8, <1>18, <1>24
        <3>3. listing'[i].depth # 0
            BY <3>1
        <3>4. PICK j \in 1 .. i - 1 : listing'[j].folder = f
            BY <1>4, <3>1, <3>2, <3>3 DEF WellPlaced
        <3>5. j \in 1 .. m /\ listing[j].folder = f
            BY <1>7, <1>18, <3>4
        <3>6. f \in Listed
            BY <1>7, <3>5 DEF Listed
        <3>7. QED
            BY <1>11, <3>6
    <2>2. CASE k \in 1 .. n
        <3>1. /\ TodoIsAfter(k) /\ walks'[k].of = walks[k].of
              /\ walks'[k].todo \subseteq walks[k].todo
            <4>1. TodoIsAfter(k) /\ walks'[k].of = walks[k].of
                BY <1>1, <1>2, <1>5, <2>2 DEF ListInv
            <4>2. k \in 1 .. n - 1 \/ k = n
                BY <1>1, <2>2
            <4>3. QED
                BY <1>2, <4>1, <4>2
        <3>2. CASE i \in 1 .. m
            <4>1. listing'[i] = listing[i] /\ i \in DOMAIN listing
                BY <1>7, <3>2
            <4>2. QED
                BY <3>1, <4>1 DEF TodoIsAfter
        <3>3. CASE i = m + 1
            <4>1. listing'[i].folder = f /\ parents[f] = walks[k].of
                BY <1>7, <3>1, <3>3
            <4>2. k = n
                BY <1>1, <1>11, <1>15, <2>2, <4>1
            <4>3. g \in walks[n].todo /\ g # f /\ g \in Ids
                BY <1>2, <1>6, <4>2
            <4>4. f <= g /\ f \in Nat /\ g \in Nat
                BY <1>3, <4>3, ForestAssumption DEF Ids
            <4>5. QED
                BY <4>1, <4>3, <4>4
        <3>4. QED
            BY <1>18, <3>2, <3>3
    <2>3. QED
        BY <1>17, <1>1, <2>1, <2>2
<1>27. NoneForgotten'
    <2> SUFFICES ASSUME NEW g \in present, parents[g] \in Listed' \cup {None}, g \notin Listed'
                 PROVE  \E k \in 1 .. n + 1 : g \in walks'[k].todo
        BY <1>1, <1>4 DEF NoneForgotten
    <2>1. g # f /\ g \notin Listed
        BY <1>7
    <2>2. CASE parents[g] = f
        <3>1. g \in walks'[n + 1].todo /\ n + 1 \in 1 .. n + 1
            BY <1>1, <1>2, <2>1, <2>2 DEF Kids
        <3>2. QED
            BY <3>1
    <2>3. CASE parents[g] # f
        <3>1. parents[g] \in Listed \cup {None}
            BY <1>7, <2>3
        <3>2. PICK k \in 1 .. n : g \in walks[k].todo
            BY <1>1, <1>4, <1>5, <2>1, <3>1 DEF ListInv, NoneForgotten
        <3>3. k \in 1 .. n - 1 \/ k = n
            BY <1>1, <3>2
        <3>4. g \in walks'[k].todo /\ k \in 1 .. n + 1
            BY <1>1, <1>2, <2>1, <3>2, <3>3
        <3>5. QED
            BY <3>4
    <2>4. QED
        BY <2>2, <2>3
<1>28. (\A i, j \in DOMAIN listing : listing[i].folder = listing[j].folder => i = j)'
    <2>1. \A i, j \in 1 .. m : listing[i].folder = listing[j].folder => i = j
        BY <1>5, <1>7 DEF ListInv
    <2>2. \A i \in 1 .. m : listing[i].folder # f
        BY <1>7, <1>11 DEF Listed
    <2>3. \A i \in 1 .. m : listing'[i].folder = listing[i].folder
        BY <1>7
    <2>4. \A i, j \in 1 .. m + 1 : listing'[i].folder = listing'[j].folder => i = j
        BY <1>7, <1>18, <2>1, <2>2, <2>3
    <2>5. QED
        BY <1>7, <2>4
<1>29. Listed' \subseteq present'
    BY <1>4, <1>5, <1>7, <1>11 DEF ListInv
<1>30. \A i \in DOMAIN listing' : WellPlaced(i)'
    BY <1>7, <1>8, <1>18, <1>24
<1>31. ListInv'
    BY <1>1, <1>4, <1>7, <1>19, <1>21, <1>22, <1>23, <1>25, <1>26, <1>27, <1>28, <1>29, <1>30 DEF ListInv
<1>32. QED
    BY <1>9, <1>10, <1>31 DEF PagesInv

LEMMA WalkReturnsInv ==
    ASSUME PagesInv, WalkReturns
    PROVE  PagesInv'
<1>n. PICK n : n = Len(walks)
    OBVIOUS
<1>1. walks \in Seq(Frame) /\ walks # <<>>
    BY DEF WalkReturns, PagesInv, PagesTypeOK, Frame
<1>2. /\ doing = "list" /\ doing' = doing /\ parents' = parents /\ present' = present
      /\ counts' = counts /\ counted' = counted /\ totals' = totals
      /\ listing' = listing /\ walks' = Front(walks) /\ Last(walks).todo = {}
    BY DEF WalkReturns, WhileListing
<1>3. /\ n \in Nat \ {0} /\ DOMAIN walks = 1 .. n /\ walks[n].todo = {}
      /\ walks' \in Seq(Frame) /\ DOMAIN walks' = 1 .. n - 1
      /\ \A k \in 1 .. n - 1 : walks'[k] = walks[k]
    BY <1>n, <1>1, <1>2, Popped, SeqFacts
<1>4. PagesTypeOK'
    BY <1>2, <1>3 DEF PagesInv, PagesTypeOK, Frame
<1>5. CountInv'
    BY <1>2, CountUntouched DEF PagesInv
<1>6. \A k \in 1 .. n - 1 : k \in 1 .. n
    BY <1>3
<1>7. Listed' = Listed /\ \A f : Kids(f)' = Kids(f)
    BY <1>2 DEF Listed, Kids
<1>8. \A k \in 1 .. n - 1 : (Owned(k) => Owned(k)') /\ (TodoIsAfter(k) => TodoIsAfter(k)')
    BY <1>2, <1>3 DEF Owned, TodoIsAfter
<1>9. NoneForgotten'
    <2> SUFFICES ASSUME NEW g \in present, parents[g] \in Listed \cup {None}, g \notin Listed
                 PROVE  \E k \in 1 .. n - 1 : g \in walks'[k].todo
        BY <1>2, <1>3, <1>7 DEF NoneForgotten
    <2>1. PICK k \in 1 .. n : g \in walks[k].todo
        BY <1>2, <1>3 DEF PagesInv, ListInv, NoneForgotten
    <2>2. k \in 1 .. n - 1
        BY <1>3, <2>1
    <2>3. QED
        BY <1>3, <2>1, <2>2
<1>10. \A i : WellPlaced(i)' <=> WellPlaced(i)
    BY <1>2 DEF WellPlaced, Adrift
<1>11. \A i, j : InOrder(i, j)' <=> InOrder(i, j)
    BY <1>2 DEF InOrder
<1>12. ListInv'
    <2>1. ListInv
        BY DEF PagesInv
    <2>2. \A k \in DOMAIN walks' : k \in DOMAIN walks /\ walks'[k] = walks[k] /\ k \in 1 .. n - 1
        BY <1>3, <1>6
    <2>3. (\A k \in DOMAIN walks : /\ walks[k].of \in Listed \cup {None}
                                   /\ walks[k].todo \subseteq Kids(walks[k].of) \ Listed)'
        BY <1>7, <2>1, <2>2 DEF ListInv
    <2>4. (\A j, k \in DOMAIN walks : walks[j].of = walks[k].of => j = k)'
        <3>1. \A j, k \in DOMAIN walks : walks[j].of = walks[k].of => j = k
            BY <2>1 DEF ListInv
        <3>2. QED
            BY <2>2, <3>1
    <2>5. (\A j, k \in DOMAIN walks : j <= k => walks[j].depth <= walks[k].depth)'
        <3>1. \A j, k \in DOMAIN walks : j <= k => walks[j].depth <= walks[k].depth
            BY <2>1 DEF ListInv
        <3>2. QED
            BY <2>2, <3>1
    <2>6. \A k \in DOMAIN walks' : Owned(k)' /\ TodoIsAfter(k)'
        BY <1>8, <2>1, <2>2 DEF ListInv
    <2>7. QED
        BY <1>2, <1>7, <1>9, <1>10, <1>11, <2>1, <2>3, <2>4, <2>5, <2>6 DEF ListInv
<1>13. QED
    BY <1>4, <1>5, <1>12 DEF PagesInv

\* No root is above a folder no walk has met.
LEMMA StraysAreAdrift ==
    ASSUME PagesInv, doing = "list", walks = <<>>, NEW f \in present \ Listed
    PROVE  Adrift(f)
<1> DEFINE A == Ids \ Listed
<1>1. /\ present \subseteq Ids /\ \A g \in Ids \ present : parents[g] = None
      /\ parents \in [Ids -> Ids \cup {None}]
    BY DEF PagesInv, PagesTypeOK, Table
<1>2. \A g \in present : parents[g] \in Listed \cup {None} => g \in Listed
    BY DEF PagesInv, ListInv, NoneForgotten
<1>3. Closed(parents, A)
    BY <1>1, <1>2 DEF Closed
<1>4. f \in A /\ A \in SUBSET Ids /\ f \in Ids
    BY <1>1
<1>5. Up(parents, f) \subseteq A
    BY <1>1, <1>3, <1>4, UpClosed
<1>6. QED
    BY <1>2, <1>5 DEF Adrift

LEMMA ListStrayInv ==
    ASSUME PagesInv, ListStray
    PROVE  PagesInv'
<1>m. PICK m : m = Len(listing)
    OBVIOUS
<1>f. PICK f : f = Least(present \ Listed)
    OBVIOUS
<1>w. PICK w : w = Walk(f, 1, Listed \cup {f})
    OBVIOUS
<1>1. /\ doing = "list" /\ doing' = doing /\ parents' = parents /\ present' = present
      /\ counts' = counts /\ counted' = counted /\ totals' = totals
      /\ walks = <<>> /\ walks' = <<w>> /\ listing' = Append(listing, Item(f, 0))
    BY <1>f, <1>w DEF ListStray, WhileListing
<1>2. /\ PagesTypeOK /\ ListInv /\ CountInv
    BY DEF PagesInv
<1>3. f \in present /\ f \notin Listed /\ f \in Ids
    <2>1. present \ Listed \in SUBSET Ids /\ present \ Listed # {}
        BY <1>2 DEF PagesTypeOK, ListStray
    <2>2. QED
        BY <1>f, <2>1, LeastId
<1>4. /\ w.of = f /\ w.depth = 1 /\ w.todo = Kids(f) \ (Listed \cup {f}) /\ w \in Frame
    BY <1>2, <1>3, <1>w DEF Walk, Frame, Kids, PagesTypeOK
<1>5. DOMAIN walks' = {1} /\ walks'[1] = w /\ walks' \in Seq(Frame)
    BY <1>1, <1>4
<1>6. /\ m \in Nat /\ DOMAIN listing = 1 .. m
      /\ listing' \in Seq([folder : Ids, depth : Nat])
      /\ Len(listing') = m + 1 /\ DOMAIN listing' = 1 .. m + 1
      /\ \A i \in 1 .. m : /\ listing'[i] = listing[i]
                           /\ listing[i].folder \in Ids /\ listing[i].depth \in Nat
      /\ listing'[m + 1].folder = f /\ listing'[m + 1].depth = 0
      /\ Listed' = Listed \cup {f}
    BY <1>m, <1>1, <1>2, <1>3, OneMoreItem
<1>7. /\ \A i \in 1 .. m : WellPlaced(i)'
      /\ \A i, j \in 1 .. m : InOrder(i, j)'
    BY <1>m, <1>1, <1>2, <1>3, OldItemsStay
<1>8. \A i \in 1 .. m + 1 : i \in 1 .. m \/ i = m + 1
    BY <1>6
<1>9. PagesTypeOK'
    BY <1>1, <1>2, <1>5, <1>6 DEF PagesTypeOK, Frame
<1>10. CountInv'
    BY <1>1, <1>2, CountUntouched
<1>11. Adrift(f) /\ parents[f] # None
    <2>1. Adrift(f)
        BY <1>1, <1>3, StraysAreAdrift
    <2>2. parents[f] # None
        BY <1>1, <1>2, <1>3 DEF ListInv, NoneForgotten
    <2>3. QED
        BY <2>1, <2>2
<1>12. \A g : Kids(g)' = Kids(g)
    BY <1>1 DEF Kids
<1>13. WellPlaced(m + 1)'
    <2>1. Adrift(f)'
        BY <1>1, <1>11 DEF Adrift
    <2>2. QED
        BY <1>6, <2>1 DEF WellPlaced
<1>14. ASSUME NEW i \in 1 .. m + 1, NEW j \in 1 .. m + 1
       PROVE  InOrder(i, j)'
    <2>1. CASE i \in 1 .. m /\ j \in 1 .. m
        BY <1>7, <2>1
    <2>2. CASE i \in 1 .. m /\ j = m + 1
        BY <1>1, <1>6, <1>11, <2>2 DEF InOrder
    <2>3. CASE i = m + 1
        <3>1. ~(i < j)
            BY <1>6, <2>3
        <3>2. QED
            BY <3>1 DEF InOrder
    <2>4. QED
        BY <1>8, <2>1, <2>2, <2>3
<1>15. Owned(1)'
    <2>1. f # None
        BY <1>3, ForestAssumption
    <2>2. /\ m + 1 \in DOMAIN listing' /\ listing'[m + 1].folder = f /\ listing'[m + 1].depth = 0
          /\ \A i \in m + 1 + 1 .. Len(listing') : FALSE
        BY <1>6
    <2>3. QED
        BY <1>4, <1>5, <2>1, <2>2 DEF Owned
<1>16. TodoIsAfter(1)'
    <2> SUFFICES ASSUME NEW i \in 1 .. m + 1, parents[listing'[i].folder] = f,
                        listing'[i].depth > 0
                 PROVE  FALSE
        BY <1>1, <1>3, <1>4, <1>5, <1>6, ForestAssumption DEF TodoIsAfter
    <2>2. listing'[i].depth # 0
        OBVIOUS
    <2>1. i \in 1 .. m
        BY <1>6, <1>8, <2>2
    <2>6. WellPlaced(i)'
        BY <1>7, <2>1
    <2>3. PICK j \in 1 .. i - 1 : listing'[j].folder = f
        BY <1>1, <2>2, <2>6 DEF WellPlaced
    <2>4. j \in 1 .. m /\ listing[j].folder = f
        BY <1>6, <2>1, <2>3
    <2>5. QED
        BY <1>3, <1>6, <2>4 DEF Listed
<1>17. NoneForgotten'
    <2> SUFFICES ASSUME NEW g \in present, parents[g] \in Listed \cup {f, None},
                        g \notin Listed, g # f
                 PROVE  g \in w.todo
        BY <1>1, <1>5, <1>6 DEF NoneForgotten
    <2>1. parents[g] = f
        BY <1>1, <1>2 DEF ListInv, NoneForgotten
    <2>2. QED
        BY <1>4, <2>1 DEF Kids
<1>18. (\A i, j \in DOMAIN listing : listing[i].folder = listing[j].folder => i = j)'
    <2>1. \A i, j \in 1 .. m : listing[i].folder = listing[j].folder => i = j
        BY <1>2, <1>6 DEF ListInv
    <2>2. \A i \in 1 .. m : listing[i].folder # f
        BY <1>3, <1>6 DEF Listed
    <2>3. \A i \in 1 .. m : listing'[i].folder = listing[i].folder
        BY <1>6
    <2>4. \A i, j \in 1 .. m + 1 : listing'[i].folder = listing'[j].folder => i = j
        BY <1>6, <1>8, <2>1, <2>2, <2>3
    <2>5. QED
        BY <1>6, <2>4
<1>19. \A i \in DOMAIN listing' : WellPlaced(i)'
    BY <1>6, <1>7, <1>8, <1>13
<1>20. Listed' \subseteq present'
    BY <1>1, <1>2, <1>3, <1>6 DEF ListInv
<1>21. ListInv'
    <2>1. /\ \A k \in DOMAIN walks' : k = 1 /\ walks'[k].of \in Listed'
                                      /\ walks'[k].todo \subseteq Kids(walks'[k].of) \ Listed'
        BY <1>4, <1>5, <1>6
    <2>2. (\A j, k \in DOMAIN walks : j <= k => walks[j].depth <= walks[k].depth)'
        BY <1>4, <1>5
    <2>3. QED
        BY <1>1, <1>6, <1>12, <1>14, <1>15, <1>16, <1>17, <1>18, <1>19, <1>20, <2>1, <2>2 DEF ListInv
<1>22. QED
    BY <1>9, <1>10, <1>21 DEF PagesInv

LEMMA ListOverInv ==
    ASSUME PagesInv, ListOver
    PROVE  PagesInv'
<1>1. PagesTypeOK'
    BY DEF PagesInv, PagesTypeOK, ListOver
<1>2. CountInv'
    BY CountUntouched DEF PagesInv, ListOver
<1>3. Listed' = Listed /\ \A f : Kids(f)' = Kids(f)
    BY DEF Listed, Kids, ListOver
<1>4. \A i : (WellPlaced(i)' <=> WellPlaced(i)) /\ \A j : InOrder(i, j)' <=> InOrder(i, j)
    BY DEF WellPlaced, Adrift, InOrder, ListOver
<1>5. DOMAIN walks' = {} /\ present' \subseteq Listed'
    BY <1>3 DEF ListOver
<1>6. ListInv'
    BY <1>3, <1>4, <1>5 DEF PagesInv, ListInv, ListOver
<1>7. QED
    BY <1>1, <1>2, <1>6 DEF PagesInv

-----------------------------------------------------------------------------
(* The steps of folder_cumulative_counts *)

LEMMA LinksFinite ==
    ASSUME NEW S \in SUBSET Links
    PROVE  IsFiniteSet(S) /\ Cardinality(S) \in Nat
    BY LinksAssumption, FS_Subset, FS_CardinalityType

CountFrame == [of : Ids, todo : SUBSET Ids, total : Nat]

\* A call starts with all the children of its folder and its own links.
LEMMA FirstCount ==
    ASSUME PagesInv, NEW f \in present
    PROVE  /\ Count(f) \in CountFrame
           /\ Count(f).of = f /\ Count(f).todo = ChildrenOf(f)
           /\ Count(f).total = Cardinality(Direct(f))
<1>1. f \in Ids /\ f # None
    BY ForestAssumption DEF PagesInv, PagesTypeOK
<1>2. Kids(f) = ChildrenOf(f) /\ Kids(f) \in SUBSET Ids
    BY <1>1 DEF PagesInv, PagesTypeOK, Kids, ChildrenOf
<1>3. Cardinality(Direct(f)) \in Nat
    BY LinksFinite DEF Direct
<1>4. QED
    BY <1>1, <1>2, <1>3 DEF Count, CountFrame

\* What no step of the count changes.
LEMMA SameRows ==
    ASSUME parents' = parents
    PROVE  /\ \A f : ChildrenOf(f)' = ChildrenOf(f) /\ Below(f)' = Below(f)
           /\ \A f : (Calm(f)' <=> Calm(f)) /\ Under(f)' = Under(f)
           /\ \A f, R : AddedUp(f, R)' = AddedUp(f, R)
<1>1. \A f : ChildrenOf(f)' = ChildrenOf(f)
    BY DEF ChildrenOf
<1>2. \A f : Below(f)' = Below(f)
    BY <1>1 DEF Below
<1>3. QED
    BY <1>1, <1>2 DEF Calm, Under, AddedUp

LEMMA CountBeginInv ==
    ASSUME PagesInv, CountBegin
    PROVE  PagesInv'
<1>1. PagesTypeOK'
    BY DEF PagesInv, PagesTypeOK, CountBegin
<1>2. ListInv'
    BY ListUntouched DEF PagesInv, CountBegin
<1>3. /\ parents' = parents /\ counts' = <<>> /\ counted' = {} /\ doing' = "count"
      /\ DOMAIN counts' = {}
    BY DEF PagesInv, CountInv, CountBegin
<1>4. CountInv'
    BY <1>3 DEF CountInv
<1>5. QED
    BY <1>1, <1>2, <1>4 DEF PagesInv

LEMMA CountNextInv ==
    ASSUME PagesInv, CountNext
    PROVE  PagesInv'
<1>f. PICK f : f = Least(present \ counted)
    OBVIOUS
<1>c. PICK c : c = Count(f)
    OBVIOUS
<1>1. /\ doing = "count" /\ doing' = doing /\ parents' = parents /\ present' = present
      /\ counted' = counted /\ totals' = totals /\ listing' = listing /\ walks' = walks
      /\ counts' = <<c>>
    BY <1>f, <1>c DEF CountNext, WhileCounting
<1>2. f \in present /\ f \notin counted /\ f \in Ids
    <2>1. present \ counted \in SUBSET Ids /\ present \ counted # {}
        BY DEF PagesInv, PagesTypeOK, CountNext
    <2>2. QED
        BY <1>f, <2>1, LeastId
<1>3. c \in CountFrame /\ c.of = f /\ c.todo = ChildrenOf(f) /\ c.total = Cardinality(Direct(f))
    BY <1>c, <1>2, FirstCount
<1>4. DOMAIN counts' = {1} /\ counts'[1] = c /\ counts' \in Seq(CountFrame)
    BY <1>1, <1>3
<1>5. PagesTypeOK'
    BY <1>1, <1>4 DEF PagesInv, PagesTypeOK, CountFrame
<1>6. ListInv'
    BY <1>1, ListUntouched DEF PagesInv
<1>7. /\ \A g : ChildrenOf(g)' = ChildrenOf(g) /\ Below(g)' = Below(g)
      /\ \A g : (Calm(g)' <=> Calm(g)) /\ Under(g)' = Under(g)
      /\ \A g, R : AddedUp(g, R)' = AddedUp(g, R)
    BY <1>1, SameRows
<1>8. AddedUp(c.of, c.todo) = Direct(f)
    BY <1>3 DEF AddedUp, Direct
<1>9. \A k \in DOMAIN counts' : k = 1
    BY <1>4
<1>10. f \in Below(f)
    BY <1>2, BelowClosed
<1>11. CountInv'
    BY <1>1, <1>2, <1>3, <1>4, <1>7, <1>8, <1>9, <1>10 DEF PagesInv, CountInv
<1>12. QED
    BY <1>5, <1>6, <1>11 DEF PagesInv

\* What the call on top reads.
LEMMA TopFacts ==
    ASSUME PagesInv, counts # <<>>, NEW n, n = Len(counts)
    PROVE  /\ n \in Nat \ {0} /\ DOMAIN counts = 1 .. n /\ counts \in Seq(CountFrame)
           /\ n \in 1 .. Len(counts) /\ n \in 1 .. n
           /\ \A k \in 1 .. n : counts[k] \in CountFrame
           /\ Last(counts) = counts[n]
           /\ counts[n].of \in Ids /\ counts[n].todo \in SUBSET Ids /\ counts[n].total \in Nat
           /\ counts[n].of \in present /\ counts[n].of \notin counted
           /\ counts[n].todo \subseteq ChildrenOf(counts[n].of)
           /\ ChildrenOf(counts[n].of) \subseteq present
<1>1. counts \in Seq(CountFrame)
    BY DEF PagesInv, PagesTypeOK, CountFrame
<1>2. /\ n \in Nat \ {0} /\ DOMAIN counts = 1 .. n
      /\ \A k \in 1 .. n : counts[k] \in CountFrame
      /\ Last(counts) = counts[n]
    BY <1>1, Popped, SeqFacts
<1>3. n \in 1 .. Len(counts) /\ n \in 1 .. n
    BY <1>2
<1>4. counts[n] \in CountFrame
    BY <1>2, <1>3
<1>5. /\ counts[n].of \in present /\ counts[n].of \notin counted
      /\ counts[n].todo \subseteq ChildrenOf(counts[n].of)
    BY <1>2, <1>3 DEF PagesInv, CountInv
<1>6. ChildrenOf(counts[n].of) \subseteq present
    <2>1. counts[n].of # None
        BY <1>4, ForestAssumption DEF CountFrame
    <2>2. QED
        BY <2>1 DEF ChildrenOf, PagesInv, PagesTypeOK
<1>7. QED
    BY <1>1, <1>2, <1>3, <1>4, <1>5, <1>6 DEF CountFrame

\* A change of the call on top to t.
LEMMA TopChanged ==
    ASSUME PagesInv, counts # <<>>, doing = "count", WhileCounting,
           counted' = counted, totals' = totals,
           NEW n, n = Len(counts), NEW t \in CountFrame,
           counts' = [counts EXCEPT ![n] = t], t.of = counts[n].of,
           NEW c \in counts[n].todo, t.todo = counts[n].todo \ {c},
           Calm(t.of) =>
               t.total = Cardinality(AddedUp(t.of, t.todo))
    PROVE  PagesInv'
<1>1. /\ doing' = doing /\ parents' = parents /\ present' = present
      /\ listing' = listing /\ walks' = walks
    BY DEF WhileCounting
<1>2. /\ n \in Nat \ {0} /\ DOMAIN counts = 1 .. n /\ counts \in Seq(CountFrame)
      /\ n \in 1 .. Len(counts) /\ n \in 1 .. n
      /\ \A k \in 1 .. n : counts[k] \in CountFrame
    BY TopFacts
<1>3. /\ counts' \in Seq(CountFrame) /\ Len(counts') = n
      /\ \A k \in 1 .. n : counts'[k] = IF k = n THEN t ELSE counts[k]
    BY <1>2, ExceptSeq
<1>4. DOMAIN counts' = 1 .. n
    BY <1>3, SeqFacts
<1>5. PagesTypeOK'
    BY <1>1, <1>3 DEF PagesInv, PagesTypeOK, CountFrame
<1>6. ListInv'
    BY <1>1, ListUntouched DEF PagesInv
<1>7. /\ \A g : ChildrenOf(g)' = ChildrenOf(g) /\ Below(g)' = Below(g)
      /\ \A g : (Calm(g)' <=> Calm(g)) /\ Under(g)' = Under(g)
      /\ \A g, R : AddedUp(g, R)' = AddedUp(g, R)
    BY <1>1, SameRows
<1>8. \A k \in 1 .. n : counts'[k].of = counts[k].of /\ counts'[k].todo \subseteq counts[k].todo
    BY <1>3
<1>9. CountInv
    BY DEF PagesInv
<1>10. \A k \in DOMAIN counts' : /\ counts'[k].of \in present' \ counted'
                                 /\ counts'[k].todo \subseteq ChildrenOf(counts'[k].of)
    BY <1>1, <1>2, <1>4, <1>8, <1>9 DEF CountInv
<1>11. (\A j, k \in DOMAIN counts : counts[j].of = counts[k].of => j = k)'
    <2>1. \A j, k \in 1 .. n : counts[j].of = counts[k].of => j = k
        BY <1>2, <1>9 DEF CountInv
    <2>2. QED
        BY <1>4, <1>8, <2>1
<1>12. (\A j, k \in DOMAIN counts : j <= k => counts[k].of \in Below(counts[j].of))'
    <2>1. \A j, k \in 1 .. n : j <= k => counts[k].of \in Below(counts[j].of)
        BY <1>2, <1>9 DEF CountInv
    <2>2. QED
        BY <1>4, <1>7, <1>8, <2>1
<1>13. (\A k \in DOMAIN counts : Calm(counts[k].of) =>
            counts[k].total = Cardinality(AddedUp(counts[k].of, counts[k].todo)))'
    <2>1. \A k \in 1 .. n : Calm(counts[k].of) =>
              counts[k].total = Cardinality(AddedUp(counts[k].of, counts[k].todo))
        BY <1>2, <1>9 DEF CountInv
    <2>2. \A k \in 1 .. n : Calm(counts'[k].of) =>
              counts'[k].total = Cardinality(AddedUp(counts'[k].of, counts'[k].todo))
        BY ZenonT(60), <1>3, <2>1
    <2>3. QED
        BY <1>4, <1>7, <2>2
<1>15. CountInv'
    BY <1>1, <1>7, <1>9, <1>10, <1>11, <1>12, <1>13 DEF CountInv
<1>16. QED
    BY <1>5, <1>6, <1>15 DEF PagesInv

\* What a call adds up grows by the links below the child it takes.
LEMMA MoreAddedUp ==
    ASSUME PagesInv, NEW f \in Ids, Calm(f), NEW R \in SUBSET ChildrenOf(f), NEW c \in R
    PROVE  Cardinality(AddedUp(f, R \ {c})) = Cardinality(AddedUp(f, R)) + Cardinality(Under(c))
<1> DEFINE A == AddedUp(f, R)
           B == Under(c)
           C == AddedUp(f, R \ {c})
<1>1. C = A \cup B
    <2>1. ChildrenOf(f) \ (R \ {c}) = (ChildrenOf(f) \ R) \cup {c}
        OBVIOUS
    <2>2. QED
        BY <2>1 DEF Under, AddedUp
<1>2. A \cap B = {}
    <2> SUFFICES ASSUME NEW l \in Links, l \in A, FolderOf[l] \in Below(c)
                 PROVE  FALSE
        BY DEF Under
    <2>1. CASE FolderOf[l] = f
        BY <2>1 DEF Calm
    <2>2. CASE FolderOf[l] # f
        <3>1. PICK e \in ChildrenOf(f) \ R : FolderOf[l] \in Below(e)
            BY <2>2 DEF AddedUp
        <3>2. Below(e) \cap Below(c) = {}
            BY ApartBelow
        <3>3. QED
            BY <3>1, <3>2
    <2>3. QED
        BY <2>1, <2>2
<1>3. A \in SUBSET Links /\ B \in SUBSET Links
    BY DEF Under, AddedUp
<1> HIDE DEF A, B, C
<1>4. IsFiniteSet(A) /\ IsFiniteSet(B) /\ Cardinality(A) \in Nat /\ Cardinality(B) \in Nat
    BY <1>3, LinksFinite
<1>5. Cardinality(A \cup B) = Cardinality(A) + Cardinality(B) - Cardinality(A \cap B)
    BY <1>4, FS_Union
<1>6. Cardinality(A \cap B) = 0
    BY <1>2, FS_EmptySet
<1>7. Cardinality(C) = Cardinality(A) + Cardinality(B)
    BY <1>1, <1>4, <1>5, <1>6
<1>8. QED
    BY <1>7 DEF A, B, C

LEMMA CountChildInv ==
    ASSUME PagesInv, CountChild
    PROVE  PagesInv'
<1>n. PICK n : n = Len(counts)
    OBVIOUS
<1>c. PICK c : c = Least(counts[n].todo)
    OBVIOUS
<1>g. PICK f : f = counts[n].of
    OBVIOUS
<1>0. doing = "count" /\ counts # <<>> /\ WhileCounting /\ counted' = counted /\ totals' = totals
    BY DEF CountChild, WhileCounting
<1>1. /\ n \in Nat \ {0} /\ DOMAIN counts = 1 .. n /\ counts \in Seq(CountFrame)
      /\ n \in 1 .. Len(counts) /\ n \in 1 .. n
      /\ \A k \in 1 .. n : counts[k] \in CountFrame
      /\ Last(counts) = counts[n]
    BY <1>0, <1>n, TopFacts
<1>2. /\ f \in Ids /\ counts[n].todo \in SUBSET Ids /\ counts[n].total \in Nat
      /\ f \in present /\ f \notin counted
      /\ counts[n].todo \subseteq ChildrenOf(f)
      /\ ChildrenOf(f) \subseteq present
    BY <1>0, <1>n, <1>g, TopFacts
<1>3. c \in counts[n].todo /\ c \in Ids /\ c \in present
    BY <1>1, <1>2, <1>c, LeastId DEF CountChild
<1>4. CountMemo(c) \/ CountCut(c) \/ CountCall(c)
    BY <1>1, <1>c DEF CountChild
<1>5. PagesTypeOK /\ ListInv /\ CountInv
    BY DEF PagesInv
<1>6. Calm(f) => counts[n].total = Cardinality(AddedUp(f, counts[n].todo))
    BY <1>1, <1>5, <1>g DEF CountInv
<1>7. \A k \in 1 .. n : f \in Below(counts[k].of)
    BY <1>1, <1>5, <1>g DEF CountInv
<1>8. CASE CountMemo(c)
    <2> DEFINE t == [of |-> f, todo |-> counts[n].todo \ {c},
                     total |-> counts[n].total + totals[c]]
    <2>1. totals[c] \in Nat /\ c \in counted
        BY <1>3, <1>5, <1>8 DEF PagesTypeOK, CountMemo
    <2>2. t \in CountFrame /\ t.of = f /\ t.todo = counts[n].todo \ {c}
          /\ t.total = counts[n].total + totals[c]
        BY <1>2, <2>1 DEF CountFrame
    <2>3. counts' = [counts EXCEPT ![n] = t]
        BY <1>1, <1>8, <1>n, <1>g DEF CountMemo, Took, Added
    <2> HIDE DEF t
    <2>4. ASSUME Calm(f)
          PROVE  t.total = Cardinality(AddedUp(f, counts[n].todo \ {c}))
        <3>1. Calm(c)
            BY <1>2, <1>3, <2>4, CalmChildren
        <3>2. totals[c] = Cardinality(Under(c))
            BY <1>5, <2>1, <3>1 DEF CountInv
        <3>3. Cardinality(AddedUp(f, counts[n].todo \ {c}))
                  = Cardinality(AddedUp(f, counts[n].todo)) + Cardinality(Under(c))
            BY <1>2, <1>3, <2>4, MoreAddedUp
        <3>4. QED
            BY <1>6, <2>2, <2>4, <3>2, <3>3
    <2>5. QED
        BY <1>0, <1>3, <1>n, <1>g, <2>2, <2>3, <2>4, TopChanged
<1>9. CASE CountCut(c)
    <2> DEFINE t == [of |-> f, todo |-> counts[n].todo \ {c}, total |-> counts[n].total]
    <2>1. t \in CountFrame /\ t.of = f /\ t.todo = counts[n].todo \ {c}
        BY <1>2 DEF CountFrame
    <2>2. counts' = [counts EXCEPT ![n] = t]
        BY <1>1, <1>9, <1>n, <1>g DEF CountCut, Took
    <2> HIDE DEF t
    <2>3. ~Calm(f)
        <3>1. f \in Below(c)
            BY <1>1, <1>7, <1>9 DEF CountCut, Deeper
        <3>2. QED
            BY <1>2, <1>3, <3>1 DEF Calm
    <2>4. QED
        BY <1>0, <1>3, <1>n, <1>g, <2>1, <2>2, <2>3, TopChanged
<1>10. CASE CountCall(c)
    <2>d. PICK d : d = Count(c)
        OBVIOUS
    <2>1. d \in CountFrame /\ d.of = c /\ d.todo = ChildrenOf(c) /\ d.total = Cardinality(Direct(c))
        BY <1>3, <2>d, FirstCount
    <2>2. counts' = Append(counts, d) /\ c \notin counted /\ \A k \in 1 .. n : counts[k].of # c
        BY <1>1, <1>10, <2>d DEF CountCall, Deeper
    <2>3. /\ counts' \in Seq(CountFrame) /\ Len(counts') = n + 1
          /\ \A k \in 1 .. n : counts'[k] = counts[k]
          /\ counts'[n + 1] = d
        BY <1>1, <1>n, <2>1, <2>2, AppendProperties
    <2>4. DOMAIN counts' = 1 .. n + 1 /\ \A k \in 1 .. n + 1 : k \in 1 .. n \/ k = n + 1
        BY <1>1, <2>3, SeqFacts
    <2>5. /\ doing' = doing /\ parents' = parents /\ present' = present
          /\ listing' = listing /\ walks' = walks
        BY <1>0 DEF WhileCounting
    <2>6. PagesTypeOK'
        BY <1>0, <1>5, <2>3, <2>5 DEF PagesTypeOK, CountFrame
    <2>7. ListInv'
        BY <1>5, <2>5, ListUntouched
    <2>8. /\ \A g : ChildrenOf(g)' = ChildrenOf(g) /\ Below(g)' = Below(g)
          /\ \A g : (Calm(g)' <=> Calm(g)) /\ Under(g)' = Under(g)
          /\ \A g, R : AddedUp(g, R)' = AddedUp(g, R)
        BY <2>5, SameRows
    <2>9. \A k \in DOMAIN counts' : /\ counts'[k].of \in present' \ counted'
                                    /\ counts'[k].todo \subseteq ChildrenOf(counts'[k].of)
        <3>1. \A k \in 1 .. n : counts[k].of \in present \ counted
                                /\ counts[k].todo \subseteq ChildrenOf(counts[k].of)
            BY <1>1, <1>5 DEF CountInv
        <3>2. QED
            BY <1>0, <1>3, <2>1, <2>2, <2>3, <2>4, <2>5, <3>1
    <2>10. (\A j, k \in DOMAIN counts : counts[j].of = counts[k].of => j = k)'
        <3>1. \A j, k \in 1 .. n : counts[j].of = counts[k].of => j = k
            BY <1>1, <1>5 DEF CountInv
        <3>2. QED
            BY <2>1, <2>2, <2>3, <2>4, <3>1
    <2>11. (\A j, k \in DOMAIN counts : j <= k => counts[k].of \in Below(counts[j].of))'
        <3>1. \A j, k \in 1 .. n : j <= k => counts[k].of \in Below(counts[j].of)
            BY <1>1, <1>5 DEF CountInv
        <3>2. ASSUME NEW j \in 1 .. n
              PROVE  c \in Below(counts[j].of)
            <4>1. f \in Below(counts[j].of) /\ counts[j].of \in Ids
                BY <1>1, <1>7 DEF CountFrame
            <4>2. QED
                BY <1>2, <1>3, <4>1, BelowClosed
        <3>3. c \in Below(c)
            BY <1>3, BelowClosed
        <3>4. ASSUME NEW j \in 1 .. n + 1, NEW k \in 1 .. n + 1, j <= k
              PROVE  counts'[k].of \in Below(counts'[j].of)
            <4>1. CASE k \in 1 .. n
                <5>1. j \in 1 .. n
                    BY <1>1, <3>4, <4>1
                <5>2. QED
                    BY <2>3, <3>1, <3>4, <4>1, <5>1
            <4>2. CASE k = n + 1
                BY <2>1, <2>3, <2>4, <3>2, <3>3, <4>2
            <4>3. QED
                BY <2>4, <4>1, <4>2
        <3>5. QED
            BY <2>4, <2>8, <3>4
    <2>12. AddedUp(d.of, d.todo) = Direct(c)
        BY <2>1 DEF AddedUp, Direct
    <2>13. (\A k \in DOMAIN counts : Calm(counts[k].of) =>
                counts[k].total = Cardinality(AddedUp(counts[k].of, counts[k].todo)))'
        <3>1. \A k \in 1 .. n : Calm(counts[k].of) =>
                  counts[k].total = Cardinality(AddedUp(counts[k].of, counts[k].todo))
            BY <1>1, <1>5 DEF CountInv
        <3>2. \A k \in 1 .. n + 1 : Calm(counts'[k].of) =>
                  counts'[k].total = Cardinality(AddedUp(counts'[k].of, counts'[k].todo))
            BY <2>1, <2>3, <2>4, <2>12, <3>1
        <3>3. QED
            BY <2>4, <2>8, <3>2
    <2>14. CountInv'
        BY <1>0, <1>5, <2>5, <2>8, <2>9, <2>10, <2>11, <2>13 DEF CountInv
    <2>15. QED
        BY <2>6, <2>7, <2>14 DEF PagesInv
<1>11. QED
    BY <1>4, <1>8, <1>9, <1>10

LEMMA CountReturnsInv ==
    ASSUME PagesInv, CountReturns
    PROVE  PagesInv'
<1>n. PICK n : n = Len(counts)
    OBVIOUS
<1>g. PICK f : f = counts[n].of
    OBVIOUS
<1>0. doing = "count" /\ counts # <<>>
    BY DEF CountReturns, WhileCounting
<1>1. /\ n \in Nat \ {0} /\ DOMAIN counts = 1 .. n /\ counts \in Seq(CountFrame)
      /\ n \in 1 .. n /\ Last(counts) = counts[n] /\ counts[n].total \in Nat
      /\ f \in Ids /\ f \in present /\ f \notin counted
    BY <1>0, <1>n, <1>g, TopFacts
<1>2. /\ doing' = doing /\ parents' = parents /\ present' = present
      /\ listing' = listing /\ walks' = walks
      /\ counted' = counted \cup {f} /\ totals' = [totals EXCEPT ![f] = counts[n].total]
      /\ counts' = Front(counts) /\ counts[n].todo = {}
    BY <1>1, <1>g DEF CountReturns, WhileCounting
<1>3. /\ counts' \in Seq(CountFrame) /\ DOMAIN counts' = 1 .. n - 1
      /\ \A k \in 1 .. n - 1 : counts'[k] = counts[k] /\ k \in 1 .. n
    BY <1>0, <1>1, <1>2, <1>n, Popped, SeqFacts
<1>4. PagesTypeOK /\ ListInv /\ CountInv
    BY DEF PagesInv
<1>5. PagesTypeOK'
    BY <1>1, <1>2, <1>3, <1>4 DEF PagesTypeOK, CountFrame
<1>6. ListInv'
    BY <1>2, <1>4, ListUntouched
<1>7. /\ \A g : ChildrenOf(g)' = ChildrenOf(g) /\ Below(g)' = Below(g)
      /\ \A g : (Calm(g)' <=> Calm(g)) /\ Under(g)' = Under(g)
      /\ \A g, R : AddedUp(g, R)' = AddedUp(g, R)
    BY <1>2, SameRows
<1>8. ASSUME Calm(f)
      PROVE  counts[n].total = Cardinality(Under(f))
    <2>1. counts[n].total = Cardinality(AddedUp(f, {}))
        BY <1>1, <1>2, <1>4, <1>8, <1>g DEF CountInv
    <2>3. Below(f) = {f} \cup UNION {Below(e) : e \in ChildrenOf(f)}
        BY <1>1, BelowIsMadeOf
    <2>4. AddedUp(f, {}) = Under(f)
        BY <2>3 DEF Under, AddedUp
    <2>5. QED
        BY <2>1, <2>4
<1>9. \A g \in counted' : Calm(g)' => totals'[g] = Cardinality(Under(g)')
    <2>1. counted \subseteq Ids /\ totals \in [Ids -> Nat]
        BY <1>4 DEF PagesTypeOK
    <2>2. \A g \in counted : totals'[g] = totals[g]
        BY <1>1, <1>2, <2>1
    <2>3. totals'[f] = counts[n].total
        BY <1>1, <1>2, <2>1
    <2>4. \A g \in counted : Calm(g) => totals[g] = Cardinality(Under(g))
        BY <1>4 DEF CountInv
    <2>5. QED
        BY <1>2, <1>7, <1>8, <2>2, <2>3, <2>4
<1>10. \A k \in 1 .. n - 1 : counts[k].of # f
    BY <1>1, <1>3, <1>4, <1>g DEF CountInv
<1>11. \A k \in DOMAIN counts' : /\ counts'[k].of \in present' \ counted'
                                 /\ counts'[k].todo \subseteq ChildrenOf(counts'[k].of)
    <2>1. \A k \in 1 .. n : counts[k].of \in present \ counted
                            /\ counts[k].todo \subseteq ChildrenOf(counts[k].of)
        BY <1>1, <1>4 DEF CountInv
    <2>2. QED
        BY <1>2, <1>3, <1>10, <2>1
<1>12. (\A j, k \in DOMAIN counts : counts[j].of = counts[k].of => j = k)'
    <2>1. \A j, k \in 1 .. n : counts[j].of = counts[k].of => j = k
        BY <1>1, <1>4 DEF CountInv
    <2>2. QED
        BY <1>3, <2>1
<1>13. (\A j, k \in DOMAIN counts : j <= k => counts[k].of \in Below(counts[j].of))'
    <2>1. \A j, k \in 1 .. n : j <= k => counts[k].of \in Below(counts[j].of)
        BY <1>1, <1>4 DEF CountInv
    <2>2. QED
        BY <1>3, <1>7, <2>1
<1>15. (\A k \in DOMAIN counts : Calm(counts[k].of) =>
            counts[k].total = Cardinality(AddedUp(counts[k].of, counts[k].todo)))'
    <2>1. \A k \in 1 .. n : Calm(counts[k].of) =>
              counts[k].total = Cardinality(AddedUp(counts[k].of, counts[k].todo))
        BY <1>1, <1>4 DEF CountInv
    <2>2. QED
        BY <1>3, <1>7, <2>1
<1>16. counted' \subseteq present'
    BY <1>1, <1>2, <1>4 DEF CountInv
<1>17. CountInv'
    BY <1>0, <1>2, <1>7, <1>9, <1>11, <1>12, <1>13, <1>15, <1>16 DEF CountInv
<1>18. QED
    BY <1>5, <1>6, <1>17 DEF PagesInv

LEMMA CountOverInv ==
    ASSUME PagesInv, CountOver
    PROVE  PagesInv'
<1>1. PagesTypeOK'
    BY DEF PagesInv, PagesTypeOK, CountOver
<1>2. ListInv'
    BY ListUntouched DEF PagesInv, CountOver
<1>3. /\ doing' = "counted" /\ counts' = <<>> /\ DOMAIN counts' = {} /\ counted' = counted
      /\ totals' = totals /\ parents' = parents /\ present' = present /\ present \subseteq counted
    BY DEF CountOver
<1>4. \A g : (Calm(g)' <=> Calm(g)) /\ Under(g)' = Under(g)
    BY <1>3, SameRows
<1>5. CountInv'
    BY <1>3, <1>4 DEF PagesInv, CountInv
<1>6. QED
    BY <1>1, <1>2, <1>5 DEF PagesInv

-----------------------------------------------------------------------------
(* The theorems on the pages *)

LEMMA PagesNextInv == PagesInv /\ [PagesNext]_pagesVars => PagesInv'
<1>1. CASE UNCHANGED pagesVars
    <2>1. /\ doing' = doing /\ parents' = parents /\ present' = present
          /\ listing' = listing /\ walks' = walks
          /\ counts' = counts /\ counted' = counted /\ totals' = totals
        BY <1>1 DEF pagesVars, computed
    <2>2. PagesInv => PagesTypeOK'
        BY <2>1 DEF PagesInv, PagesTypeOK
    <2>3. PagesInv => ListInv' /\ CountInv'
        BY <2>1, ListUntouched, CountUntouched DEF PagesInv
    <2>4. QED
        BY <2>2, <2>3 DEF PagesInv
<1>2. CASE PagesNext
    BY <1>2, ListBeginInv, ListChildInv, WalkReturnsInv, ListStrayInv, ListOverInv,
       CountBeginInv, CountNextInv, CountChildInv, CountReturnsInv, CountOverInv DEF PagesNext
<1>3. QED
    BY <1>1, <1>2

LEMMA PagesInductive == PagesSpec => []PagesInv
    BY PagesInitInv, PagesNextInv, PTL DEF PagesSpec

LEMMA ListedIsTheForest == PagesInv => ListIsTheForest
<1> SUFFICES ASSUME PagesInv
             PROVE  ListIsTheForest
    OBVIOUS
<1>1. PagesTypeOK /\ ListInv
    BY DEF PagesInv
<1>m. PICK m : m = Len(listing)
    OBVIOUS
<1>n. PICK n : n = Len(walks)
    OBVIOUS
<1>2. m \in Nat /\ DOMAIN listing = 1 .. m /\ \A i \in 1 .. m : listing[i].folder \in Ids
    <2> DEFINE R == [folder : Ids, depth : Nat]
    <2>1. listing \in Seq(R) /\ \A r \in R : r.folder \in Ids
        BY <1>1 DEF PagesTypeOK
    <2> HIDE DEF R
    <2>2. QED
        BY <1>m, <2>1, SeqFacts
<1>3. n \in Nat /\ DOMAIN walks = 1 .. n /\ \A k \in 1 .. n : walks[k].of \in Ids \cup {None}
    <2> DEFINE R == [of : Ids \cup {None}, todo : SUBSET Ids, depth : Nat]
    <2>1. walks \in Seq(R) /\ \A r \in R : r.of \in Ids \cup {None}
        BY <1>1 DEF PagesTypeOK
    <2> HIDE DEF R
    <2>2. QED
        BY <1>n, <2>1, SeqFacts
<1>4. ASSUME doing = "listed"
      PROVE  Listed = present /\ Len(listing) = Cardinality(present)
    <2> DEFINE g == [i \in 1 .. m |-> listing[i].folder]
    <2>1. Listed = present
        BY <1>1, <1>4 DEF ListInv
    <2>2. IsFiniteSet(present)
        BY <1>1, IdsFinite DEF PagesTypeOK
    <2>3. Listed = {g[i] : i \in 1 .. m}
        BY <1>2 DEF Listed
    <2>4. g \in [1 .. m -> present]
        BY <1>2, <2>1 DEF Listed
    <2>5. \A i, j \in 1 .. m : g[i] = g[j] => i = j
        BY <1>1, <1>2 DEF ListInv
    <2> HIDE DEF g
    <2>6. m = Cardinality(present)
        BY <1>2, <2>1, <2>2, <2>3, <2>4, <2>5, NoLonger
    <2>7. QED
        BY <1>m, <2>1, <2>6
<1>5. Len(walks) <= Cardinality(Ids) + 1
    <2> DEFINE g == [k \in 1 .. n |-> walks[k].of]
    <2>1. g \in [1 .. n -> Ids \cup {None}]
        BY <1>3
    <2>2. \A j, k \in 1 .. n : g[j] = g[k] => j = k
        BY <1>1, <1>3 DEF ListInv
    <2> HIDE DEF g
    <2>3. None \notin Ids /\ IsFiniteSet(Ids)
        BY IdsFinite, ForestAssumption
    <2>4. IsFiniteSet(Ids \cup {None}) /\ Cardinality(Ids \cup {None}) = Cardinality(Ids) + 1
        BY <2>3, FS_AddElement
    <2>5. n <= Cardinality(Ids \cup {None})
        BY <1>3, <2>1, <2>2, <2>4, NoLonger
    <2>6. QED
        BY <1>n, <2>4, <2>5
<1>6. QED
    BY <1>1, <1>4, <1>5 DEF ListInv, ListIsTheForest

LEMMA CountedIsExact == PagesInv => TotalsAreExact
<1> SUFFICES ASSUME PagesInv
             PROVE  TotalsAreExact
    OBVIOUS
<1>1. PagesTypeOK /\ CountInv
    BY DEF PagesInv
<1>n. PICK n : n = Len(counts)
    OBVIOUS
<1>2. n \in Nat /\ DOMAIN counts = 1 .. n /\ \A k \in 1 .. n : counts[k].of \in Ids
    <2> DEFINE R == [of : Ids, todo : SUBSET Ids, total : Nat]
    <2>1. counts \in Seq(R) /\ \A r \in R : r.of \in Ids
        BY <1>1 DEF PagesTypeOK
    <2> HIDE DEF R
    <2>2. QED
        BY <1>n, <2>1, SeqFacts
<1>3. Len(counts) <= Cardinality(Ids)
    <2> DEFINE g == [k \in 1 .. n |-> counts[k].of]
    <2>1. g \in [1 .. n -> Ids]
        BY <1>2
    <2>2. \A j, k \in 1 .. n : g[j] = g[k] => j = k
        BY <1>1, <1>2 DEF CountInv
    <2> HIDE DEF g
    <2>3. QED
        BY <1>2, <1>n, <2>1, <2>2, IdsFinite, NoLonger
<1>4. doing = "counted" => \A f \in present : Calm(f) => totals[f] = Cardinality(Under(f))
    BY <1>1 DEF CountInv
<1>5. QED
    BY <1>3, <1>4 DEF TotalsAreExact

\* Whatever the rows of the account, loops and missing parents included, the
\* sidebar lists every folder once, at the depth and in the order of the tree,
\* and walk is never deeper than there are folders (build_folder_tree).
THEOREM SidebarListsTheForest == PagesSpec => []ListIsTheForest
    BY PagesInductive, ListedIsTheForest, PTL

\* The total beside a folder that is on no loop counts each link below it once,
\* whatever loops the other rows form and in whatever order the folders are
\* counted; count is never deeper than there are folders
\* (folder_cumulative_counts).
THEOREM TotalsCountExactly == PagesSpec => []TotalsAreExact
    BY PagesInductive, CountedIsExact, PTL
=============================================================================
