---------------------------- MODULE FolderForest ----------------------------
(***************************************************************************)
(* The folders of one account (app/routes/folders.py): a forest kept in    *)
(* rows that name their parent, with no foreign key on folders.parent_id.  *)
(*                                                                         *)
(* Every handler is one step except reorder_folders, which updates the     *)
(* rows item after item of the request and commits at the end: its loop is *)
(* ReorderBegin, one ReorderItem per item, then ReorderCommit or, when the *)
(* database refuses a write, ReorderFails.  There is no await in the loop, *)
(* so nothing else runs meanwhile.                                         *)
(***************************************************************************)
EXTENDS Naturals, FiniteSets

CONSTANTS
    MaxId,      \* bound on folder ids
    MaxOrder,   \* bound at which sort_order saturates
    Names,      \* folder names
    Alpha,      \* folder_alpha_key: the rank of each name
    None        \* SQL NULL, an absent row

Ids    == 1 .. MaxId
Orders == 0 .. MaxOrder

ASSUME ForestAssumption ==
    /\ MaxId \in Nat /\ MaxOrder \in Nat
    /\ Alpha \in [Names -> Nat]
    /\ None \notin Ids

Row == [name : Names, parent : Ids \cup {None}, order : Orders]

ASSUME NoneIsNoRow == None \notin Row

VARIABLES
    folder,   \* the folders table as the running session sees it
    saved,    \* the table as committed
    graph,    \* parents: the dict kept up to date by reorder_folders
    asked,    \* history: what this reorder asked, from the root down
    busy      \* reorder_folders is in its loop

vars == <<folder, saved, graph, asked, busy>>

TypeOK ==
    /\ folder \in [Ids -> Row \cup {None}]
    /\ saved \in [Ids -> Row \cup {None}]
    /\ graph \in [Ids -> Ids \cup {None}]
    /\ asked \subseteq [id : Ids, parent : Ids \cup {None}]
    /\ busy \in BOOLEAN

Init ==
    /\ folder = [f \in Ids |-> None]
    /\ saved = folder
    /\ graph = [f \in Ids |-> None]
    /\ asked = {}
    /\ busy = FALSE

-----------------------------------------------------------------------------
(* Rows, parents and cycles *)

Existing == {f \in Ids : folder[f] # None}

\* _parent_map: None for an id without a row, as parents.get returns.
ParentMap == [f \in Ids |-> IF folder[f] = None THEN None ELSE folder[f].parent]

Closed(par, A) == \A g \in A : par[g] # None => par[g] \in A

\* What the walk of creates_cycle meets: p, its parent, and so on.
Up(par, p) ==
    LET Above == {A \in SUBSET Ids : p \in A /\ Closed(par, A)}
    IN  {g \in Ids : \A A \in Above : g \in A}

\* creates_cycle: the walk from p meets the child, or it never ends.
CreatesCycle(par, child, p) ==
    /\ p # None
    /\ \/ child \in Up(par, p)
       \/ \A g \in Up(par, p) : par[g] # None

\* Mutant of ValidParent: only the parent itself is compared with the child.
ValidParentNearOnly(p, exclude) ==
    IF p \in Existing /\ p # exclude THEN p ELSE None

\* _validate_parent: p when it is acceptable, else None.
ValidParent(p, exclude) ==
    IF /\ p \in Existing
       /\ p # exclude
       /\ exclude # None => ~CreatesCycle(ParentMap, exclude, p)
    THEN p ELSE None

Siblings(p) == {f \in Existing : folder[f].parent = p}

IsNextId(f) ==
    /\ \A g \in Existing : g < f
    /\ \A h \in Ids : h < f => \E g \in Existing : g >= h

-----------------------------------------------------------------------------
(* Handlers that run in one step *)

Commit(rows) ==
    /\ ~busy
    /\ folder' = rows
    /\ saved' = rows
    /\ UNCHANGED <<graph, asked, busy>>

\* o is one more than the largest order of the folders F, up to MaxOrder.
IsLastOrder(o, F) ==
    /\ \A g \in F : folder[g].order < o \/ o = MaxOrder
    /\ o = 0 \/ \E g \in F : folder[g].order \in {o - 1, MaxOrder}

\* add_folder: the order is computed among the folders below the id the form
\* sent, before that id is validated.
AddFolder(n, pid) ==
    \E f \in Ids, o \in Orders :
        /\ IsNextId(f)
        /\ IsLastOrder(o, Siblings(pid))
        /\ Commit([folder EXCEPT ![f] =
               [name |-> n, parent |-> ValidParent(pid, None), order |-> o]])

\* edit_folder
EditFolder(f, n, pid) ==
    /\ f \in Existing
    /\ Commit([folder EXCEPT ![f].name = n, ![f].parent = ValidParent(pid, f)])

\* rename_folder
RenameFolder(f, n) ==
    /\ f \in Existing
    /\ Commit([folder EXCEPT ![f].name = n])

\* Alphabetical position of f among its siblings: the sort is stable and the
\* rows come by id.
AlphaRank(f) ==
    Cardinality({g \in Siblings(folder[f].parent) :
        \/ Alpha[folder[g].name] < Alpha[folder[f].name]
        \/ Alpha[folder[g].name] = Alpha[folder[f].name] /\ g < f})

\* sort_folders_alpha
SortAlpha ==
    Commit([f \in Ids |->
        IF f \notin Existing THEN None
        ELSE [folder[f] EXCEPT !.order = IF AlphaRank(f) \in Orders THEN AlphaRank(f)
                                                                   ELSE MaxOrder]])

\* Mutant of Without: the sub-folders keep the id of the deleted folder.
WithoutRaising(f) == [folder EXCEPT ![f] = None]

\* The table without f, whose sub-folders go up to the root.
Without(f) ==
    [g \in Ids |-> IF g = f THEN None
                   ELSE IF folder[g] # None /\ folder[g].parent = f
                        THEN [folder[g] EXCEPT !.parent = None]
                        ELSE folder[g]]

\* delete_folder, and purge_freshrss when f is the FreshRSS folder.
DeleteFolder(f) ==
    /\ f \in Existing
    /\ Commit(Without(f))

\* purge_all
PurgeAll == Commit([f \in Ids |-> None])

-----------------------------------------------------------------------------
(* reorder_folders *)

ReorderBegin ==
    /\ ~busy
    /\ busy' = TRUE
    /\ graph' = ParentMap
    /\ asked' = {}
    /\ UNCHANGED <<folder, saved>>

\* Mutant of NewParent: the parents are those of before the request.
NewParentStale(f, p) ==
    IF p \in Existing /\ ~CreatesCycle([g \in Ids |->
           IF saved[g] = None THEN None ELSE saved[g].parent], f, p)
    THEN p ELSE None

\* The parent item f gets: p, unless it is unknown or below f.
NewParent(f, p) ==
    IF p \in Existing /\ ~CreatesCycle(graph, f, p) THEN p ELSE None

\* The folders placed so far by items sent after the item of their parent.
Placed == {a.id : a \in asked}

\* What is still asked from the root down once f is sent for p: sending a
\* folder twice makes the request no tree.
Asked(f, p) ==
    CASE f \in Placed -> {}
      [] f \notin Placed /\ p \in Placed \cup {None} -> asked \cup {[id |-> f, parent |-> p]}
      [] OTHER -> asked

\* One item of the request; an unknown folder is skipped.
ReorderItem(f, p, o) ==
    /\ busy
    /\ IF f \notin Existing
       THEN UNCHANGED <<folder, graph, asked>>
       ELSE /\ folder' = [folder EXCEPT ![f].parent = NewParent(f, p), ![f].order = o]
            /\ graph' = [graph EXCEPT ![f] = NewParent(f, p)]
            /\ asked' = Asked(f, p)
    /\ UNCHANGED <<saved, busy>>

\* The handler returns or raises: its dict is gone.
ReorderEnd ==
    /\ busy
    /\ busy' = FALSE
    /\ graph' = [f \in Ids |-> None]
    /\ asked' = {}

ReorderCommit ==
    /\ ReorderEnd
    /\ saved' = folder
    /\ UNCHANGED folder

ReorderFails ==
    /\ ReorderEnd
    /\ folder' = saved
    /\ UNCHANGED saved

-----------------------------------------------------------------------------

Next ==
    \/ \E n \in Names, p \in Ids \cup {None} : AddFolder(n, p)
    \/ \E f \in Ids, n \in Names, p \in Ids \cup {None} : EditFolder(f, n, p)
    \/ \E f \in Ids, n \in Names : RenameFolder(f, n)
    \/ SortAlpha
    \/ \E f \in Ids : DeleteFolder(f)
    \/ PurgeAll
    \/ ReorderBegin
    \/ \E f \in Ids, p \in Ids \cup {None}, o \in Orders : ReorderItem(f, p, o)
    \/ ReorderCommit
    \/ ReorderFails

Spec == Init /\ [][Next]_vars

-----------------------------------------------------------------------------
(* Properties *)

\* A table of folders is well founded: in any set of its folders one has its
\* parent outside the set, so no folder is its own ancestor and every folder
\* can be reached from the root of the sidebar.
WellFounded(rows) ==
    \A S \in SUBSET {f \in Ids : rows[f] # None} :
        S # {} => \E f \in S : rows[f].parent \notin S

\* No sequence of edits, deletions and reorders, whatever the items of a
\* reorder and their order, ever closes a loop of folders, not even inside the
\* request that is being handled.
NoFolderLoop == WellFounded(folder)

\* folders.parent_id has no foreign key: deleting a folder must leave no row
\* naming it, or the next folder, which may take its id, would inherit rows.
ParentsExist == \A f \in Existing : folder[f].parent \in Existing \cup {None}

\* The sidebar serialises the tree from the root down: an item sent after its
\* parent is filed below that parent, never sent back to the root because the
\* previous tree had the two the other way round, and no later item undoes it.
TopDownItemsApplied == busy => \A a \in asked : folder[a.id].parent = a.parent
=============================================================================
