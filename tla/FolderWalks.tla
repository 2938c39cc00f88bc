---------------------------- MODULE FolderWalks ----------------------------
(***************************************************************************)
(* The two loops that follow the parents of an account's folders           *)
(* (app/utils.py), turn after turn: creates_cycle, which climbs from a new *)
(* parent and answers the handlers of FolderForest, and                    *)
(* descendant_folder_ids, which lists what a filter on a folder covers.    *)
(*                                                                         *)
(* The table is any table, since databases of before the climb exist: a    *)
(* parent may have no row, and rows may form loops.  An id without a row   *)
(* has no parent, as parents.get returns.                                  *)
(***************************************************************************)
EXTENDS FolderForest, SequencesExt

VARIABLES
    parents,   \* id -> parent
    at,        \* the loop that runs, or the one that ended and its answer
    child,     \* child_id of creates_cycle
    start,     \* new_parent_id of creates_cycle, root_id of the search
    current,   \* where the climb is
    seen,      \* the ids a loop has met
    queue,     \* ids the search has still to take
    result,    \* ids the search lists
    turns      \* history: the turns of the loop

walkVars == <<parents, at, child, start, current, seen, queue, result, turns>>

Table == [Ids -> Ids \cup {None}]

WalksTypeOK ==
    /\ parents \in Table
    /\ at \in {"idle", "climb", "yes", "no", "search", "listed"}
    /\ {child, start, current} \subseteq Ids \cup {None}
    /\ seen \subseteq Ids
    /\ queue \in Seq(Ids) /\ result \in Seq(Ids)
    /\ turns \in Nat

WalksInit ==
    /\ parents \in Table
    /\ at = "idle"
    /\ child = None /\ start = None /\ current = None
    /\ seen = {} /\ queue = <<>> /\ result = <<>> /\ turns = 0

\* The local variables of a call: what it is given, and nothing met yet.
Call(loop, c, from, first) ==
    /\ at = "idle"
    /\ at' = loop
    /\ child' = c /\ start' = from /\ current' = from /\ queue' = first
    /\ seen' = {} /\ result' = <<>> /\ turns' = 0
    /\ UNCHANGED parents

-----------------------------------------------------------------------------
(* creates_cycle *)

CallCreatesCycle(c, p) == Call("climb", c, p, <<>>)

\* Mutant of Met: a loop above the new parent is not noticed.
MetChild == current = child

\* What stops the climb with the answer yes.
Met == current = child \/ current \in seen

ClimbTurn ==
    /\ at = "climb" /\ current # None
    /\ IF Met THEN at' = "yes" /\ UNCHANGED <<current, seen>>
              ELSE /\ current' = parents[current]
                   /\ seen' = seen \cup {current}
                   /\ UNCHANGED at
    /\ turns' = turns + 1
    /\ UNCHANGED <<parents, child, start, queue, result>>

\* The climb leaves the root.
ClimbOver ==
    /\ at = "climb" /\ current = None
    /\ at' = "no"
    /\ UNCHANGED <<parents, child, start, current, seen, queue, result, turns>>

-----------------------------------------------------------------------------
(* descendant_folder_ids *)

\* by_parent, in the order of a query without ORDER BY.
ChildrenOf(f) == {g \in Ids : parents[g] = f}

CallDescendants(root) == Call("search", None, root, <<root>>)

\* Mutant of Known: what was listed is listed again.
KnownNever(f) == FALSE

Known(f) == f \in seen

SearchTurn ==
    /\ at = "search" /\ queue # <<>>
    /\ LET f == Head(queue)
       IN  IF Known(f) THEN queue' = Tail(queue) /\ UNCHANGED <<seen, result>>
           ELSE /\ seen' = seen \cup {f}
                /\ result' = Append(result, f)
                /\ queue' = Tail(queue) \o SetToSeq(ChildrenOf(f))
    /\ turns' = turns + 1
    /\ UNCHANGED <<parents, at, child, start, current>>

SearchOver ==
    /\ at = "search" /\ queue = <<>>
    /\ at' = "listed"
    /\ UNCHANGED <<parents, child, start, current, seen, queue, result, turns>>

-----------------------------------------------------------------------------

WalksNext ==
    \/ \E c \in Ids, p \in Ids \cup {None} : CallCreatesCycle(c, p)
    \/ ClimbTurn
    \/ ClimbOver
    \/ \E root \in Ids : CallDescendants(root)
    \/ SearchTurn
    \/ SearchOver

WalksSpec == WalksInit /\ [][WalksNext]_walkVars

-----------------------------------------------------------------------------
(* Properties *)

\* The ids of the smallest set with f and, with a folder, its sub-folders.
Below(f) ==
    {g \in Ids : \A A \in SUBSET Ids :
        (f \in A /\ \A a \in A : ChildrenOf(a) \subseteq A) => g \in A}

\* No loop takes more turns than there are ids and one more, whatever loops
\* the table has: neither a save nor a page ever hangs.
WalkIsShort == turns <= Cardinality(Ids) + 1

\* The climb ends, and answers what the handlers of FolderForest rely on: yes
\* for the child, for a parent below it, and for one from which no root is
\* reached; no for every other, or a legal move would be refused.
ClimbIsExact ==
    /\ at = "yes" => CreatesCycle(parents, child, start)
    /\ at = "no"  => ~CreatesCycle(parents, child, start)
    /\ at = "climb" => WalkIsShort

\* A filter on a folder ends, and lists what is below it once each: no link of
\* a sub-folder is missing from the page, however the rows loop.
FilterIsExact ==
    /\ at = "listed" => /\ ToSet(result) = Below(start)
                        /\ Len(result) = Cardinality(Below(start))
    /\ at = "search" => WalkIsShort
=============================================================================
