---------------------------- MODULE FolderPages ----------------------------
(***************************************************************************)
(* What the pages compute from the folder rows of an account               *)
(* (app/utils.py), call after call: the indented list of the sidebar       *)
(* (build_folder_tree, whose local function is walk) and the number of     *)
(* links below each folder (folder_cumulative_counts and count).           *)
(*                                                                         *)
(* The rows are any rows, as in FolderWalks: a parent may be missing and   *)
(* rows may form loops.  Folders are numbered in the order of the sidebar, *)
(* by sort_order and then by name, so sorting is taking the least.         *)
(***************************************************************************)
EXTENDS FolderWalks

CONSTANTS
    Links,      \* the links of the account
    FolderOf    \* link -> its folder_id

ASSUME LinksAssumption ==
    /\ IsFiniteSet(Links)
    /\ FolderOf \in [Links -> Ids \cup {None}]

VARIABLES
    present,    \* the ids that have a row
    doing,      \* the function that runs, or the one that ended
    listing,    \* result of build_folder_tree
    walks,      \* the calls of walk that have not returned, the last on top
    counts,     \* the calls of count that have not returned
    counted,    \* the ids in cumulative
    totals      \* their values

computed  == <<doing, listing, walks, counts, counted, totals>>
pagesVars == <<parents, present, computed>>

Kids(p) == {f \in present : parents[f] = p}

\* The ids in the list, `emitted` of the code.
Listed == {listing[i].folder : i \in DOMAIN listing}

PagesTypeOK ==
    /\ parents \in Table /\ present \subseteq Ids
    /\ \A f \in Ids \ present : parents[f] = None
    /\ doing \in {"nothing", "list", "listed", "count", "counted"}
    /\ listing \in Seq([folder : Ids, depth : Nat])
    /\ walks \in Seq([of : Ids \cup {None}, todo : SUBSET Ids, depth : Nat])
    /\ counts \in Seq([of : Ids, todo : SUBSET Ids, total : Nat])
    /\ counted \subseteq Ids
    /\ totals \in [Ids -> Nat]

PagesInit ==
    /\ parents \in Table /\ present \in SUBSET Ids
    /\ \A f \in Ids \ present : parents[f] = None
    /\ doing = "nothing"
    /\ listing = <<>> /\ walks = <<>>
    /\ counts = <<>> /\ counted = {} /\ totals = [f \in Ids |-> 0]

\* The first of a set in the order of the sidebar.
Least(S) == CHOOSE f \in S : \A g \in S : f <= g

-----------------------------------------------------------------------------
(* build_folder_tree *)

\* A call of walk, as it starts: it sorts the children not in the list yet.
Walk(p, depth, listed) == [of |-> p, todo |-> Kids(p) \ listed, depth |-> depth]

\* Mutant of Item: every folder is at the margin.
ItemAtMargin(f, depth) == [folder |-> f, depth |-> 0]

Item(f, depth) == [folder |-> f, depth |-> depth]

ListBegin ==
    /\ doing = "nothing"
    /\ doing' = "list"
    /\ walks' = <<Walk(None, 0, {})>>
    /\ UNCHANGED <<parents, present, listing, counts, counted, totals>>

WhileListing == doing = "list" /\ UNCHANGED <<parents, present, doing, counts, counted, totals>>

\* A turn of the loop of walk: the next child is listed, and walked.
ListChild ==
    /\ WhileListing
    /\ walks # <<>> /\ Last(walks).todo # {}
    /\ LET top == Last(walks)
           f   == Least(top.todo)
       IN  /\ listing' = Append(listing, Item(f, top.depth))
           /\ walks' = Append([walks EXCEPT ![Len(walks)].todo = @ \ {f}],
                              Walk(f, top.depth + 1, Listed \cup {f}))

WalkReturns ==
    /\ WhileListing
    /\ walks # <<>> /\ Last(walks).todo = {}
    /\ walks' = Front(walks)
    /\ UNCHANGED listing

\* A turn of the last loop: a folder no walk has met is put at the root.
ListStray ==
    /\ WhileListing
    /\ walks = <<>> /\ present \ Listed # {}
    /\ LET f == Least(present \ Listed)
       IN  /\ listing' = Append(listing, Item(f, 0))
           /\ walks' = <<Walk(f, 1, Listed \cup {f})>>

ListOver ==
    /\ doing = "list" /\ walks = <<>> /\ present \subseteq Listed
    /\ doing' = "listed"
    /\ UNCHANGED <<parents, present, listing, walks, counts, counted, totals>>

-----------------------------------------------------------------------------
(* folder_cumulative_counts *)

\* The links in a folder, those direct_counts counts.
Direct(f) == {l \in Links : FolderOf[l] = f}

\* A call of count that found nothing in the memo, as it starts.
Count(f) == [of |-> f, todo |-> Kids(f), total |-> Cardinality(Direct(f))]

\* `visiting`, and the folder of the call itself.
Deeper == {counts[k].of : k \in DOMAIN counts}

\* Mutant of Added: the total of a folder is the one of its last sub-folder.
AddedLast(sum, n) == n

Added(sum, n) == sum + n

CountBegin ==
    /\ doing = "nothing"
    /\ doing' = "count"
    /\ UNCHANGED <<parents, present, listing, walks, counts, counted, totals>>

WhileCounting == doing = "count" /\ UNCHANGED <<parents, present, doing, listing, walks>>

\* A turn of the last loop; a folder in the memo changes nothing.
CountNext ==
    /\ WhileCounting
    /\ counts = <<>> /\ present \ counted # {}
    /\ counts' = <<Count(Least(present \ counted))>>
    /\ UNCHANGED <<counted, totals>>

\* The call on top is over with its child c.
Took(c, sum) ==
    counts' = [counts EXCEPT ![Len(counts)] =
                  [of |-> Last(counts).of, todo |-> Last(counts).todo \ {c}, total |-> sum]]

\* The call on top takes its next child c: it is in the memo,
CountMemo(c) ==
    /\ c \in counted
    /\ Took(c, Added(Last(counts).total, totals[c]))

\* or it is being counted further down, a loop, and counts for nothing,
CountCut(c) ==
    /\ c \notin counted /\ c \in Deeper
    /\ Took(c, Last(counts).total)

\* or it is counted.  What that call returns is what it puts in the memo: c
\* stays the next child until then.
CountCall(c) ==
    /\ c \notin counted /\ c \notin Deeper
    /\ counts' = Append(counts, Count(c))

CountChild ==
    /\ WhileCounting
    /\ counts # <<>> /\ Last(counts).todo # {}
    /\ LET c == Least(Last(counts).todo)
       IN  CountMemo(c) \/ CountCut(c) \/ CountCall(c)
    /\ UNCHANGED <<counted, totals>>

CountReturns ==
    /\ WhileCounting
    /\ counts # <<>> /\ Last(counts).todo = {}
    /\ counted' = counted \cup {Last(counts).of}
    /\ totals' = [totals EXCEPT ![Last(counts).of] = Last(counts).total]
    /\ counts' = Front(counts)

CountOver ==
    /\ doing = "count" /\ counts = <<>> /\ present \subseteq counted
    /\ doing' = "counted"
    /\ UNCHANGED <<parents, present, listing, walks, counts, counted, totals>>

-----------------------------------------------------------------------------

PagesNext ==
    \/ ListBegin \/ ListChild \/ WalkReturns \/ ListStray \/ ListOver
    \/ CountBegin \/ CountNext \/ CountChild \/ CountReturns \/ CountOver

PagesSpec == PagesInit /\ [][PagesNext]_pagesVars

-----------------------------------------------------------------------------
(* Properties *)

\* No root is reached from f: a loop or a missing parent is above it.
Adrift(f) == \A g \in Up(parents, f) : g \in present => parents[g] # None

\* The item at i is a root, or is put at the root since no root is above it,
\* or it is one deeper than its parent and what is between the two is not
\* less deep: the list can be read as the tree.
WellPlaced(i) ==
    LET f == listing[i].folder
        d == listing[i].depth
    IN  \/ d = 0 /\ (parents[f] = None \/ Adrift(f))
        \/ \E j \in 1 .. i - 1 :
              /\ listing[j].folder = parents[f] /\ d = listing[j].depth + 1
              /\ \A k \in j + 1 .. i - 1 : listing[k].depth >= d

\* Siblings follow each other in their order; a folder put at the root because
\* of a loop is not among its siblings.
InOrder(i, j) ==
    (/\ i < j /\ parents[listing[i].folder] = parents[listing[j].folder]
     /\ listing[i].depth > 0 \/ parents[listing[i].folder] = None
     /\ listing[j].depth > 0 \/ parents[listing[j].folder] = None)
        => listing[i].folder < listing[j].folder

\* Whatever the rows, loops and missing parents included, the sidebar lists
\* every folder exactly once, so none is out of reach of the user, in the order
\* and at the depth of the tree; and walk never calls itself deeper than there
\* are folders.
ListIsTheForest ==
    /\ doing = "listed" =>
           Listed = present /\ Len(listing) = Cardinality(present)
    /\ \A i \in DOMAIN listing : WellPlaced(i)
    /\ \A i, j \in DOMAIN listing : InOrder(i, j)
    /\ Len(walks) <= Cardinality(Ids) + 1

\* f is on no loop.
Calm(f) == \A c \in ChildrenOf(f) : f \notin Below(c)

\* The links in f and in every folder below it.
Under(f) == {l \in Links : FolderOf[l] \in Below(f)}

\* The number shown beside a folder counts every link below it once, whatever
\* loops the other rows form; and count never calls itself deeper than there
\* are folders, where it ended every page with an error.
TotalsAreExact ==
    /\ doing = "counted" =>
           \A f \in present : Calm(f) => totals[f] = Cardinality(Under(f))
    /\ Len(counts) <= Cardinality(Ids)
=============================================================================
