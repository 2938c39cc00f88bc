----------------------------- MODULE MCFolders -----------------------------
(***************************************************************************)
(* Instances of FolderForest, FolderWalks and FolderPages for TLC.  A      *)
(* behaviour either changes the rows, one request after another, or runs a *)
(* loop over one table, or computes the pages of one table: `moving` tells *)
(* which.  The loops and the pages have any table of four folders; folder  *)
(* f holds 2^(f-1) links, so a total tells which folders it adds up.       *)
(***************************************************************************)
EXTENDS FolderPages

OneName == "a" :> 0
SomeLinks == UNION {{f} \X (1 .. 2 ^ (f - 1)) : f \in 1 .. 4}
TheirFolder == [l \in SomeLinks |-> l[1]]

VARIABLE moving

loops == <<at, child, start, current, seen, queue, result, turns>>
all   == <<vars, loops, pagesVars, moving>>

\* What does not move is empty; present tells the rows without a parent from
\* the ids without a row, which only the pages do.
FoldersInit ==
    /\ Init /\ WalksInit /\ PagesInit
    /\ moving \in {"rows", "loops", "pages"}
    /\ moving = "rows" => parents = [f \in Ids |-> None]
    /\ moving # "pages" => present = {f \in Ids : parents[f] # None}

FoldersNext ==
    \/ moving = "rows"  /\ Next      /\ UNCHANGED <<loops, pagesVars, moving>>
    \/ moving = "loops" /\ WalksNext /\ UNCHANGED <<vars, present, computed, moving>>
    \/ moving = "pages" /\ PagesNext /\ UNCHANGED <<vars, loops, moving>>

FoldersSpec == FoldersInit /\ [][FoldersNext]_all
=============================================================================
