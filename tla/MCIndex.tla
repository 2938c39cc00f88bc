------------------------------ MODULE MCIndex ------------------------------
(***************************************************************************)
(* An instance of TagStore for TLC.  A behaviour is one of the application *)
(* or one of the starts: `moving` tells which.                             *)
(***************************************************************************)
EXTENDS TagStore, TLC

\* A name in capitals, one in lower case, the name a start removes, and no name.
Lower == "A" :> "a" @@ "b" :> "b" @@ "freshrss" :> "freshrss"
         @@ " " :> ""

\* The names that the old databases hold, in two spellings.
OldLower == [n \in {"Py", "py"} |-> "py"]

\* The databases themselves do not depend on the choice among them.
Earlier == INSTANCE MCMigrations WITH
    Names <- OldNames, Norm <- OldNorm, Links <- OldLinks, TagIds <- OldTags,
    GroupIds <- OldGroups, Old <- {}

Releases == Earlier!Releases

VARIABLE moving

IndexInit ==
    /\ Init /\ Upgrade!Init
    /\ moving \in {"application", "starts"}
    /\ moving = "application" => disk = Earlier!ThisRelease

IndexNext ==
    \/ moving = "application" /\ Next /\ UNCHANGED <<start, moving>>
    \/ moving = "starts" /\ Upgrade!Next /\ UNCHANGED <<vars, moving>>

IndexSpec ==
    /\ IndexInit /\ [][IndexNext]_<<vars, start, moving>>
    /\ (moving = "starts") => Upgrade!Fairness

\* The starts of Migrations end: see there.
StartsSettle == moving = "starts" => Upgrade!StartsSettle
=============================================================================
