------------------------------ MODULE TagStore ------------------------------
(***************************************************************************)
(* The tags of the database and their index, as the application changes    *)
(* them (TagIndex) and as a start of the application finds and changes     *)
(* them in the database of an earlier release (Migrations).  The starts    *)
(* have links, tags and names of their own.                                *)
(***************************************************************************)
EXTENDS TagIndex, Sequences, Functions

CONSTANTS
    Starts,     \* processes that start
    Old,        \* the databases that they may find
    OldLinks,   \* their links
    OldTags,    \* the ids of their tags
    OldGroups,  \* the ids of their groups
    OldNames,   \* the names of their tags and groups
    OldNorm,    \* strip().lower() of each
    MaxKills    \* bound on the processes killed

VARIABLES disk, work, writer, pc, rebuild, todo, kills, slugLost

start == <<disk, work, writer, pc, rebuild, todo, kills, slugLost>>

Upgrade == INSTANCE Migrations WITH
    Links <- OldLinks, TagIds <- OldTags, GroupIds <- OldGroups,
    Names <- OldNames, Norm <- OldNorm

ASSUME MigrationAssumption == Upgrade!MigrationConstants

\* Both models keep their types.
IndexTypeOK == TypeOK /\ Upgrade!TypeOK

\* A start that is up has done the whole of the migration, but for the unique
\* index of the slugs once a start was stopped right before it, and no start
\* loses what a link was filed under: see Migrations.
StartsMigrate == Upgrade!StartsMigrate
NothingIsLost == Upgrade!NothingIsLost
=============================================================================
