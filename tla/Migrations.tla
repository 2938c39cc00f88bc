----------------------------- MODULE Migrations -----------------------------
(***************************************************************************)
(* What a start does to the database of an earlier release                 *)
(* (app/database.py, init_db).                                             *)
(*                                                                         *)
(* The connection is sqlite3's: a DDL statement commits by itself as long  *)
(* as no transaction is open; the first INSERT, UPDATE or DELETE opens     *)
(* one, which lasts until the con.commit() at the end, and everything      *)
(* after it, DDL included, belongs to it.  `disk` is what is committed,    *)
(* `work` what the connection that holds the write lock sees.  A start may *)
(* be killed before any statement, and two may run at once (a redeployment *)
(* that overlaps): each reads what is committed, and waits to write.       *)
(*                                                                         *)
(* A folder stands for its name, and the ALTERs that do not interact with  *)
(* a later step for one column each.                                       *)
(***************************************************************************)
EXTENDS Naturals, Sequences, FiniteSets, Functions

CONSTANTS
    Starts,     \* processes that start
    Old,        \* the databases they may find
    Links,      \* links
    TagIds,     \* tag ids
    Names,      \* names of tags and groups, none of them blank
    Norm,       \* strip().lower() of each
    GroupIds,   \* ids of the former groups
    MaxKills,   \* bound on the processes killed
    None        \* an absent row, a free lock

Triggers == <<"links_ai", "links_au", "links_ad">>

\* The columns that the start adds, before and after it fills the missing
\* slugs, and the unique index that is only created with the slugs' column.
EarlyColumns == {"folder_id", "public_slug"}
LateColumns  == {"archive_status", "api_key_hmac"}
Additions    == EarlyColumns \cup LateColumns \cup {"ix_public_slug"}

\* The tables groups and link_groups, unless they are gone.
GroupTable  == [GroupIds -> Names \cup {None}] \cup {None}
MemberTable == {None} \cup SUBSET (Links \X GroupIds)

Database ==
    [table : {"absent", "legacy", "current"},
     triggers : [Range(Triggers) -> {"absent", "stale", "marked"}],
     index : [Links -> {None} \cup SUBSET Names],
     tags : [TagIds -> Names \cup {None}],
     tagged : SUBSET (Links \X TagIds),
     columns : SUBSET Additions,
     groups : GroupTable,
     members : MemberTable,
     filed : [Links -> Names \cup {None}],
     twins : BOOLEAN,                         \* one address saved twice
     uniques : SUBSET {"tags", "links"},
     slugged : BOOLEAN,                       \* every account has a slug
     key : {"plain", "encrypted", "hashed"},
     token : {"plain", "encrypted"}]

\* The foreign keys of the tables: a link is tagged with tags that exist, and
\* is in groups only if there are groups.
Sound(db) ==
    /\ db \in Database
    /\ \A a \in db.tagged : db.tags[a[2]] # None
    /\ db.groups = None => db.members = None

\* The values of the constants.
MigrationConstants ==
    /\ Norm \in [Names -> Names]
    /\ \A n \in Names : Norm[Norm[n]] = Norm[n]
    /\ TagIds \subseteq Nat /\ GroupIds \subseteq Nat /\ MaxKills \in Nat
    /\ IsFiniteSet(GroupIds)
    /\ None \notin Names \cup Starts
    /\ \A db \in Old : Sound(db)

VARIABLES
    disk,     \* the committed database
    work,     \* the database as the open transaction sees it, else None
    writer,   \* the start whose transaction is open
    pc,       \* where each start is
    rebuild,  \* legacy_table or stale_triggers
    todo,     \* what is left of the loop it is in
    kills,    \* processes killed so far
    slugLost  \* history: the slugs' column was left without its unique index

vars == <<disk, work, writer, pc, rebuild, todo, kills, slugLost>>
local == <<rebuild, todo>>

Places == {"down", "create_all", "drop table", "drop old triggers", "table",
           "stale", "drop triggers", "triggers", "rebuild", "groups", "move",
           "move groups", "columns", "alter", "slugs", "late columns", "late alter",
           "seal", "tags", "uniques", "commit", "up"}

TypeOK ==
    /\ disk \in Database
    /\ work \in Database \cup {None}
    /\ writer \in Starts \cup {None}
    /\ pc \in [Starts -> Places]
    /\ rebuild \in [Starts -> BOOLEAN]
    /\ todo \in [Starts -> Seq(Range(Triggers) \cup Additions)]
    /\ kills \in 0 .. MaxKills
    /\ slugLost \in BOOLEAN

\* A database with the slugs' column and without its index: the column is
\* there, so no start makes the index any more.
HalfSlugged(db) == "public_slug" \in db.columns /\ "ix_public_slug" \notin db.columns

Init ==
    /\ disk \in Old
    /\ work = None
    /\ writer = None
    /\ pc = [s \in Starts |-> "down"]
    /\ rebuild = [s \in Starts |-> FALSE]
    /\ todo = [s \in Starts |-> <<>>]
    /\ kills = 0
    /\ slugLost = HalfSlugged(disk)

-----------------------------------------------------------------------------
(* The connection of a start *)

View(s) == IF writer = s THEN work ELSE disk

\* Another start holds the write lock: the statement waits (busy_timeout).
MayWrite(s) == writer \in {None, s}

\* A statement that changes the schema.
Ddl(s, db) ==
    /\ MayWrite(s)
    /\ IF writer = s THEN work' = db /\ UNCHANGED disk
                     ELSE disk' = db /\ UNCHANGED work
    /\ UNCHANGED writer

\* A statement that changes rows.
Dml(s, db) ==
    /\ MayWrite(s)
    /\ writer' = s
    /\ work' = db
    /\ UNCHANGED disk

NoWrite == UNCHANGED <<disk, work, writer>>

Goto(s, from, to) ==
    /\ pc[s] = from
    /\ pc' = [pc EXCEPT ![s] = to]
    /\ UNCHANGED <<kills, slugLost>>

\* The loop over todo[s]: after its last element the next place, and what the
\* loop of that place goes over.
Loop(s, from, to, next) ==
    /\ todo[s] # <<>>
    /\ Goto(s, from, IF Len(todo[s]) = 1 THEN to ELSE from)
    /\ todo' = [todo EXCEPT ![s] = IF Len(@) = 1 THEN next ELSE Tail(@)]

-----------------------------------------------------------------------------
(* The index and its triggers *)

NamesOf(db, l) == {db.tags[t] : t \in {u \in TagIds : <<l, u>> \in db.tagged}}

\* There is an fts_links to write to.
HasIndex(s) == View(s).table # "absent"

\* _rebuild_fts
Rebuilt(db) == [db EXCEPT !.index = [l \in Links |-> NamesOf(db, l)]]

\* create_all makes the tables that are missing.  That two starts on an empty
\* directory may refuse one another there ("already exists") is left out.
Start(s) ==
    /\ Goto(s, "down", "create_all")
    /\ NoWrite /\ UNCHANGED local

\* legacy_table: the contentless table of the first releases is replaced.
ReadTable(s) ==
    /\ rebuild' = [rebuild EXCEPT ![s] = disk.table = "legacy"]
    /\ Goto(s, "create_all", IF disk.table = "legacy" THEN "drop table" ELSE "table")
    /\ NoWrite /\ UNCHANGED todo

DropTable(s) ==
    /\ Goto(s, "drop table", "drop old triggers")
    /\ Ddl(s, [View(s) EXCEPT !.table = "absent", !.index = [l \in Links |-> None]])
    /\ todo' = [todo EXCEPT ![s] = Triggers]
    /\ UNCHANGED rebuild

DropTrigger(s) ==
    /\ \/ Loop(s, "drop old triggers", "table", <<>>)
       \/ Loop(s, "drop triggers", "triggers", Triggers)
    /\ Ddl(s, [View(s) EXCEPT !.triggers[Head(todo[s])] = "absent"])
    /\ UNCHANGED rebuild

CreateTable(s) ==
    /\ Goto(s, "table", "stale")
    /\ Ddl(s, IF View(s).table = "absent" THEN [View(s) EXCEPT !.table = "current"]
                                          ELSE View(s))
    /\ UNCHANGED local

\* stale_triggers, read on links_au: the old ones emptied the tags column.
ReadTriggers(s) ==
    LET stale == View(s).triggers["links_au"] = "stale"
    IN  /\ rebuild' = [rebuild EXCEPT ![s] = @ \/ stale]
        /\ todo' = [todo EXCEPT ![s] = Triggers]
        /\ Goto(s, "stale", IF stale THEN "drop triggers" ELSE "triggers")
        /\ NoWrite

AfterTriggers(db, t) ==
    [db EXCEPT !.triggers[t] = IF @ = "absent" THEN "marked" ELSE @]

CreateTrigger(s) ==
    /\ Loop(s, "triggers", "rebuild", <<>>)
    /\ Ddl(s, AfterTriggers(View(s), Head(todo[s])))
    /\ UNCHANGED rebuild

RebuildIndex(s) ==
    /\ Goto(s, "rebuild", "groups")
    /\ IF rebuild[s] THEN HasIndex(s) /\ Dml(s, Rebuilt(View(s))) ELSE NoWrite
    /\ UNCHANGED local

-----------------------------------------------------------------------------
(* Groups, columns, secrets and tags *)

\* tables: are there groups, with or without link_groups?
ReadGroups(s) ==
    /\ Goto(s, "groups", IF View(s).groups = None THEN "columns"
                         ELSE IF View(s).members = None THEN "move groups" ELSE "move")
    /\ NoWrite /\ UNCHANGED local

Groups(db) == IF db.groups = None THEN {} ELSE {g \in GroupIds : db.groups[g] # None}

\* The groups of link l, while the tables are there.
GroupsOf(db, l) ==
    IF db.members = None THEN {}
    ELSE {g \in Groups(db) : <<l, g>> \in db.members}

\* Each group becomes the folder of its name; a link of several groups is
\* filed in the last; links_au rewrites the rows of the links updated.  The
\* parent_id of a folder made for a group, which is the group's and so an id of
\* the table dropped (database.py:164-167), is left out: no folder has one here.
Moved(db) ==
    LET moved == {l \in Links : GroupsOf(db, l) # {}}
        last(l) == CHOOSE g \in GroupsOf(db, l) : \A h \in GroupsOf(db, l) : h <= g
    IN  [db EXCEPT !.filed = [l \in Links |-> IF l \in moved THEN db.groups[last(l)] ELSE @[l]],
                   !.index = [l \in Links |->
                       IF l \in moved /\ db.triggers["links_au"] = "marked"
                       THEN NamesOf(db, l) ELSE @[l]],
                   !.groups = None, !.members = None]

\* The tables were dropped by another start, or the links have no column yet
\* for the folder.
GroupsRefused(s) ==
    \/ View(s).groups = None
    \/ /\ pc[s] = "move"
       /\ \/ View(s).members = None
          \/ Groups(View(s)) # {} /\ ("folder_id" \notin View(s).columns \/ ~HasIndex(s))

\* A group to move opens a transaction, unless it has its folder and no link
\* is filed; without one, link_groups and groups are dropped one after the other.
MoveGroups(s) ==
    /\ ~GroupsRefused(s)
    /\ \/ Goto(s, "move", "columns") /\ Groups(View(s)) # {} /\ Dml(s, Moved(View(s)))
       \/ /\ Goto(s, "move", "move groups") /\ Groups(View(s)) = {}
          /\ Ddl(s, [View(s) EXCEPT !.members = None])
       \/ Goto(s, "move groups", "columns") /\ Groups(View(s)) # {} /\ Dml(s, Moved(View(s)))
       \/ Goto(s, "move groups", "columns") /\ Ddl(s, Moved(View(s)))
    /\ UNCHANGED local

\* Mutant of Unless: the column is not looked up.
UnlessNever(column, db, stmts) == stmts

\* `if column not in cols`: the statements that add it.
Unless(column, db, stmts) == IF column \in db.columns THEN <<>> ELSE stmts

MissingEarly(db) ==
    Unless("folder_id", db, <<"folder_id">>)
        \o Unless("public_slug", db, <<"public_slug", "ix_public_slug">>)

MissingLate(db) ==
    Unless("archive_status", db, <<"archive_status">>)
        \o Unless("api_key_hmac", db, <<"api_key_hmac">>)

\* PRAGMA table_info: the loop over what is missing, or the next place.
Compare(s, from, missing, loop, to) ==
    /\ Goto(s, from, IF missing = <<>> THEN to ELSE loop)
    /\ todo' = [todo EXCEPT ![s] = missing]
    /\ NoWrite /\ UNCHANGED rebuild

ReadColumns(s) ==
    \/ Compare(s, "columns", MissingEarly(View(s)), "alter", "slugs")
    \/ Compare(s, "late columns", MissingLate(View(s)), "late alter", "seal")

\* duplicate column name: another start added it; an index is IF NOT EXISTS.
ColumnRefused(s) ==
    todo[s] # <<>> /\ Head(todo[s]) \in View(s).columns \ {"ix_public_slug"}

AddColumn(s) ==
    /\ Loop(s, "alter", "slugs", <<>>) \/ Loop(s, "late alter", "seal", <<>>)
    /\ ~ColumnRefused(s)
    /\ Ddl(s, [View(s) EXCEPT !.columns = @ \cup {Head(todo[s])}])
    /\ UNCHANGED rebuild

\* The accounts without a public_slug receive one.
FillSlugs(s) ==
    /\ Goto(s, "slugs", "late columns")
    /\ IF View(s).slugged THEN NoWrite ELSE Dml(s, [View(s) EXCEPT !.slugged = TRUE])
    /\ UNCHANGED local

Sealed(db) == [db EXCEPT !.key = "hashed", !.token = "encrypted"]

\* The API keys without a hash, and the FreshRSS tokens still in clear.
SealSecrets(s) ==
    /\ Goto(s, "seal", "tags")
    /\ IF Sealed(View(s)) # View(s) THEN Dml(s, Sealed(View(s))) ELSE NoWrite
    /\ UNCHANGED local

\* The tag that stays of those with the normalised name of t: the first that
\* has it already, else the oldest.
Kept(db, t) ==
    LET same == {u \in TagIds : db.tags[u] # None /\ Norm[db.tags[u]] = Norm[db.tags[t]]}
        good == {u \in same : db.tags[u] = Norm[db.tags[u]]}
        from == IF good # {} THEN good ELSE same
    IN  CHOOSE u \in from : \A v \in from : u <= v

\* Mutant of Merged: only the links of the tag that stays remain tagged.
MergedDropping(db) ==
    LET tags == {t \in TagIds : db.tags[t] # None}
        kept == {t \in tags : Kept(db, t) = t}
    IN  [db EXCEPT !.tags = [t \in TagIds |-> IF t \in kept THEN Norm[@[t]] ELSE None],
                   !.tagged = {a \in db.tagged : a[2] \in kept}]

Merged(db) ==
    LET tags == {t \in TagIds : db.tags[t] # None}
    IN  [db EXCEPT !.tags = [t \in TagIds |->
                        IF t \in tags /\ Kept(db, t) = t THEN Norm[@[t]] ELSE None],
                   !.tagged = {<<a[1], Kept(db, a[2])>> : a \in db.tagged}]

\* _merge_tag_case_duplicates, and the index rebuilt when it changed something.
MergeTags(s) ==
    /\ Goto(s, "tags", "uniques")
    /\ IF Merged(View(s)) # View(s)
       THEN HasIndex(s) /\ Dml(s, Rebuilt(Merged(View(s)))) ELSE NoWrite
    /\ UNCHANGED local

\* _create_unique_index: duplicates are reported, and do not stop the start.
UniqueIndexes(s) ==
    /\ Goto(s, "uniques", "commit")
    /\ Ddl(s, [View(s) EXCEPT !.uniques =
           @ \cup {"tags"} \cup (IF View(s).twins THEN {} ELSE {"links"})])
    /\ UNCHANGED local

\* Mutant of Commit: the connection is closed without a commit.
CommitNothing(s) ==
    /\ Goto(s, "commit", "up")
    /\ IF writer = s THEN work' = None /\ writer' = None /\ UNCHANGED disk ELSE NoWrite
    /\ UNCHANGED local

Commit(s) ==
    /\ Goto(s, "commit", "up")
    /\ IF writer = s THEN disk' = work /\ work' = None /\ writer' = None ELSE NoWrite
    /\ UNCHANGED local

-----------------------------------------------------------------------------
(* The end of a start *)

\* Start s has added the slugs' column and not yet its index, two statements
\* of which each commits by itself unless a transaction is open.
BetweenSlugs(s) ==
    pc[s] = "alter" /\ todo[s] # <<>> /\ Head(todo[s]) = "ix_public_slug"

\* What was not committed is gone with the process.
Stop(s) ==
    /\ slugLost' = (slugLost \/ (BetweenSlugs(s) /\ writer # s))
    /\ pc' = [pc EXCEPT ![s] = "down"]
    /\ rebuild' = [rebuild EXCEPT ![s] = FALSE]
    /\ todo' = [todo EXCEPT ![s] = <<>>]
    /\ IF writer = s THEN work' = None /\ writer' = None ELSE UNCHANGED <<work, writer>>
    /\ UNCHANGED disk

Refused(s) ==
    \/ pc[s] = "rebuild" /\ rebuild[s] /\ ~HasIndex(s)
    \/ pc[s] \in {"move", "move groups"} /\ GroupsRefused(s)
    \/ pc[s] \in {"alter", "late alter"} /\ ColumnRefused(s)
    \/ pc[s] = "tags" /\ Merged(View(s)) # View(s) /\ ~HasIndex(s)

\* A statement raises: init_db and the process with it.
Fail(s) ==
    /\ Refused(s) /\ MayWrite(s)
    /\ Stop(s)
    /\ UNCHANGED kills

\* "database is locked", after five seconds behind another start.
TimeOut(s) ==
    /\ ~MayWrite(s)
    /\ pc[s] \notin {"down", "create_all", "stale", "groups", "columns", "late columns", "up"}
    /\ Stop(s)
    /\ UNCHANGED kills

Kill(s) ==
    /\ pc[s] # "down" /\ kills < MaxKills
    /\ kills' = kills + 1
    /\ Stop(s)

Step(s) ==
    \/ Start(s) \/ ReadTable(s) \/ DropTable(s) \/ DropTrigger(s)
    \/ CreateTable(s) \/ ReadTriggers(s) \/ CreateTrigger(s) \/ RebuildIndex(s)
    \/ ReadGroups(s) \/ MoveGroups(s) \/ ReadColumns(s) \/ AddColumn(s)
    \/ FillSlugs(s) \/ SealSecrets(s) \/ MergeTags(s) \/ UniqueIndexes(s) \/ Commit(s)
    \/ Fail(s)

Next == \E s \in Starts : Step(s) \/ TimeOut(s) \/ Kill(s)

Spec == Init /\ [][Next]_vars

\* The container is restarted until the start ends.
Fairness == \A s \in Starts : WF_vars(Step(s))

FairSpec == Spec /\ Fairness

-----------------------------------------------------------------------------
(* Properties *)

\* Once a start has ended, whatever starts were killed, refused or running
\* beside it, the rows and the schema other than the search index are those of
\* this release: every column, no group, no secret in clear, no two tags of an
\* account that differ by their case only, and the index that keeps it so.
\* The unique index of the slugs is there too, unless a start was stopped
\* between the statements of database.py:195 and 196, which no later start
\* makes up for (slugLost), or another start stands between them now.
StartsMigrate ==
    \A s \in Starts : pc[s] = "up" =>
        /\ Additions \ {"ix_public_slug"} \subseteq disk.columns
        /\ \/ "ix_public_slug" \in disk.columns
           \/ slugLost
           \/ \E t \in Starts : BetweenSlugs(t)
        /\ disk.groups = None /\ disk.members = None
        /\ disk.slugged /\ disk.key = "hashed" /\ disk.token = "encrypted"
        /\ Merged(disk) = disk /\ "tags" \in disk.uniques

\* What a reader of the committed database knows of link l.
TagsSeen(db, l) == {Norm[n] : n \in NamesOf(db, l)}
PlacesSeen(db, l) ==
    IF GroupsOf(db, l) # {} THEN {db.groups[g] : g \in GroupsOf(db, l)} ELSE {db.filed[l]}

\* No statement that commits loses what a link was filed under: its tags up to
\* their case, and one of its groups, are still there at every point where the
\* process may be killed.
NothingIsLost ==
    [][\A l \in Links : /\ TagsSeen(disk', l) = TagsSeen(disk, l)
                        /\ PlacesSeen(disk', l) \subseteq PlacesSeen(disk, l)]_vars

\* A database whose links have no folder_id but whose groups have links never
\* starts: see GroupsFit.
Startable ==
    disk.groups = None \/ disk.members = None \/ Groups(disk) = {}
        \/ "folder_id" \in disk.columns

\* Starts that race on the same database refuse one another, yet they all end:
\* a refused one finds the work of the other done when it is started again.
StartsSettle == Startable => <>[](\A s \in Starts : pc[s] = "up")

\* Violated.  database.py:125-128 and 139-140: the marker in the SQL of the
\* triggers makes the migration idempotent, and what the old triggers lost is
\* rebuilt once; killed between the two, a start is never caught up.
IndexRebuilt ==
    (\A s \in Starts : pc[s] = "up") => disk.index = Rebuilt(disk).index

\* Violated.  database.py:150-154: the groups of an old database are migrated
\* to folders, so the statement that files their links is not refused.
GroupsFit ==
    \A s \in Starts : pc[s] \in {"move", "move groups"} => ~GroupsRefused(s)
=============================================================================
