---------------------------- MODULE FreshRSSSync ----------------------------
(***************************************************************************)
(* The FreshRSS synchronisation of one account (app/routes/freshrss.py)    *)
(* together with the requests that touch the same rows while it waits for  *)
(* the network: links (app/routes/links/crud.py), folders                  *)
(* (app/routes/folders.py) and settings (app/routes/settings.py).          *)
(*                                                                         *)
(* The program runs on one asyncio loop and every handler is a coroutine:  *)
(* what it does between two awaits is one step here, and every await of a  *)
(* sync pass is a point where any other action may happen.  A row read     *)
(* before an await stays in the pass's SQLAlchemy session, stale or not,   *)
(* until a commit expires it: that copy is pass[p].cfg.                    *)
(***************************************************************************)
EXTENDS Naturals, FiniteSets

CONSTANTS
    Urls,         \* addresses a link may have
    Items,        \* GReader articles, identified by their item id
    UrlOf,        \* the address _extract_url finds in each article
    Names,        \* folder names
    MaxFolderId,  \* bound on folder ids
    Passes,       \* callers of sync_user: periodic loop, button, API
    CountCap,     \* bound at which synced_count saturates
    MaxStarred,   \* _MAX_STARRED_ITEMS
    None          \* SQL NULL, an absent row, a free lock

FolderIds == 1 .. MaxFolderId

\* The columns of a link the synchronisation reads or writes.
Link == [folder : FolderIds \cup {None}, item : Items \cup {None}]

ASSUME ConstantsAssumption ==
    /\ IsFiniteSet(Urls)
    /\ UrlOf \in [Items -> Urls]
    /\ MaxFolderId \in Nat
    /\ CountCap \in Nat
    /\ MaxStarred \in Nat
    /\ None \notin Urls /\ None \notin Items /\ None \notin Names
    /\ None \notin Passes /\ None \notin FolderIds
    /\ None \notin Link

VARIABLES
    links,     \* the links table, by url (unique per account)
    folders,   \* the folders table: id -> name, None when there is no row
    config,    \* the account's row of freshrss_configs
    starred,   \* articles starred on the FreshRSS server
    unstars,   \* articles of the unstar tasks spawned and not finished
    lock,      \* _sync_locks[user]: the pass holding it
    pass       \* the coroutine state of each sync pass

vars == <<links, folders, config, starred, unstars, lock, pass>>

Config == [folder : FolderIds \cup {None}, group : Names \cup {None},
           count : 0 .. CountCap]
Pass   == [pc : {"idle", "waiting", "fetching", "fetched", "unstarring"},
           cfg : Config,             \* the FreshRSSConfig object of its session
           fetched : SUBSET Items,   \* items
           folder : FolderIds \cup {None},
           known : SUBSET Urls,      \* existing_urls
           orphans : SUBSET Items]   \* orphan_item_ids still to unstar

NoConfig == [folder |-> None, group |-> None, count |-> 0]
IdlePass == [pc |-> "idle", cfg |-> NoConfig, fetched |-> {}, folder |-> None,
             known |-> {}, orphans |-> {}]

TypeOK ==
    /\ links \in [Urls -> Link \cup {None}]
    /\ folders \in [FolderIds -> Names \cup {None}]
    /\ config \in Config /\ config.group \in Names
    /\ starred \subseteq Items
    /\ unstars \subseteq Items
    /\ lock \in Passes \cup {None}
    /\ pass \in [Passes -> Pass]

Init ==
    /\ links = [u \in Urls |-> None]
    /\ folders = [f \in FolderIds |-> None]
    /\ \E n \in Names : config = [folder |-> None, group |-> n, count |-> 0]
    /\ starred = {}
    /\ unstars = {}
    /\ lock = None
    /\ pass = [p \in Passes |-> IdlePass]

-----------------------------------------------------------------------------
(* Rows and lookups *)

Present  == {u \in Urls : links[u] # None}
Existing == {f \in FolderIds : folders[f] # None}
Places   == Existing \cup {None}

\* SQLite gives a new row the largest id in use plus one, so the id of the
\* last folder is used again once that folder is deleted.
IsNextId(f) ==
    /\ \A g \in Existing : g < f
    /\ \A h \in FolderIds : h < f => \E g \in Existing : g >= h

\* freshrss_folder(session, c): the rows it may return.  The fallback query
\* has no ORDER BY, hence a set; it is empty when the code returns None.
FolderOf(c) ==
    IF c.folder # None /\ c.folder \in Existing
    THEN {c.folder}
    ELSE {f \in Existing : folders[f] = c.group}

\* _unstar_leaving_freshrss: the items of links U that leave the tracked
\* folder t when they are filed in f.
Leaving(U, f, t) ==
    {links[u].item : u \in {v \in U : /\ links[v].item # None
                                      /\ links[v].folder # None
                                      /\ links[v].folder # f
                                      /\ links[v].folder = t}}

\* The choices of t above: a folder, or None when there is none.
TrackedChoices == IF FolderOf(config) = {} THEN {None} ELSE FolderOf(config)

\* Mutant of Forget: the folder is deleted, the config goes on tracking its id.
ForgetNothing(c, F) == c

\* forget_freshrss_folder(session, user, F)
Forget(c, F) == IF c.folder \in F THEN [c EXCEPT !.folder = None] ELSE c

-----------------------------------------------------------------------------
(* Requests of the user *)

AddLink(u, f) ==
    /\ links[u] = None
    /\ links' = [links EXCEPT ![u] = [folder |-> f, item |-> None]]
    /\ UNCHANGED <<folders, config, starred, unstars, lock, pass>>

\* move_link, bulk_move_links, and edit_link when it keeps the address: refile,
\* commit, then spawn the unstars.
MoveLinks(U, f) ==
    /\ U # {} /\ U \subseteq Present
    /\ links' = [u \in Urls |-> IF u \in U THEN [links[u] EXCEPT !.folder = f]
                                           ELSE links[u]]
    /\ \E t \in TrackedChoices : unstars' = unstars \cup Leaving(U, f, t)
    /\ UNCHANGED <<folders, config, starred, lock, pass>>

\* edit_link with a new address: the row keeps its freshrss_item_id.
EditLink(u, v, f) ==
    /\ links[u] # None /\ links[v] = None
    /\ links' = [links EXCEPT ![u] = None, ![v] = [links[u] EXCEPT !.folder = f]]
    /\ \E t \in TrackedChoices : unstars' = unstars \cup Leaving({u}, f, t)
    /\ UNCHANGED <<folders, config, starred, lock, pass>>

\* delete_link with the unstar box ticked.
DeleteAndUnstar(u) ==
    /\ links[u] # None
    /\ unstars' = unstars \cup ({links[u].item} \ {None})
    /\ links' = [links EXCEPT ![u] = None]
    /\ UNCHANGED <<folders, config, starred, lock, pass>>

\* delete_link without the box, bulk_delete_links and api_delete_link.
DeleteLinks(U) ==
    /\ U # {} /\ U \subseteq Present
    /\ links' = [u \in Urls |-> IF u \in U THEN None ELSE links[u]]
    /\ UNCHANGED <<folders, config, starred, unstars, lock, pass>>

AddFolder(n) ==
    /\ \E f \in FolderIds : IsNextId(f) /\ folders' = [folders EXCEPT ![f] = n]
    /\ UNCHANGED <<links, config, starred, unstars, lock, pass>>

\* _rename: the tracked folder carries its new name into the settings.
RenameFolder(f, n) ==
    /\ f \in Existing
    /\ \E t \in TrackedChoices :
          config' = IF t = f THEN [config EXCEPT !.group = n, !.folder = f]
                             ELSE config
    /\ folders' = [folders EXCEPT ![f] = n]
    /\ UNCHANGED <<links, starred, unstars, lock, pass>>

\* What DELETE FROM links, or SET folder_id = NULL, leaves of the links of f.
Emptied(f, drop) ==
    [u \in Urls |->
        IF links[u] # None /\ links[u].folder = f
        THEN IF drop THEN None ELSE [links[u] EXCEPT !.folder = None]
        ELSE links[u]]

DeleteFolder(f, drop) ==
    /\ f \in Existing
    /\ links' = Emptied(f, drop)
    /\ config' = Forget(config, {f})
    /\ folders' = [folders EXCEPT ![f] = None]
    /\ UNCHANGED <<starred, unstars, lock, pass>>

\* freshrss_settings_save: a new group name renames the existing folder.
SaveSettings(n) ==
    /\ n # config.group
    /\ \E t \in TrackedChoices :
          /\ folders' = IF t = None THEN folders ELSE [folders EXCEPT ![t] = n]
          /\ config' = [config EXCEPT !.group = n,
                                      !.folder = IF t = None THEN @ ELSE t]
    /\ UNCHANGED <<links, starred, unstars, lock, pass>>

PurgeFreshRSS ==
    /\ \E t \in TrackedChoices :
          IF t = None
          THEN UNCHANGED <<links, folders>>
          ELSE /\ links' = Emptied(t, TRUE)
               /\ folders' = [folders EXCEPT ![t] = None]
    /\ config' = [config EXCEPT !.folder = None, !.count = 0]
    /\ UNCHANGED <<starred, unstars, lock, pass>>

PurgeAll ==
    /\ links' = [u \in Urls |-> None]
    /\ folders' = [f \in FolderIds |-> None]
    /\ config' = Forget(config, FolderIds)
    /\ UNCHANGED <<starred, unstars, lock, pass>>

-----------------------------------------------------------------------------
(* The FreshRSS server and the spawned unstar tasks *)

Star(i) ==
    /\ starred' = starred \cup {i}
    /\ UNCHANGED <<links, folders, config, unstars, lock, pass>>

UnstarByHand(i) ==
    /\ starred' = starred \ {i}
    /\ UNCHANGED <<links, folders, config, unstars, lock, pass>>

UnstarDone(i) ==
    /\ i \in unstars
    /\ unstars' = unstars \ {i}
    /\ starred' = starred \ {i}
    /\ UNCHANGED <<links, folders, config, lock, pass>>

\* No session, a refused request, a timeout: logged, and never retried.
UnstarFailed(i) ==
    /\ i \in unstars
    /\ unstars' = unstars \ {i}
    /\ UNCHANGED <<links, folders, config, starred, lock, pass>>

-----------------------------------------------------------------------------
(* A sync pass *)

\* A caller loads the config into its session, then waits for the lock.
StartPass(p) ==
    /\ pass[p].pc = "idle"
    /\ pass' = [pass EXCEPT ![p] = [IdlePass EXCEPT !.pc = "waiting", !.cfg = config]]
    /\ UNCHANGED <<links, folders, config, starred, unstars, lock>>

\* Mutant of Acquire: no lock is waited for.
AcquireWithoutLock(p) ==
    /\ pass[p].pc = "waiting"
    /\ lock' = p
    /\ pass' = [pass EXCEPT ![p].pc = "fetching", ![p].cfg = config]
    /\ UNCHANGED <<links, folders, config, starred, unstars>>

\* Mutant of Acquire: the config loaded before the wait is not refreshed.
AcquireWithoutRefresh(p) ==
    /\ pass[p].pc = "waiting"
    /\ lock = None
    /\ lock' = p
    /\ pass' = [pass EXCEPT ![p].pc = "fetching"]
    /\ UNCHANGED <<links, folders, config, starred, unstars>>

\* Lock acquired, session.refresh(config), first request sent.
Acquire(p) ==
    /\ pass[p].pc = "waiting"
    /\ lock = None
    /\ lock' = p
    /\ pass' = [pass EXCEPT ![p].pc = "fetching", ![p].cfg = config]
    /\ UNCHANGED <<links, folders, config, starred, unstars>>

\* _greader_starred: starred articles, from the newest on, MaxStarred of them at
\* most; a page that is not 200 ends the list, without an error.
Fetch(p, S) ==
    /\ pass[p].pc = "fetching"
    /\ S \subseteq starred
    /\ Cardinality(S) <= MaxStarred
    /\ pass' = [pass EXCEPT ![p].pc = "fetched", ![p].fetched = S]
    /\ UNCHANGED <<links, folders, config, starred, unstars, lock>>

\* The pass ends, by a return or by an exception: lock and session are freed.
Release(p) ==
    /\ lock' = None
    /\ pass' = [pass EXCEPT ![p] = IdlePass]

FetchFails(p) ==
    /\ pass[p].pc = "fetching"
    /\ Release(p)
    /\ UNCHANGED <<links, folders, config, starred, unstars>>

StarredUrls(p) == {UrlOf[i] : i \in pass[p].fetched}

\* One article of the answer for each of its addresses.
ItemChoices(p) ==
    {g \in [StarredUrls(p) -> pass[p].fetched] :
        \A u \in StarredUrls(p) : UrlOf[g[u]] = u}

\* The folder the pass files into, created when there is none.
Targets(c) == IF FolderOf(c) # {} THEN FolderOf(c) ELSE {f \in FolderIds : IsNextId(f)}

\* Imported links from before the freshrss_item_id column get theirs.
Backfilled(f, known, g) ==
    [u \in Urls |->
        IF u \in known /\ links[u].folder = f /\ links[u].item = None
        THEN [links[u] EXCEPT !.item = g[u]] ELSE links[u]]

Imported(tbl, new, f, g) ==
    [u \in Urls |-> IF u \in new THEN [folder |-> f, item |-> g[u]] ELSE tbl[u]]

\* config.synced_count += n, on the copy of the session: an UPDATE only when
\* the value changes.
Counted(c, base, n) ==
    IF n = 0 THEN c
    ELSE [c EXCEPT !.count = IF base + n < CountCap THEN base + n ELSE CountCap]

\* No article: `return 0` before any commit, so a folder just created is
\* rolled back with the session.
NothingStarred(p) ==
    /\ pass[p].pc = "fetched"
    /\ pass[p].fetched = {}
    /\ Release(p)
    /\ UNCHANGED <<links, folders, config, starred, unstars>>

\* Mutant of OrphansOf: every starred article filed elsewhere, imported or not.
OrphansByUrl(f, known) ==
    {i \in Items : UrlOf[i] \in known /\ links[UrlOf[i]].folder # f}

\* Mutant of OrphansOf: unstars lost in a restart are never caught up.
OrphansNever(f, known) == {}

OrphansOf(f, known) ==
    {links[u].item : u \in {v \in known : links[v].folder # f /\ links[v].item # None}}

\* From the answer of the server to the next await, or to the end.
Reconcile(p) ==
    /\ pass[p].pc = "fetched"
    /\ pass[p].fetched # {}
    /\ \E f \in Targets(pass[p].cfg), g \in ItemChoices(p) :
          LET c       == pass[p].cfg
              known   == StarredUrls(p) \cap Present
              new     == StarredUrls(p) \ known
              orphans == OrphansOf(f, known)
              saved   == IF c.folder = f THEN config ELSE [config EXCEPT !.folder = f]
              filled  == Backfilled(f, known, g)
          IN  /\ folders' = [folders EXCEPT ![f] = IF @ = None THEN c.group ELSE @]
              /\ IF orphans # {}
                 THEN /\ links' = filled
                      /\ config' = saved
                      /\ pass' = [pass EXCEPT ![p].pc = "unstarring", ![p].cfg = saved,
                                              ![p].folder = f, ![p].known = known,
                                              ![p].orphans = orphans]
                      /\ UNCHANGED lock
                 ELSE /\ links' = Imported(filled, new, f, g)
                      /\ config' = Counted(saved, c.count, Cardinality(new))
                      /\ Release(p)
    /\ UNCHANGED <<starred, unstars>>

OrphanDone(p, i) ==
    /\ pass[p].pc = "unstarring" /\ i \in pass[p].orphans
    /\ pass' = [pass EXCEPT ![p].orphans = @ \ {i}]
    /\ starred' = starred \ {i}
    /\ UNCHANGED <<links, folders, config, unstars, lock>>

OrphanFailed(p, i) ==
    /\ pass[p].pc = "unstarring" /\ i \in pass[p].orphans
    /\ pass' = [pass EXCEPT ![p].orphans = @ \ {i}]
    /\ UNCHANGED <<links, folders, config, starred, unstars, lock>>

\* Mutant of Import: the unique index is not there to refuse a second link.
ImportOverwrites(p) ==
    LET new == StarredUrls(p) \ pass[p].known
        f   == pass[p].folder
    IN  /\ pass[p].pc = "unstarring" /\ pass[p].orphans = {}
        /\ new # {} => f \in Existing
        /\ \E g \in ItemChoices(p) : links' = Imported(links, new, f, g)
        /\ config' = Counted(config, pass[p].cfg.count, Cardinality(new))
        /\ Release(p)
        /\ UNCHANGED <<folders, starred, unstars>>

\* After the unstars: the links that were missing before them are inserted.
Import(p) ==
    LET new == StarredUrls(p) \ pass[p].known
        f   == pass[p].folder
    IN  /\ pass[p].pc = "unstarring" /\ pass[p].orphans = {}
        /\ new # {} => f \in Existing
        /\ new \cap Present = {}
        /\ \E g \in ItemChoices(p) : links' = Imported(links, new, f, g)
        /\ config' = Counted(config, pass[p].cfg.count, Cardinality(new))
        /\ Release(p)
        /\ UNCHANGED <<folders, starred, unstars>>

\* The folder was deleted during the await (its expired row cannot be read
\* back) or the user saved one of the links (unique index): the pass raises.
ImportFails(p) ==
    LET new == StarredUrls(p) \ pass[p].known
    IN  /\ pass[p].pc = "unstarring" /\ pass[p].orphans = {}
        /\ \/ new # {} /\ pass[p].folder \notin Existing
           \/ new \cap Present # {}
        /\ Release(p)
        /\ UNCHANGED <<links, folders, config, starred, unstars>>

\* The process restarts: what was not committed is gone, so are the tasks.
Restart ==
    /\ lock' = None
    /\ pass' = [p \in Passes |-> IdlePass]
    /\ unstars' = {}
    /\ UNCHANGED <<links, folders, config, starred>>

-----------------------------------------------------------------------------

UserStep ==
    \/ \E u \in Urls, f \in Places : AddLink(u, f)
    \/ \E U \in SUBSET Urls, f \in Places : MoveLinks(U, f)
    \/ \E u, v \in Urls, f \in Places : EditLink(u, v, f)
    \/ \E u \in Urls : DeleteAndUnstar(u)
    \/ \E U \in SUBSET Urls : DeleteLinks(U)
    \/ \E n \in Names : AddFolder(n)
    \/ \E f \in FolderIds, n \in Names : RenameFolder(f, n)
    \/ \E f \in FolderIds, drop \in BOOLEAN : DeleteFolder(f, drop)
    \/ \E n \in Names : SaveSettings(n)
    \/ PurgeFreshRSS
    \/ PurgeAll
    \/ \E i \in Items : Star(i)
    \/ \E i \in Items : UnstarByHand(i)

TaskStep ==
    \/ \E i \in Items : UnstarDone(i)
    \/ \E i \in Items : UnstarFailed(i)

PassStep(p) ==
    \/ StartPass(p)
    \/ Acquire(p)
    \/ \E S \in SUBSET Items : Fetch(p, S)
    \/ FetchFails(p)
    \/ NothingStarred(p)
    \/ Reconcile(p)
    \/ \E i \in Items : OrphanDone(p, i)
    \/ \E i \in Items : OrphanFailed(p, i)
    \/ Import(p)
    \/ ImportFails(p)

Next ==
    \/ UserStep
    \/ TaskStep
    \/ \E p \in Passes : PassStep(p)
    \/ Restart

Spec == Init /\ [][Next]_vars

-----------------------------------------------------------------------------
(* Properties *)

\* A pass holds the lock from Acquire to its end.
Holding(p) == pass[p].pc \notin {"idle", "waiting"}

\* At most one pass of the account is between the acquisition of its lock and
\* its end: the loop, the button and the API never read and insert at once.
OnePassAtATime == \A p, q \in Passes : Holding(p) /\ Holding(q) => p = q

\* Neither freshrss_configs.folder_id, which has no foreign key, nor a link's
\* folder_id ever names a folder that is gone, whoever deletes it and when.
NoDanglingFolder ==
    /\ config.folder \in Places
    /\ \A u \in Present : links[u].folder \in Places

\* What a step asks the server to unstar that was not already asked.
NewlyOrphaned(p) == pass'[p].orphans \ pass[p].orphans
NewlySpawned     == unstars' \ unstars

\* An unstar is only ever requested for the article recorded on a link of the
\* library: for a pass, a link it finds outside the FreshRSS folder; for a
\* request, a link it deletes or files elsewhere.  An article whose link was
\* saved by hand and never recorded keeps its star.
UnstarsComeFromTheLibrary ==
    [][/\ \A p \in Passes : \A i \in NewlyOrphaned(p) :
             \E u \in Present : /\ links[u].item = i
                               /\ links[u].folder # pass'[p].folder
       /\ \A i \in NewlySpawned :
             \E u \in Present : /\ links[u].item = i
                               /\ \/ links'[u] = None
                                  \/ links'[u].folder # links[u].folder]_vars

\* A pass adds links and fills missing item ids: it never deletes, refiles or
\* re-attributes a link of the library, even one saved while it was waiting.
PassesOnlyAdd ==
    [][pass' # pass =>
         \A u \in Present :
             /\ links'[u] # None
             /\ links'[u].folder = links[u].folder
             /\ links[u].item # None => links'[u].item = links[u].item]_vars

\* The links a step inserts.
Inserted == {u \in Urls : links[u] = None /\ links'[u] # None}

\* synced_count misses no import: a pass that inserts n links leaves the row's
\* count at least n above what it was, whatever passes ran while it waited for
\* the lock.
NoImportUncounted ==
    [][pass' # pass => \/ config'.count = CountCap
                       \/ config'.count >= config.count + Cardinality(Inserted)]_vars

\* Violated.  docs/freshrss.md says the target folder is tracked by identity:
\* the folder a pass files its imports into is the one the row then records.
ImportsAreTracked ==
    [][pass' # pass =>
         \A u \in Inserted : config'.folder = links'[u].folder]_vars

-----------------------------------------------------------------------------
(* What it implements *)

Record   == [u \in Urls |-> IF links[u] = None THEN None ELSE links[u].item]
Shown    == UNION {pass[p].fetched : p \in Passes}
UnderWay == unstars \cup UNION {pass[p].orphans : p \in Passes}

Abstract == INSTANCE StarMirror WITH
    saved <- Present, record <- Record, shown <- Shown, leaving <- UnderWay

\* Whatever passes, requests, unstar tasks and restarts interleave, what they
\* do to the library and to the stars is what StarMirror allows: a known article
\* is never overwritten, an article enters the library only if the server
\* showed it starred, and the program takes the star of known articles only.
MirrorsTheStars == Abstract!Spec
=============================================================================
