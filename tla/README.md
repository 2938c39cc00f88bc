# Excerpta: a verification project

Excerpta is a self-hosted link manager: one FastAPI process, one asyncio loop,
one SQLite file, and a browser interface. These modules model the parts of it
that keep state and can go wrong in ways its tests hardly reach: what happens
between two `await`s, after a restart, with a reused id, or at a full cache.
TLC checks them on small instances; TLAPS proves the main results for every
value of the constants.

Everything is translated from `src/app`. The comments of the modules name the
functions; `PROJECT.json` gives the lines of every definition.

## How the program runs, and what a step is

A request handler is a coroutine, or a plain function FastAPI runs for it. The
database session is synchronous, so a coroutine touches the loop's other tasks
only where it awaits: the network, a lock, a sleep. **One action of a model is
the code between two awaits**, with its commit. Work that outlives the request
goes through Starlette's `BackgroundTasks` (run in order after the response) or
`background.spawn` (a task nobody awaits). SQLite gives a new row the id
`max(id) + 1`, so the id of the newest row is reused once that row is deleted;
the models allocate ids the same way, because several hazards depend on it.

## Inventory

| Component | State it keeps | Operations | Interacts with | What must hold |
|---|---|---|---|---|
| FreshRSS sync (`routes/freshrss.py`, `background.py`) | `freshrss_configs` row, one `asyncio.Lock` per account, links with an item id, stars on the server | `sync_user` from the loop, the button and the API; settings; unstars | links, folders, remote server | passes exclude each other, imports are counted, no link is overwritten, stars settle |
| Folders (`routes/folders.py`) | `folders` rows (name, parent, order) | add, edit, rename, sort, delete, reorder | FreshRSS settings, links | a forest, no missing parent |
| Folder pages (`utils.py`) | none: computed from the rows | tree, totals, filter, loop test | every page | right on every table, loops included, and finished in a bounded number of turns |
| Tags and index (`routes/tags.py`, `fts_schema.py`) | `tags`, `link_tags`, `fts_links` | rename, merge, delete, bulk tag, rebuild | links | every link found by its tags |
| Links (`links/crud.py`) | `links` rows | add, edit, move, delete, bulk | all of the above | what the models that share its rows ask of them |
| Tasks of a link (`enrichment.py`, `archive.py`, `reader.py`) | columns filled later; `_archive_running` | enrich, archive, reader view, archive all | the web, links | tasks only fill; every archive is answered |
| Dead link check (`settings.py`) | `_check_jobs`: total, done, running | start, check one, count, end | links, the web | one run, honest progress, it ends |
| Purges, import, export (`settings.py`, `netscape.py`) | none of its own | export, import, purge, rebuild | links, folders, tags | an import restores an export |
| Rate limits (`ratelimit.py`) | `_calls` by client and route, a call counter | accept, refuse, cleanup | every route, two of them twice | quotas hold, memory is freed |
| Image cache (`links/proxy.py`) | `_img_cache`, its byte counter | warm, proxy, evict, expire | the web | exact counter, both caps |
| Network guard (`net_guard.py`) | `_dns_cache` | resolve, request | the web | bounded cache, no verdict older than its time |
| Accounts (`admin.py`, `oidc.py`, `auth.py`) | `users`: active, admin, session version | sign in, toggle, delete | every route | an active administrator remains, ended sessions stay ended |
| Demo spaces (`demo.py`) | disposable users, their links | create, add, purge (a process of its own) | links | only expired spaces go, and they all go |
| Database (`database.py`) | schema, triggers, merged tags | `init_db`, `cleanup_freshrss_tag` | start-up, another start | restartable anywhere, nothing lost |
| API, public page, language, encryption, browser script | no state between requests | | | |

The hard behaviours are listed line by line under `hazards` in `PROJECT.json`,
with the properties that cover them, or the reason why none does yet.

## Modules

| Module | Models | Checked by | Proved in |
|---|---|---|---|
| `FreshRSSSync` | a synchronised account: passes, user, server, restarts | `MCFreshRSSSync`, `MCFreshRSSLive` | `FreshRSSSyncProofs` |
| `StarMirror` | what the synchronisation promises, without its passes | `MCFreshRSSSync` (a refinement) | `FreshRSSSyncProofs` |
| `FolderForest` | the handlers that write folders | `MCFolders` | `FolderForestProofs` |
| `FolderWalks` | the climb and the search over the folder table | `MCFolders` | `FolderForestProofs` |
| `FolderPages` | the listing and the totals of the folder table | `MCFolders` | `FolderForestProofs` |
| `TagIndex` | tags and the full-text index | `MCIndex` | `TagIndexProofs` |
| `Migrations` | `init_db`: starts, killed and concurrent | `MCMigrations`, `MCIndex` | `MigrationsProofs` |
| `TagStore` | both: the tags as requests and as starts change them | `MCIndex` | `MigrationsProofs` |
| `LinkTasks` | the background tasks of links | `MCWork` | `BackgroundWorkProofs` |
| `LinkChecker` | the dead link check | `MCWork` | `BackgroundWorkProofs` |
| `BackgroundWork` | both: the background work of an account | `MCWork` | `BackgroundWorkProofs` |
| `RateLimit` | the rate limiter | `MCProcess` | `ProcessMemoryProofs` |
| `ImgCache` | the image cache | `MCProcess` | `ProcessMemoryProofs` |
| `DnsCache` | the resolver cache of the network guard | `MCProcess` | `ProcessMemoryProofs` |
| `ProcessMemory` | the three: what the process keeps in memory | `MCProcess` | `ProcessMemoryProofs` |
| `BookmarkParser` | the parser of bookmark files | `MCBookmarks`; `BookmarkTransfer` uses its transitions | `BookmarkParserProofs` |
| `BookmarkTransfer` | export and import | `MCBookmarks` | |
| `Accounts` | sign-in, sessions, administration | `MCAccounts` | `AccountsProofs` |
| `DemoSpaces` | demonstration spaces and their purge | `MCAccounts` | `AccountsProofs` |
| `Users` | both: the accounts, and those of a demonstration | `MCAccounts` | `AccountsProofs` |

`TagStore`, `BackgroundWork`, `ProcessMemory` and `Users` compose models that share
no state: each extends one and instantiates the others (`Upgrade`, `Tasks`, `Images`,
`Resolver`, `Demo`), gives their constants a value and an assumption, and states
the properties that are about both. The MC modules and the proofs extend them.

An MC module that checks two or three models that share no state holds them side
by side: a variable `moving`, chosen at the start, says which of them moves, so a
behaviour of it is a behaviour of one model and the run explores the sum of
their states, not the product.

**FreshRSSSync.** `links[u]` is the row of an address (folder, FreshRSS item, or
no row), `folders` the names by id, `config` the settings row, `starred` the
remote stars, `unstars` the requests spawned by a handler and not answered yet,
`lock` the holder of the account's lock and `pass[p]` the local variables of a
running `sync_user`. `Acquire` is the lock and `session.refresh`; `Fetch` takes
what the server answers, `MaxStarred` articles at most (`_MAX_STARRED_ITEMS`) and fewer
when a page failed, and finds or creates the folder; `Reconcile` backfills item ids and finds the orphans;
`OrphanDone`/`OrphanFailed` are the answers of `unstar_items`; `Import` inserts
and commits. `FetchFails`, `ImportFails` and `Restart` roll back.

**FolderForest.** `folder` is the table in the session, `saved` the one
committed, `graph` the dict of parents `reorder_folders` keeps, `busy` that it
runs. A reorder is one action per item, so a property can speak of the middle
of it; requests do not interleave with it, because it does not await between
its items. `CreatesCycle` is written without recursion, as membership in the
least set closed under parent.

**FolderWalks.** The loops of `creates_cycle` and `descendant_folder_ids`, one action
per turn, on any table: `parents` is the dict, `current`, `seen`, `queue` and
`result` are the local variables, `at` tells which loop runs or what it
answered. That the climb answers what `CreatesCycle` says is `ClimbIsExact`;
`turns` counts the turns, so that "it ends" is an invariant and not a liveness
property. A handler awaits nothing inside these loops, so they run apart from the
requests, on the table as it is then.

**FolderPages.** The recursions of `build_folder_tree` and `folder_cumulative_counts`,
one action per call, turn and return, over any rows: `present` are the ids that have
one, and a parent may be missing or on a loop. `walks` and `counts` are the calls that
have not returned, the last on top, each with the children it has still to take;
`listing` is the list, `counted` and `totals` the memo, and `visiting` is what is on the
stack (`Deeper`). `doing` tells which function runs or ended. That they end is stated, as in
`FolderWalks`, by bounds: a call for each id at most, and none taken twice.

**StarMirror.** The addresses saved, the article recorded on each, the stars, the
articles the server has shown and those whose star is being taken back: what an
account may rely on, in which a pass, its lock, the folders and the settings do
not appear. The mapping is at the end of `FreshRSSSync`: `record` is the item of
the rows, `shown` what the passes have fetched and not yet imported, `leaving`
the unstars of handlers and passes that are under way. A step of the
synchronisation is one of the mirror's, or none. What it excludes: an import of an article
the server did not show, an article moved from one address to another or
forgotten by a pass, a star taken back for an article the library never had.

**TagIndex.** Titles, tags, `link_tags` and the rows of `fts_links` with the
text each indexed. `WriteLink` is the trigger on update, which reads the tags
as they are when it fires. `Norm` is the strip and lower of the tag helpers;
the typed names are one in capitals, one in small letters, the one a start removes and
a blank. Names that normalise to one are those of the old databases.

**Migrations.** `pc[s]` is the statement a start has reached. `disk` is what is
committed and `work` what the open transaction sees: the connection of
`sqlite3` commits a DDL statement by itself until the first `INSERT`, `UPDATE`
or `DELETE` opens a transaction, and everything after it waits for the commit at
the end. `writer` is the start that holds the transaction; another one waits,
or is refused after 5 s, and is started again. `Kill` may come before any
statement. Of the many ALTERs, those that another step depends on are
there by name (`folder_id`, `public_slug`, `api_key_hmac`), and `archive_status`
stands for the rest, which are independent of one another. `slugLost` is a history
variable: a start was stopped between the column of the slugs and its unique index
(`database.py:195-196`), each of which commits by itself. Left out: the refusal of
`create_all` when two starts create one table (`already exists`, before the
statements modelled, after which the start is run again), and the parent of a folder made for a
group, which is the group's (`database.py:164-167`) and so the id of a group, not of a folder.

**LinkTasks.** A task records what it read before its await (the address) and
writes to whatever row has its id afterwards. `Spawn` has the order of
`BackgroundTasks`: archive after enrichment, and nothing after one that raised.
`job` is the series of `archive_all`. The mass refresh and the refresh of imported
links keep the pairs of id and address they read at the start, so their
elements are enrichments asked for at once, any of which may be the slow one.
`lost` is a history variable: a restart or an exception lost an archiving.

**LinkChecker.** `job` is the entry of `_check_jobs`, `stage[r]` where a
background task is and `at[r][l]` where its check of a link is: queued, being
checked, resting after it, or counted. The semaphore is `Concurrency`. `faulty`
is a history variable: some check raised.

**RateLimit.** `calls[k]` are the stamps of a client and route, `counter` the
accepted calls since the last cleanup, `recent` a history variable: what each
limiter accepted in the last period, kept apart from what the code keeps. A route has
one limiter or two; `/api/v1/fetch-meta` and `/api/v1/freshrss/sync` have two, which
stamp one key, and `inside[k]` are the requests between the first and the second.

**ImgCache.** `cache` in insertion order, `bytes` the counter, `fetching` the
fetches between their lookup and their store. `EntryOf` and `OthersThan` are what
`pop` takes and leaves; `SizeOf` and `Unexpired` (in `DnsCache`) are sums and filters
written as recursive functions, which the prover can reason about.

**DnsCache.** An entry carries the ticks it has left, a lookup the ticks since it
read the clock. The resolver answers with addresses the host has had during the
lookup; `since` is a history variable: how long ago each verdict was last true.
A lookup stores what it learnt even over a later answer, as the code does.

**BookmarkParser, BookmarkTransfer.** Any sequence of calls of `HTMLParser`; and
a round trip, in which the writer produces such a sequence from the tree of
folders, the parser reads it, and `ImportFolder` finds or creates the folders. The
tree is that of `build_folder_tree` on rows that form a forest (`Walk`, recursive);
`FolderPages` has the function itself. The writer and the importer are taken below
10 000 links (`settings.py:238`) and for addresses `_safe_url` accepts (252).

**Accounts.** `account` is the table of users, `settings` what `ADMIN_EMAIL` and
`REQUIRE_VERIFIED_EMAIL` are set to, which a restart may change, and `session` the
cookie of one browser, with the history bit `orphan` once its account is gone. The
table is empty at first, or that of an earlier release, to which the migration gave
`is_admin` 0 (`database.py:189`). Handlers do not await between what they check and
what they commit, so each is one step. The rows an account owns are left out: with
`PRAGMA foreign_keys` (`database.py:25`) a deletion that forgets some fails whole.

**DemoSpaces.** A space has links, some with tags, and an age. `purge` is what the
purge has read: it is another process, whose reads come before its first write,
and from there on it holds the write lock. `Unmoved` is what SQLite (a foreign key
to the account) and the ORM (the count of the associations it deletes) ask of the
space by then; otherwise the purge is undone as a whole. The links of a space
are model values, not addresses, since an edit gives a link any address.

## Runs

| Run | Instance | Shows |
|---|---|---|
| `FreshRSS_safety` | folder id 1 (hence reused); 1 address, 2 folder names and 2 passes, or 2 addresses, 1 name and 1 pass at a time | `NoDanglingFolder`, `OnePassAtATime`, `NoImportUncounted`, `UnstarsComeFromTheLibrary`, `PassesOnlyAdd`, and `MirrorsTheStars`: the refinement of `StarMirror` |
| `FreshRSS_settles` | 2 addresses and articles, 1 folder name, folder id 1, 1 pass repeated for ever, answers capped at 1 or at 2 | `SyncSettles` |
| `Folders_forest` | 4 folders, one name; every table of 4 folders | `NoFolderLoop`, `ParentsExist`, `TopDownItemsApplied`; `ListIsTheForest`, `TotalsAreExact`, `ClimbIsExact`, `FilterIsExact` |
| `Index_tags` | 2 links, 3 tags, 4 typed names; 25 old databases, 2 starts, 1 killed | `IndexTypeOK`, `IndexComplete`, `IndexWrittenExact`, `MergeKeepsLinks`; `StartsMigrate`, `NothingIsLost`, `StartsSettle` |
| `Work_background` | 2 links checked one at a time by 2 runs; 1 link with 2 addresses, 2 tasks and a series | `OneRunAtATime`, `ProgressIsExact`, `CheckEnds`; `PendingIsServed`, `TasksOnlyFill`, `EveryArchiveAnswered` |
| `Process_memory` | 1 client, a route of period 2 and quotas 2 and 3, one of period 4 and quota 2, cleanup every 3; 3 images, 2 entries, 3 bytes; 3 hosts, 2 entries, 2 lookups, a TTL of 2 | `QuotaHolds`, `WindowIsExact`, `SweepFreesIdleKeys`; `CachesAreCapped`, `VerdictsAreRecent` |
| `Bookmarks_files` | every tree of 3 folders, 2 names, 2 links, 1 edit; every file of 6 tags | `ImportRestores`, `RoundTripExact`; `ReadingIsExact` |
| `Accounts_users` | 2 subjects, 3 ids, 2 changes of version, any settings, every table of an earlier release; 2 spaces, a link of the catalogue and one of the visitor | `AdminRemains`, `RefusedForGood`; `OnlyExpiredGo`, `ExpiredGo` |
| `FreshRSS_ImportsAreTracked` | 2 addresses, 1 pass | a violation: see below |
| `TagIndex_IndexExact` | as `Index_tags` | a violation: see below |
| `Migrations_IndexRebuilt` | 1 start, killed once | a violation: see below |
| `Migrations_GroupsFit` | 1 start, never killed | a violation: see below |

**Bounds.** Each is the least at which the hazard appears. Two passes are needed
for a race and a third adds none, the lock being the only thing they share. One
folder id is enough to delete a folder and see its id taken again, and the root
is the other place a link can be in; two are needed where a pass must not mistake
one folder for another. A loop that a walk can miss
needs three folders and a reorder that moves one of them under another, hence
four. A merge needs two tags and a link that has both, a third shows an
unconcerned one. Two starts race as any number do, since one at most holds the
transaction, and one kill at any statement leaves every partial database there
is; a restart begins from `disk` alone. The old databases are those the code
looks for: the first index or the first triggers, with or without `folder_id`,
groups (none, empty, with members, without the table of members) and tags
spelt twice, and the current one. `Work_background` has one link and checks one
at a time: two links, where an id is reused between two tasks, and any concurrency
are covered by the proofs of `LinkTasks` and `LinkChecker`, and for liveness a
task touches one link only. A cache of two with three keys is the least that evicts
the older and keeps the newer; `TTL` 2 and `MaxWait` 1 let a slow answer be stored
with less left than a quick one. Three ids for two subjects let an id be
skipped and reused; two changes of version (`MaxVersion`) let an account be disabled and
enabled again. Two requests between two limiters (`MaxInside`) are enough for both
to find a quota that has room for one. The two articles of `FreshRSS_settles` are one
more than the smaller cap (`cap`), so that a star may lie beyond it. `CountCap` stops the import counter and `MaxTime` the clock;
`MaxTasks` bounds the tasks waiting at once, `MaxFetches` and `MaxEdits` what
their names say. The proofs below remove the bounds for the results they cover.

**Deadlock** is checked in the two runs of `FreshRSSSync`. Elsewhere the system
really may stop: the clock of `Process_memory` ends, the tables of
`Folders_forest` and the files of `Bookmarks_files` are computed once, the starts
of `Index_tags` are over once they are up, a check or a task of `Work_background`
may be the last, and versions and ids of `Accounts_users` run out.

**Fairness.** `MCFreshRSSLive`: weak on starting a pass, since `_freshrss_loop`
starts one again and again; strong on acquiring the lock, since `asyncio.Lock`
wakes its waiters in order; weak on the steps that await nothing; strong on a
answer without a failed page and an accepted unstar, which is what self-healing promises to
wait for: a server asked again and again gives all the pages asked of it at some
time. Those are the newest `MaxStarred` stars at most (`Newest`), at each pass anew,
so nothing is assumed nor claimed of the older ones. `SyncSettles` supposes that the user and
the restarts stop at some time (`Quiet`), as convergence speaks of an account at rest; what they did before,
and how many passes fail and unstars are refused, is not bounded. `LinkTasks` and `LinkChecker`: weak on
every task, since each of its awaits has a time limit in the code (10 s and
60 s for the pages and the archive, `_CHECK_TIMEOUT` for a check). Nothing is
assumed of a restart, of an exception, or of the user. `Migrations`: weak on
the steps of each start and on starting again, since the compose file restarts
the container (`restart: unless-stopped`); kills are bounded. `DemoSpaces`: weak
on running the purge, which a timer does every hour (`demo_purge.py`), strong on
its steps, since it is not killed for ever; `ExpiredGo` supposes that visitors
leave the expired spaces as they are some day (`ExpiredLeftAlone`), because a purge that
a visitor disturbs is undone as a whole, that of the other spaces included; what they do
meanwhile in spaces that have not expired does not matter.

**Mutants.** Each property of each passing run has a mutant: a definition of the
model replaced by what a plausible bug would make of it (the lock not taken,
the row not refreshed, the counter not reset, the cleanup with the caller's
period), with which TLC finds the property violated. They stand before the
definition they alter.

## What the violations show

1. `ImportsAreTracked`. A pass reads the settings row, then waits for FreshRSS.
   If the user deletes the tracked folder meanwhile, the pass creates a folder,
   which can take the id just freed; `config.folder_id != folder.id`
   (`routes/freshrss.py:285`) then compares with the value read before and
   is false, so the cleared column is not written. The imports go to a folder the
   settings track only by its name, against `docs/freshrss.md:47`.
2. `IndexExact`. Merging a tag rewrites the index of the links that did not
   carry the target (`routes/tags.py:84`). Those that carried both keep the old
   name in the index, and a search by it finds them, against what
   `tests/test_tag_rename_index.py` sets out to prevent. `IndexComplete`, which
   holds, says the index errs only by excess.

3. `IndexRebuilt`. `init_db` replaces the triggers in statements that commit one
   by one, and rebuilds the index in the transaction that is committed last
   (`database.py:134-142`, `295`). Killed in between, or refused by another start,
   it leaves triggers that carry the marker, so no later start rebuilds: the
   links written by the old triggers stay without tags in the index, against
   the comments at `database.py:127-128` and `140`. The button of the
   settings (`RebuildFts`) is the way out.
4. `GroupsFit`. The links of the former groups are filed (`database.py:171`) before
   `links.folder_id` is added (`database.py:183-185`). A database of the time of
   the groups is refused by the statement, at every start, against
   `database.py:150`. `StartsSettle` is about the others (`Startable`).

Other disagreements met while modelling, each at its line under `hazards`, have no
run of their own: the name of a folder created by a first pass whose settings are
renamed during its await; an item id kept on a link whose address is edited;
icons and reader view written on a link edited or replaced meanwhile; more than
five checks at once after one raised; archives lost by a restart; the catalogue
of the demonstration, which has no quota; a link moved by a request whose body is
awaited after its row was read. And four that properties which hold state as the code has them:

- a pass never sees the stars beyond the 5000 newest (`freshrss.py:147-150`), where
  `docs/freshrss.md:22` says that every sync fetches all starred articles (`SyncSettles`);
- a start stopped between `database.py:195` and 196 leaves `users.public_slug` without its
  unique index for good, where `models.py:32` declares it unique and `database.py:143`
  calls the migrations idempotent (`StartsMigrate`, `slugLost`);
- a request let through by both limiters of a route counts twice on their common key, so
  that `/api/v1/fetch-meta` serves 15 calls a minute to an address and
  `/api/v1/freshrss/sync` 5, and not the 30 and 10 they declare; and the limit of the API is counted by
  address and route, where `docs/api.md:13` says 60 a minute per key (`WindowIsExact`);
- the cookie of a deleted account is accepted once a new account has its id and is at its
  version, 0 at first, where `auth.py:17` has a cookie of an account that is gone
  emptied and `demo.py:18` keeps visitors apart (`RefusedForGood` excludes it: `orphan`).

An upgraded instance may have no administrator: its accounts get `is_admin` 0, and without
`ADMIN_EMAIL` only the first account of an empty table is promoted. `AdminRemains`
therefore says that the last one never goes, not that there is one.

## Proofs

Eight modules hold theorems. Each follows the same argument: an inductive
invariant (`IInv`, `CheckInv`, `WalkInv`, `PagesInv`, `StoreInv`, `ImgInv`, `DnsInv`,
`DemoInv`), `Init => IInv`, one step
per action for `IInv /\ [Next]_vars => IInv'`, and the properties as consequences. The
constants are only assumed to be what the code makes them (sets, positive quotas and
caps, an image that fits in the cache, `None` outside the sets), and TLC evaluates
each assumption on the instances of the runs.

- **FreshRSSSyncProofs**: `TypeCorrect`, `MutualExclusion`, `ReferencesExist`,
  `PassesAddOnly`, `EveryImportCounted`. `IInv` adds to the typing that the lock
  and the program counters agree (a pass past the lock is its holder), that a
  pass that has fetched has a folder to name, that nothing refers to a missing
  folder, and that the holder's copy of the counter is not behind the row. The
  last is what `session.refresh` establishes and mutual exclusion preserves.
  `UnstarsAreOfTheLibrary`: an unstar that is sent is of an article a link stands
  for, or stood for until the user deleted it; `MirrorHolds`: the refinement of `StarMirror`. One
  lemma per action says which step of the mirror it is, or that it is none, from
  `IInv` and from a further invariant: what a pass holds to import or to
  unstar, and what a handler has asked to unstar, is in `shown` and `leaving`, and
  carries the address of its article.
- **FolderForestProofs**: `FoldersTyped`, `FoldersAreAForest`,
  `NoFolderWithoutParent`, `TreesAreApplied`, `ClimbsAnswerExactly`,
  `FiltersListExactly`, `SidebarListsTheForest`, `TotalsCountExactly`. A forest is stated as well-foundedness:
  any non-empty set of folders has one whose parent is outside it, which needs
  no induction. `IInv` adds that the committed table is a forest too (a reorder that
  raises falls back on it), that the dict of the reorder agrees with the rows,
  and that the folders placed from the root down are closed under parent. The
  key lemma: moving a folder under one whose ancestors do not contain it
  keeps a table well founded. `WalkInv`, of the loops, on any table: what the
  climb has met is above the start, and the parent of what it has met is met or is
  where it is, so that a root or a second meeting decides; what the search has met or
  queued is below the start and its sub-folders are met or queued. Each id is
  queued once as a sub-folder, because the sub-folders of two folders are disjoint:
  the turns taken and the queue never exceed the ids whose parent was met, and one.
  `PagesInv`, of the two recursions, on any table. Of the list (`ListInv`): each call on
  the stack belongs to a folder of the list that what follows it is deeper than; a
  folder whose parent was walked is listed or about to be (`NoneForgotten`), so that a
  folder left for the last loop has no root above it; and what a call has still to
  list comes after what it has listed. Of the totals (`CountInv`): a call adds up the links of the
  children it has taken (`AddedUp`), which no two children share; the folders on the
  stack are above one another, so that a call is cut on a loop only, and the total of a folder
  below none is that of its descendants. No two calls on a stack are of the same
  folder, which bounds it.
- **TagIndexProofs**: `TypesHold`, `EveryLinkIsFound`, `RowsAreWrittenExact`,
  `MergesKeepLinks`. `IInv` adds to completeness that an association joins rows
  that exist: without it a new link would inherit the tags of the one whose id
  it takes. The eleven actions come down to two lemmas: a link written with the
  tags given, and rows refreshed while the other links keep a part of theirs.
- **MigrationsProofs**: `MigrationTypes`, `StoreTypes`, `EveryStartMigrates`,
  `NoStartLoses`, for any number of starts, kills, links, tags and groups, and any
  old database whose foreign keys hold. `Done(db, at, left)` says what a start that has reached
  statement `at` has already made of the database it sees; `Above` orders databases by how far
  they are migrated. `StoreInv`: every start is at a statement whose predecessors are
  done, and the transaction of the writer is above what is committed and takes
  nothing from it. A rollback or the kill of the writer falls back on the disk, which is
  why both orders are needed: the starts without a transaction have only seen the
  disk, and statements only move it up. That a merge of tags keeps each link's names,
  and a second merge changes nothing, is proved from the least id of each name. The unique
  index of the slugs has an invariant of its own (`SlugInv`): on the disk, the column without
  the index means that a start stands between the two or that one was stopped there, and so
  in the open transaction, where the writer's own column is the only one a kill undoes.
- **BackgroundWorkProofs**, the tasks: `TypesHold`, `PendingAlwaysServed`,
  `TasksAlwaysOnlyFill`. `IInv` adds to the properties that a task that acts after an answer
  knows the page it asked for, and that only an enrichment has an archive after it.
  The check: `CheckTypesHold`, `RunsAreExclusive`, `ProgressAlwaysExact`. `CheckInv`
  says, as long as no check raised, that what is done, in progress and left adds up to
  the total, for the one run that is launched.
- **BookmarkParserProofs**: `ReadsExactly`, for any file of any length. The property
  speaks of the file alone: a list is open at a place when nowhere between its start and
  there more lists were closed than opened. The parser has a path, a stack of flags, a pending heading,
  the text it captures and the index of its last item; `Reads` says what each stands
  for in the calls it has had. The stack is the open lists (`IsStack`): each has
  as many open above it as its place says, which is what an end pops and a stray end
  does not. The heading is the one that would name a list opened now (`HeadingKept`);
  what is captured is the text of the last element (`Capturing`); and the
  last item is the one whose description nothing has ended (`Quiet`) and that has no
  note yet (`Taken`), so that a note goes to the right link or to none.
- **ProcessMemoryProofs**, the limiter: `TypeCorrect`, `NoQuotaExceeded`,
  `CountsExactly`, `IdleKeysFreed`. `LimitInv` says that each entry carries the period of its own
  route, so that a cleanup caused by another route computes the same window; the
  calls its one or two limiters accepted in a period are then exactly those kept, none of them
  the same, and each quota holds since a limiter that accepts counts those of the other too. The caches:
  `CachesStayCapped`, `VerdictsStayRecent`, for any caps, keys, sizes, fetches and
  lookups. Sums and filters over a list are handled by induction on its length (see
  below): the size of a concatenation is the sum of the sizes, so that what the counter adds and
  takes off is what enters and leaves; and the loop of evictions stops, at the
  latest when nothing is left, which fits because an image fits in the cache. A verdict
  keeps `since <= TTL - left`: each tick moves both sides by one, and a hit neither.
- **AccountsProofs**: `TypesHold`, `AdminAlwaysRemains`, `RefusalsLast`. `IInv` adds that a session is never ahead of its account's
  version and, when level with it, that the account is active: the version rises
  at each change that should end a session. That an administrator remains rests on
  every handler refusing to act on its own account, not on the count of
  administrators, which counts the disabled ones too. `PurgesTakeTheExpired`, of the
  demonstration: the list a purge read before it waited stays right, because an
  expired space stays expired until it goes and only a purge makes a space go, so
  that its id cannot be taken by a newer one meanwhile.

**Induction.** The induction theorems of the library take an operator, which no installed
prover instantiates. Where a fact is about the length of a list, the proofs use an
induction over sets of naturals instead (`Induction`: a set that has 0 and the
successor of each of its numbers has them all), proved from the well-foundedness of `<`
(`Least`); a recursive function is then shown equal to a function built by it.

**Model-checked only.** Liveness (`SyncSettles`, `EveryArchiveAnswered`,
`CheckEnds`, `StartsSettle`, `ExpiredGo`), which is outside the prover's reach; and
the round trip of `BookmarkTransfer` (`ImportRestores`, `RoundTripExact`): the writer is a
recursive operator over trees of folders, and what it computes on every tree is an
induction over data. The reading half of it is `ReadsExactly`.

## Plan

Order of what was done: the synchronisation first, as the one part with real
concurrency; the folders it files into; the index; the tasks; the memory of
the process and the files; then what the synchronisation promises and its
refinement, the starts, the accounts, the demonstration and the resolver cache.
The proofs followed, then the compositions they are stated on. What is left:

1. The await of `move_link` (`request.json()` between the read of a row and its use,
   listed under `hazards`), as a step of its own in `FreshRSSSync`; `bulk_move_links`
   awaits before it reads.
2. The writer of bookmark files call after call, as `FolderPages` has the list it
   reads, so that the round trip can be proved as the reading is.

## Not modelled

Of the JSON API, the check of the key, pagination and serialisation: its
handlers that write call `create_link`, the tag helpers and `sync_user`, which
are modelled. Of the settings, the profile form and the API key: one row,
written in one step. The listing, search and pagination of links and the
public page only read. Extraction of metadata and of the reader view, HTML
sanitising, FTS5's ranking, the OIDC exchange, encryption, CSRF, translation and
the browser script are computations or interface without state shared between
requests; where their result matters (a page without a title, a refused address, a
failed request) it is a nondeterministic choice of the model that calls them. Of an
enrichment, the title and the thumbnail it fills (`enrichment.py:118`, 124) are left out of
`LinkTasks`: they are filled under the rules of the description and the icon, but that a
title equal to the address counts as none.
