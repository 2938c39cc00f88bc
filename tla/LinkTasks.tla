----------------------------- MODULE LinkTasks ------------------------------
(***************************************************************************)
(* What runs after the answer to a request on a link: the enrichment       *)
(* (app/routes/links/enrichment.py), the Wayback archiving (archive.py),   *)
(* one link at a time or in bulk (app/routes/settings.py), the refreshing  *)
(* of what is empty (settings.py) and the reader extraction (reader.py).   *)
(*                                                                         *)
(* All of them keep the id and the url of a link while they wait for the   *)
(* network, and look the link up again by its id before they write.  The   *)
(* ids of deleted links are used again (no AUTOINCREMENT).                 *)
(* A piece of content is named by the url of the page it was taken from.   *)
(* The title and the thumbnail, which an enrichment fills under the rules  *)
(* of the text and the icon (for the title, its address stands for none:   *)
(* enrichment.py:118), are left out.                                       *)
(***************************************************************************)
EXTENDS Naturals, FiniteSets

CONSTANTS
    MaxLink,   \* bound on link ids
    Urls,      \* addresses a link may have
    MaxTasks,  \* bound on the tasks waiting at once
    Typed,     \* a description typed by the user
    None       \* SQL NULL, an empty field, an absent row

LinkIds == 1 .. MaxLink

VARIABLES
    link,    \* the links table: id -> row, None when there is no row
    tasks,   \* background tasks and open reader requests
    job,     \* the bulk archiving, None when no account entry is running
    lost     \* history: a restart or a database error has lost an archiving

vars == <<link, tasks, job, lost>>

Pages == Urls \cup {None}
Row   == [url : Urls,
          icon : Pages,             \* favicon_url, thumbnail_url
          desc : Pages \cup {Typed},
          reader : Pages,           \* reader_html
          status : {None, "pending", "ok", "failed"},
          capture : Pages]          \* archived_url

\* enrich: _fetch_and_update_meta, followed by the archiving of the same
\* request when `then` holds; archive: _wayback_archive not yet started; post:
\* its answer awaited; read: extract_and_store_reader, extraction awaited.
Task == [kind : {"enrich", "archive", "post", "read"},
         id : LinkIds, url : Pages, then : BOOLEAN]
Job  == [left : SUBSET LinkIds, at : LinkIds \cup {None}, url : Pages]

\* The values of the constants.
TasksConstants ==
    /\ MaxLink \in Nat /\ MaxTasks \in Nat
    /\ Typed \notin Urls
    /\ None \notin Urls \cup LinkIds \cup Row \cup Job \cup {Typed, "pending"}

TypeOK ==
    /\ link \in [LinkIds -> Row \cup {None}]
    /\ tasks \subseteq Task
    /\ job \in Job \cup {None}
    /\ lost \in BOOLEAN

Init ==
    /\ link = [l \in LinkIds |-> None]
    /\ tasks = {}
    /\ job = None
    /\ lost = FALSE

-----------------------------------------------------------------------------

Links == {l \in LinkIds : link[l] # None}

IsNextLink(l) ==
    /\ \A m \in Links : m < l
    /\ \A k \in LinkIds : k < l => \E m \in Links : m >= k

Enrich(l, u, then) == [kind |-> "enrich", id |-> l, url |-> u, then |-> then]
Archive(l)         == [kind |-> "archive", id |-> l, url |-> None, then |-> FALSE]
Post(l, u)         == [kind |-> "post", id |-> l, url |-> u, then |-> FALSE]
Read(l, u)         == [kind |-> "read", id |-> l, url |-> u, then |-> FALSE]

Spawn(t) ==
    /\ Cardinality(tasks) < MaxTasks
    /\ tasks' = tasks \cup {t}

-----------------------------------------------------------------------------
(* Requests *)

\* create_link; and, without the archiving, an imported or synced link.
CreateLink(l, u, d, archived) ==
    /\ IsNextLink(l)
    /\ \A m \in Links : link[m].url # u
    /\ link' = [link EXCEPT ![l] =
           [url |-> u, icon |-> None, desc |-> d, reader |-> None,
            status |-> IF archived THEN "pending" ELSE None, capture |-> None]]
    /\ Spawn(Enrich(l, u, archived))
    /\ UNCHANGED <<job, lost>>

\* edit_link: a new url clears the icons and asks for an enrichment.
EditLink(l, u, d) ==
    /\ l \in Links
    /\ \A m \in Links \ {l} : link[m].url # u
    /\ link' = [link EXCEPT ![l].url = u, ![l].desc = d,
                            ![l].icon = IF u = link[l].url THEN @ ELSE None]
    /\ IF u = link[l].url THEN UNCHANGED tasks ELSE Spawn(Enrich(l, u, FALSE))
    /\ UNCHANGED <<job, lost>>

DeleteLink(l) ==
    /\ l \in Links
    /\ link' = [link EXCEPT ![l] = None]
    /\ UNCHANGED <<tasks, job, lost>>

\* archive_link
ArchiveLink(l) ==
    /\ l \in Links
    /\ link' = [link EXCEPT ![l].status = "pending"]
    /\ Spawn(Archive(l))
    /\ UNCHANGED <<job, lost>>

\* read_link: no extraction is stored yet, or the user asks for a new one.
ReadLink(l) ==
    /\ l \in Links
    /\ Spawn(Read(l, link[l].url))
    /\ UNCHANGED <<link, job, lost>>

\* refresh_metadata: the links with an empty field, and the addresses they have
\* then.  They are enriched one after the other; each may be the slow one.
RefreshMetadata ==
    LET found == {l \in Links : link[l].icon = None \/ link[l].desc = None}
    IN  /\ found # {}
        /\ Cardinality(tasks) + Cardinality(found) <= MaxTasks
        /\ tasks' = tasks \cup {Enrich(l, link[l].url, FALSE) : l \in found}
        /\ UNCHANGED <<link, job, lost>>

\* archive_all: one series at a time; the links without a capture.
ArchiveAll ==
    LET ids == {l \in Links : link[l].capture = None}
    IN  /\ job = None
        /\ ids # {}
        /\ link' = [l \in LinkIds |-> IF l \in ids THEN [link[l] EXCEPT !.status = "pending"]
                                                   ELSE link[l]]
        /\ job' = [left |-> ids, at |-> None, url |-> None]
        /\ UNCHANGED <<tasks, lost>>

-----------------------------------------------------------------------------
(* Background tasks *)

\* Mutant of Filled: the page read last wins over what the field holds.
FilledAgain(field, page, got) == IF got THEN page ELSE field

\* An enrichment completes an empty field when the page has something for it.
Filled(field, page, got) == IF field = None /\ got THEN page ELSE field

\* Mutant of Following: the enrichment forgets the archiving after it.
FollowingNothing(t) == {}

\* The tasks of a request run in order: the archiving follows the enrichment.
Following(t) == IF t.then THEN {Archive(t.id)} ELSE {}

\* _fetch_and_update_meta: the page gave an icon or not, a text or not.
EnrichDone(t, icon, desc) ==
    /\ t \in tasks /\ t.kind = "enrich"
    /\ link' = IF link[t.id] = None THEN link
               ELSE [link EXCEPT ![t.id].icon = Filled(@, t.url, icon),
                                 ![t.id].desc = Filled(@, t.url, desc)]
    /\ tasks' = (tasks \ {t}) \cup Following(t)
    /\ UNCHANGED <<job, lost>>

\* The database refuses the write: the exception ends the task that follows.
EnrichRaises(t) ==
    /\ t \in tasks /\ t.kind = "enrich" /\ link[t.id] # None
    /\ tasks' = tasks \ {t}
    /\ lost' = (lost \/ t.then)
    /\ UNCHANGED <<link, job>>

\* _wayback_archive reads the url to save.
ArchiveStart(t) ==
    /\ t \in tasks /\ t.kind = "archive"
    /\ tasks' = (tasks \ {t}) \cup
                    (IF link[t.id] = None THEN {} ELSE {Post(t.id, link[t.id].url)})
    /\ UNCHANGED <<link, job, lost>>

\* Mutant of Archived: a refused archiving leaves the row as it was.
ArchivedSilently(row, u, ok) ==
    IF ok THEN [row EXCEPT !.status = "ok", !.capture = u] ELSE row

\* The answer of the Wayback Machine, or its absence, on the row.
Archived(row, u, ok) ==
    [row EXCEPT !.status = IF ok THEN "ok" ELSE "failed",
                !.capture = IF ok THEN u ELSE @]

ArchiveDone(t, ok) ==
    /\ t \in tasks /\ t.kind = "post"
    /\ link' = IF link[t.id] = None THEN link
               ELSE [link EXCEPT ![t.id] = Archived(@, t.url, ok)]
    /\ tasks' = tasks \ {t}
    /\ UNCHANGED <<job, lost>>

\* extract_and_store_reader: a deleted link is a 404.
ReadDone(t, ok) ==
    /\ t \in tasks /\ t.kind = "read"
    /\ link' = IF link[t.id] = None \/ ~ok THEN link
               ELSE [link EXCEPT ![t.id].reader = t.url]
    /\ tasks' = tasks \ {t}
    /\ UNCHANGED <<job, lost>>

\* _archive_many takes its next link; a deleted one is passed over.
JobPick(l) ==
    /\ job # None /\ job.at = None /\ l \in job.left
    /\ job' = IF link[l] = None THEN [job EXCEPT !.left = @ \ {l}]
              ELSE [job EXCEPT !.at = l, !.url = link[l].url]
    /\ UNCHANGED <<link, tasks, lost>>

JobPost(ok) ==
    /\ job # None /\ job.at # None
    /\ link' = IF link[job.at] = None THEN link
               ELSE [link EXCEPT ![job.at] = Archived(@, job.url, ok)]
    /\ job' = [left |-> job.left \ {job.at}, at |-> None, url |-> None]
    /\ UNCHANGED <<tasks, lost>>

\* The series is over: the account may start another one.
JobEnd ==
    /\ job # None /\ job.left = {}
    /\ job' = None
    /\ UNCHANGED <<link, tasks, lost>>

\* The process restarts: the tasks live in its memory only.
Restart ==
    /\ tasks' = {}
    /\ job' = None
    /\ lost' = TRUE
    /\ UNCHANGED link

-----------------------------------------------------------------------------

UserStep ==
    \/ \E l \in LinkIds, u \in Urls, d \in {None, Typed}, a \in BOOLEAN : CreateLink(l, u, d, a)
    \/ \E l \in Links, u \in Urls : \E d \in {None, Typed, link[l].desc} : EditLink(l, u, d)
    \/ \E l \in LinkIds : DeleteLink(l)
    \/ \E l \in LinkIds : ArchiveLink(l)
    \/ \E l \in LinkIds : ReadLink(l)
    \/ RefreshMetadata
    \/ ArchiveAll

TaskStep ==
    \/ \E t \in tasks, icon, desc \in BOOLEAN : EnrichDone(t, icon, desc)
    \/ \E t \in tasks : ArchiveStart(t)
    \/ \E t \in tasks, ok \in BOOLEAN : ArchiveDone(t, ok)
    \/ \E t \in tasks, ok \in BOOLEAN : ReadDone(t, ok)

JobStep ==
    \/ \E l \in LinkIds : JobPick(l)
    \/ \E ok \in BOOLEAN : JobPost(ok)
    \/ JobEnd

Fault ==
    \/ \E t \in tasks : EnrichRaises(t)
    \/ Restart

Next == UserStep \/ TaskStep \/ JobStep \/ Fault

Spec == Init /\ [][Next]_vars

\* Every awaited answer comes, or the client's timeout does, and the loop runs
\* every task that can go on.
Fairness ==
    /\ \A l \in LinkIds, u \in Pages, then \in BOOLEAN :
          LET enrich == Enrich(l, u, then)
              archive == Archive(l)
              post == Post(l, u)
          IN  /\ WF_vars(\E icon, desc \in BOOLEAN : EnrichDone(enrich, icon, desc))
              /\ WF_vars(ArchiveStart(archive))
              /\ WF_vars(\E ok \in BOOLEAN : ArchiveDone(post, ok))
    /\ WF_vars(JobStep)

FairSpec == Spec /\ Fairness

-----------------------------------------------------------------------------
(* Properties *)

\* Some task, or the series, will write the outcome of the archiving of l.
Served(l) ==
    \/ \E t \in tasks : t.id = l /\ (t.kind \in {"archive", "post"} \/ t.then)
    \/ job # None /\ l \in job.left

\* As long as no task is lost, a link shown as being archived is going to be:
\* no deletion, edit, failed archiving or concurrent series leaves it pending.
PendingIsServed == lost \/ \A l \in Links : link[l].status = "pending" => Served(l)

\* A task, however late, adds to the library and takes nothing from it: it
\* neither creates nor deletes a link, replaces no text or icon that is there,
\* and a refused archiving keeps the capture of an earlier one.
TasksOnlyFill ==
    [][TaskStep \/ JobStep =>
         \A l \in LinkIds :
             /\ link'[l] = None <=> link[l] = None
             /\ link[l] # None =>
                   /\ link[l].icon # None => link'[l].icon = link[l].icon
                   /\ link[l].desc # None => link'[l].desc = link[l].desc
                   /\ link'[l].capture = None => link[l].capture = None
                   /\ link'[l].url = link[l].url]_vars

\* Every archiving asked for is answered: a pending link becomes archived or
\* failed, unless it is deleted or tasks are lost.
EveryArchiveAnswered ==
    \A l \in LinkIds :
        (link[l] # None /\ link[l].status = "pending")
            ~> (lost \/ link[l] = None \/ link[l].status # "pending")
=============================================================================
