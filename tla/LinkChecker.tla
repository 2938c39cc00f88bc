---------------------------- MODULE LinkChecker ----------------------------
(***************************************************************************)
(* The checking of all the links of an account (app/routes/settings.py):   *)
(* POST /settings/check-links starts _run_check_background, which checks   *)
(* the links that exist then, Concurrency at a time, while the progress    *)
(* page reads _check_jobs[user_id].                                        *)
(*                                                                         *)
(* Each link has its own coroutine.  When one raises, gather raises in the *)
(* run and cancels nothing: the others go on, and count on whatever dict   *)
(* _check_jobs holds by then.                                              *)
(***************************************************************************)
EXTENDS Integers, FiniteSets

CONSTANTS
    Ids,           \* link ids
    Concurrency,   \* _CHECK_CONCURRENCY
    Runs,          \* names for the runs whose coroutines may be alive at once
    None           \* an absent entry

ASSUME CheckerAssumption ==
    /\ IsFiniteSet(Ids)
    /\ Concurrency \in Nat \ {0}

VARIABLES
    links,   \* ids of the links of the account
    job,     \* _check_jobs.get(user_id)
    stage,   \* where each run is
    at,      \* where the coroutine of each link of each run is
    faulty   \* history: the database refused an operation

vars == <<links, job, stage, at, faulty>>

Job == [total : Nat, done : Nat, running : BOOLEAN]

ASSUME NoneIsNoJob == None \notin Job

TypeOK ==
    /\ links \subseteq Ids
    /\ job \in Job \cup {None}
    /\ stage \in [Runs -> {"over", "spawned", "going"}]
    /\ at \in [Runs -> [Ids -> {"none", "queued", "check", "rest", "done", "raised"}]]
    /\ faulty \in BOOLEAN

Init ==
    /\ links \in SUBSET Ids
    /\ job = None
    /\ stage = [r \in Runs |-> "over"]
    /\ at = [r \in Runs |-> [l \in Ids |-> "none"]]
    /\ faulty = FALSE

-----------------------------------------------------------------------------

Fresh == [total |-> 0, done |-> 0, running |-> TRUE]

\* _check_jobs.get(user.id, {}).get("running", False)
Running == job # None /\ job.running

Alive(r)  == {l \in Ids : at[r][l] \in {"queued", "check", "rest"}}
Inside(r) == {l \in Ids : at[r][l] \in {"check", "rest"}}  \* holders of the semaphore
IsOver(r) == stage[r] = "over" /\ Alive(r) = {}

Go(r, l, s) == at' = [at EXCEPT ![r][l] = s]

\* _check_jobs[user_id]["done"] += 1, on the dict that is there now.
CountOne == job' = [job EXCEPT !.done = @ + 1]

\* Links come and go meanwhile.
AddLink(l) ==
    /\ l \notin links
    /\ links' = links \cup {l}
    /\ UNCHANGED <<job, stage, at, faulty>>

DeleteLink(l) ==
    /\ l \in links
    /\ links' = links \ {l}
    /\ UNCHANGED <<job, stage, at, faulty>>

-----------------------------------------------------------------------------

\* Mutant of CheckLinksRun: the place is not taken before the launch.
CheckLinksRunUnreserved(r) ==
    /\ ~Running
    /\ IsOver(r)
    /\ stage' = [stage EXCEPT ![r] = "spawned"]
    /\ UNCHANGED <<links, job, at, faulty>>

\* check_links_run
CheckLinksRun(r) ==
    /\ ~Running
    /\ IsOver(r)
    /\ job' = Fresh
    /\ stage' = [stage EXCEPT ![r] = "spawned"]
    /\ UNCHANGED <<links, at, faulty>>

\* The first steps of _run_check_background, up to gather.
RunStarts(r) ==
    /\ stage[r] = "spawned"
    /\ job' = [Fresh EXCEPT !.total = Cardinality(links)]
    /\ stage' = [stage EXCEPT ![r] = "going"]
    /\ at' = [at EXCEPT ![r] = [l \in Ids |-> IF l \in links THEN "queued" ELSE "none"]]
    /\ UNCHANGED <<links, faulty>>

\* The list of links cannot be read: only the finally clause runs.
RunStartRaises(r) ==
    /\ stage[r] = "spawned"
    /\ faulty' = TRUE
    /\ job' = [Fresh EXCEPT !.running = FALSE]
    /\ stage' = [stage EXCEPT ![r] = "over"]
    /\ UNCHANGED <<links, at>>

\* Mutant of CheckStarts: a link deleted meanwhile is not counted.
CheckStartsUncounted(r, l) ==
    /\ at[r][l] = "queued"
    /\ Cardinality(Inside(r)) < Concurrency
    /\ Go(r, l, IF l \in links THEN "check" ELSE "done")
    /\ UNCHANGED <<links, job, stage, faulty>>

\* The semaphore is obtained and the url read; a deleted link is done.
CheckStarts(r, l) ==
    /\ at[r][l] = "queued"
    /\ Cardinality(Inside(r)) < Concurrency
    /\ IF l \in links
       THEN Go(r, l, "check") /\ UNCHANGED job
       ELSE Go(r, l, "done") /\ CountOne
    /\ UNCHANGED <<links, stage, faulty>>

\* The page answered, or the time limit did; the outcome is written if the
\* link is still there.
CheckAnswered(r, l) ==
    /\ at[r][l] = "check"
    /\ Go(r, l, "rest")
    /\ UNCHANGED <<links, job, stage, faulty>>

\* The pause is over: the semaphore goes to the next link.
CheckCounted(r, l) ==
    /\ at[r][l] = "rest"
    /\ Go(r, l, "done")
    /\ CountOne
    /\ UNCHANGED <<links, stage, faulty>>

\* The url cannot be read, or the outcome cannot be written.
CheckRaises(r, l) ==
    /\ \/ at[r][l] = "queued" /\ Cardinality(Inside(r)) < Concurrency
       \/ at[r][l] = "check" /\ l \in links
    /\ Go(r, l, "raised")
    /\ faulty' = TRUE
    /\ UNCHANGED <<links, job, stage>>

SomeRaised(r) == \E l \in Ids : at[r][l] = "raised"

\* Mutant of RunEnds: no finally clause.
RunEndsQuietly(r) ==
    /\ stage[r] = "going"
    /\ SomeRaised(r) \/ Alive(r) = {}
    /\ stage' = [stage EXCEPT ![r] = "over"]
    /\ job' = [job EXCEPT !.running = SomeRaised(r)]
    /\ UNCHANGED <<links, at, faulty>>

\* gather returns when every coroutine has, or raises as soon as one raised.
RunEnds(r) ==
    /\ stage[r] = "going"
    /\ SomeRaised(r) \/ Alive(r) = {}
    /\ stage' = [stage EXCEPT ![r] = "over"]
    /\ job' = [job EXCEPT !.running = FALSE]
    /\ UNCHANGED <<links, at, faulty>>

-----------------------------------------------------------------------------

Next ==
    \/ \E l \in Ids : AddLink(l)
    \/ \E l \in Ids : DeleteLink(l)
    \/ \E r \in Runs : CheckLinksRun(r)
    \/ \E r \in Runs : RunStarts(r)
    \/ \E r \in Runs : RunStartRaises(r)
    \/ \E r \in Runs, l \in Ids : CheckStarts(r, l)
    \/ \E r \in Runs, l \in Ids : CheckAnswered(r, l)
    \/ \E r \in Runs, l \in Ids : CheckCounted(r, l)
    \/ \E r \in Runs, l \in Ids : CheckRaises(r, l)
    \/ \E r \in Runs : RunEnds(r)

Spec == Init /\ [][Next]_vars

\* The loop runs every coroutine that can go on; a check lasts 30 s at most.
Fairness ==
    \A r \in Runs :
        /\ WF_vars(RunStarts(r))
        /\ WF_vars(RunEnds(r))
        /\ \A l \in Ids :
              /\ WF_vars(CheckStarts(r, l))
              /\ WF_vars(CheckAnswered(r, l))
              /\ WF_vars(CheckCounted(r, l))

FairSpec == Spec /\ Fairness

-----------------------------------------------------------------------------
(* Properties *)

\* As long as no check has raised, two launches, however close, never have
\* their checks mixed: one run is alive at a time.
OneRunAtATime == faulty \/ \A r, s \in Runs : IsOver(r) \/ IsOver(s) \/ r = s

\* As long as no check has raised, the progress shown never goes beyond the
\* total, whatever links are added or deleted meanwhile, and a run that has
\* stopped has dealt with every link it announced.
ProgressIsExact ==
    faulty \/ job = None \/ (job.done <= job.total /\ (Running \/ job.done = job.total))

\* A check never stays shown as running: even when a check raises, the user
\* can start another one.
CheckEnds == Running ~> ~Running
=============================================================================
