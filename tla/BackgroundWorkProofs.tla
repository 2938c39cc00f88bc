------------------------ MODULE BackgroundWorkProofs ------------------------
(***************************************************************************)
(* Proofs about the background work of an account.  As long as no check    *)
(* has raised, the launches of a checking are exclusive and its progress   *)
(* is exact, for every set of links, every number of runs and every        *)
(* concurrency.  For any number of links, of tasks and of addresses, a     *)
(* pending archiving is served, and tasks only fill.                       *)
(***************************************************************************)
EXTENDS BackgroundWork, TLAPS, FiniteSetTheorems

(* The check of the links *)

\* The entry of the account says "running" from the launch to the end.
RunningIsTaken == \A r \in Runs : stage[r] # "over" => Running

\* The launch and the start of a run find no other one on its way.
OneLaunched == \A r, s \in Runs : stage[r] # "over" /\ stage[s] # "over" => r = s

\* A run ends with its last coroutine: none of them is left behind.
NothingLeft ==
    \A r \in Runs : ~SomeRaised(r) /\ (stage[r] # "going" => Alive(r) = {})

\* What the progress counts.
Counted(r) ==
    /\ job.total = Cardinality({l \in Ids : at[r][l] # "none"})
    /\ job.done = Cardinality({l \in Ids : at[r][l] = "done"})

CountsAreExact == \A r \in Runs : stage[r] = "going" => Counted(r)

\* Before the start of the run the entry shows an empty progress.
LaunchedIsEmpty == \A r \in Runs : stage[r] = "spawned" => job.total = job.done

\* A run that has stopped has dealt with every link it announced.
Complete == (job # None /\ ~Running) => job.done = job.total

\* What holds as long as no check has raised.
Sound ==
    /\ TypeOK
    /\ faulty = FALSE
    /\ RunningIsTaken
    /\ OneLaunched
    /\ NothingLeft
    /\ CountsAreExact
    /\ LaunchedIsEmpty
    /\ Complete
    /\ Running => \E r \in Runs : stage[r] # "over"

CheckInv == faulty \in BOOLEAN /\ (faulty = FALSE => Sound)

-----------------------------------------------------------------------------

LEMMA SubsetsFinite ==
  \A S \in SUBSET Ids : IsFiniteSet(S) /\ Cardinality(S) \in Nat
  BY CheckerAssumption, FS_Subset, FS_CardinalityType

\* The number of links of a state, when one more link enters it.
LEMMA OneMore ==
  ASSUME NEW S \in SUBSET Ids, NEW l \in Ids, l \notin S
  PROVE  Cardinality(S \cup {l}) = Cardinality(S) + 1
  BY SubsetsFinite, FS_AddElement

LEMMA JobFields ==
  ASSUME TypeOK, job # None
  PROVE  job \in Job /\ job.total \in Nat /\ job.done \in Nat /\ job.running \in BOOLEAN
  BY DEF TypeOK, Job

LEMMA InitSound == Init => Sound
  <1> SUFFICES ASSUME Init PROVE Sound
    OBVIOUS
  <1>1. TypeOK /\ ~Running
    BY DEF Init, TypeOK, Running
  <1>2. NothingLeft
    BY DEF Init, NothingLeft, SomeRaised, Alive
  <1> QED
    BY <1>1, <1>2 DEF Init, Sound, RunningIsTaken, OneLaunched, CountsAreExact,
                      LaunchedIsEmpty, Complete

\* A link comes or goes: nothing of the checking moves.
LEMMA LinkSound ==
  ASSUME Sound, links' \subseteq Ids, UNCHANGED <<job, stage, at, faulty>>
  PROVE  Sound'
  <1>1. TypeOK'
    BY DEF Sound, TypeOK
  <1>2. (RunningIsTaken /\ OneLaunched /\ NothingLeft)'
    BY DEF Sound, RunningIsTaken, OneLaunched, NothingLeft, Running, SomeRaised, Alive
  <1>3. (CountsAreExact /\ LaunchedIsEmpty /\ Complete)'
    BY DEF Sound, CountsAreExact, Counted, LaunchedIsEmpty, Complete, Running
  <1> QED
    BY <1>1, <1>2, <1>3 DEF Sound, Running

LEMMA LaunchSound ==
  ASSUME Sound, NEW r \in Runs, CheckLinksRun(r)
  PROVE  Sound'
  <1>0. faulty' = FALSE
    BY DEF Sound, CheckLinksRun
  <1>1. \A s \in Runs : stage[s] = "over"
    BY DEF Sound, RunningIsTaken, CheckLinksRun
  <1>2. /\ job' = [total |-> 0, done |-> 0, running |-> TRUE]
        /\ job' \in Job /\ job'.total = 0 /\ job'.done = 0
    BY DEF CheckLinksRun, Fresh, Job
  <1>3. Running'
    BY <1>2, NoneIsNoJob DEF Running
  <1>4. stage'[r] = "spawned" /\ \A s \in Runs \ {r} : stage'[s] = "over"
    BY <1>1 DEF CheckLinksRun, Sound, TypeOK
  <1>5. TypeOK'
    BY <1>2 DEF CheckLinksRun, Sound, TypeOK
  <1>6. NothingLeft'
    BY <1>1 DEF Sound, NothingLeft, CheckLinksRun, SomeRaised, Alive
  <1> QED
    BY <1>0, <1>2, <1>3, <1>4, <1>5, <1>6
       DEF Sound, RunningIsTaken, OneLaunched, CountsAreExact, LaunchedIsEmpty, Complete

LEMMA StartSound ==
  ASSUME Sound, NEW r \in Runs, RunStarts(r)
  PROVE  Sound'
  <1>0. faulty' = FALSE
    BY DEF Sound, RunStarts
  <1>1. stage[r] = "spawned" /\ \A s \in Runs \ {r} : stage[s] = "over"
    BY DEF Sound, OneLaunched, RunStarts
  <1>2. stage'[r] = "going" /\ \A s \in Runs \ {r} : stage'[s] = "over"
    BY <1>1 DEF RunStarts, Sound, TypeOK
  <1>3. links \in SUBSET Ids /\ links' = links /\ Cardinality(links) \in Nat
    BY SubsetsFinite DEF RunStarts, Sound, TypeOK
  <1>4. job' = [total |-> Cardinality(links), done |-> 0, running |-> TRUE]
    BY DEF RunStarts, Fresh
  <1>a. job' \in Job /\ job'.running = TRUE
    BY <1>3, <1>4 DEF Job
  <1>5. job' \in Job /\ Running'
    BY <1>a, NoneIsNoJob DEF Running
  <1>6. /\ \A l \in Ids : at'[r][l] = IF l \in links THEN "queued" ELSE "none"
        /\ \A s \in Runs \ {r} : at'[s] = at[s]
        /\ at' \in [Runs -> [Ids -> {"none", "queued", "check", "rest", "done", "raised"}]]
    BY DEF RunStarts, Sound, TypeOK
  <1>7. TypeOK'
    BY <1>3, <1>5, <1>6 DEF RunStarts, Sound, TypeOK
  <1>8. NothingLeft'
    <2> SUFFICES ASSUME NEW s \in Runs
                 PROVE  (~SomeRaised(s) /\ (stage[s] # "going" => Alive(s) = {}))'
      BY DEF NothingLeft
    <2>1. CASE s = r
      BY <2>1, <1>2, <1>6 DEF SomeRaised
    <2>2. CASE s # r
      BY <2>2, <1>1, <1>2, <1>6 DEF Sound, NothingLeft, SomeRaised, Alive
    <2> QED
      BY <2>1, <2>2
  <1>9. Counted(r)'
    <2>1. {l \in Ids : at'[r][l] # "none"} = links
      BY <1>3, <1>6
    <2>2. {l \in Ids : at'[r][l] = "done"} = {}
      BY <1>6
    <2> QED
      BY <2>1, <2>2, <1>4, FS_EmptySet DEF Counted
  <1> QED
    BY <1>0, <1>2, <1>5, <1>7, <1>8, <1>9
       DEF Sound, RunningIsTaken, OneLaunched, CountsAreExact, LaunchedIsEmpty, Complete

\* One coroutine of run r moves link l to state s, and counts it when s is "done".
LEMMA MoveSound ==
  ASSUME Sound, NEW r \in Runs, NEW l \in Ids, NEW s \in {"check", "rest", "done"},
         l \in Alive(r), Go(r, l, s), UNCHANGED <<links, stage, faulty>>,
         IF s = "done" THEN CountOne ELSE UNCHANGED job
  PROVE  Sound'
  <1>0. faulty' = FALSE
    BY DEF Sound
  <1>1. stage[r] = "going" /\ \A q \in Runs \ {r} : stage[q] = "over"
    BY DEF Sound, NothingLeft, OneLaunched, TypeOK
  <1>2. Running /\ job # None /\ job \in Job
    BY <1>1, JobFields DEF Sound, RunningIsTaken, Running
  <1>3. /\ at'[r][l] = s /\ \A m \in Ids \ {l} : at'[r][m] = at[r][m]
        /\ \A q \in Runs \ {r} : at'[q] = at[q]
        /\ at' \in [Runs -> [Ids -> {"none", "queued", "check", "rest", "done", "raised"}]]
    BY DEF Go, Sound, TypeOK
  <1>4. at[r][l] \in {"queued", "check", "rest"}
    BY DEF Alive
  <1>5. /\ job' \in Job /\ job'.total = job.total /\ job'.running = job.running
        /\ job'.done = IF s = "done" THEN job.done + 1 ELSE job.done
    BY <1>2 DEF CountOne, Job
  <1>6. TypeOK'
    BY <1>3, <1>5 DEF Sound, TypeOK
  <1>7. Running' /\ job' # None
    BY <1>2, <1>5, NoneIsNoJob DEF Running
  <1>8. NothingLeft'
    BY <1>1, <1>3 DEF Sound, NothingLeft, SomeRaised, Alive
  <1>9. Counted(r)'
    <2> DEFINE D == {m \in Ids : at[r][m] = "done"}
    <2>1. Counted(r)
      BY <1>1 DEF Sound, CountsAreExact
    <2>2. {m \in Ids : at'[r][m] # "none"} = {m \in Ids : at[r][m] # "none"}
      BY <1>3, <1>4
    <2>3. CASE s = "done"
      <3>1. {m \in Ids : at'[r][m] = "done"} = D \cup {l} /\ l \notin D
        BY <1>3, <1>4, <2>3
      <3>2. Cardinality(D \cup {l}) = Cardinality(D) + 1
        BY <3>1, OneMore
      <3> QED
        BY <3>1, <3>2, <2>1, <2>2, <2>3, <1>5 DEF Counted
    <2>4. CASE s # "done"
      <3>1. {m \in Ids : at'[r][m] = "done"} = D
        BY <1>3, <1>4, <2>4
      <3> QED
        BY <3>1, <2>1, <2>2, <2>4, <1>5 DEF Counted
    <2> QED
      BY <2>3, <2>4
  <1> QED
    BY <1>0, <1>1, <1>6, <1>7, <1>8, <1>9
       DEF Sound, RunningIsTaken, OneLaunched, CountsAreExact, LaunchedIsEmpty, Complete

LEMMA EndSound ==
  ASSUME Sound, NEW r \in Runs, RunEnds(r)
  PROVE  Sound'
  <1>0. faulty' = FALSE
    BY DEF Sound, RunEnds
  <1>1. stage[r] = "going" /\ \A s \in Runs \ {r} : stage[s] = "over"
    BY DEF Sound, OneLaunched, RunEnds
  <1>2. \A s \in Runs : stage'[s] = "over"
    BY <1>1 DEF RunEnds, Sound, TypeOK
  <1>3. job # None /\ job \in Job
    BY <1>1, JobFields DEF Sound, RunningIsTaken, Running
  <1>4. job' \in Job /\ job'.total = job.total /\ job'.done = job.done /\ ~job'.running
    BY <1>3 DEF RunEnds, Job
  <1>5. ~Running'
    BY <1>4 DEF Running
  <1>6. Alive(r) = {} /\ ~SomeRaised(r)
    BY DEF Sound, NothingLeft, RunEnds
  <1>7. TypeOK'
    BY <1>4 DEF RunEnds, Sound, TypeOK
  <1>8. NothingLeft'
    BY <1>1, <1>6 DEF Sound, NothingLeft, RunEnds, SomeRaised, Alive
  <1>9. job.done = job.total
    <2>1. \A l \in Ids : at[r][l] # "none" <=> at[r][l] = "done"
      BY <1>6 DEF Sound, TypeOK, Alive, SomeRaised
    <2>2. {l \in Ids : at[r][l] # "none"} = {l \in Ids : at[r][l] = "done"}
      BY <2>1
    <2> QED
      BY <2>2, <1>1 DEF Sound, CountsAreExact, Counted
  <1> QED
    BY <1>0, <1>2, <1>4, <1>5, <1>7, <1>8, <1>9
       DEF Sound, RunningIsTaken, OneLaunched, CountsAreExact, LaunchedIsEmpty, Complete

LEMMA NextSound ==
  ASSUME Sound, [Next]_vars, faulty' = FALSE
  PROVE  Sound'
  <1>1. CASE \E l \in Ids : AddLink(l) \/ DeleteLink(l)
    BY <1>1, LinkSound DEF AddLink, DeleteLink, Sound, TypeOK
  <1>2. CASE \E r \in Runs : CheckLinksRun(r)
    BY <1>2, LaunchSound
  <1>3. CASE \E r \in Runs : RunStarts(r)
    BY <1>3, StartSound
  <1>4. CASE \E r \in Runs : RunStartRaises(r) \/ \E l \in Ids : CheckRaises(r, l)
    BY <1>4 DEF RunStartRaises, CheckRaises
  <1>5. ASSUME NEW r \in Runs, NEW l \in Ids, CheckStarts(r, l) PROVE Sound'
    <2>1. l \in Alive(r)
      BY <1>5 DEF CheckStarts, Alive
    <2>2. CASE l \in links
      BY <1>5, <2>1, <2>2, MoveSound DEF CheckStarts
    <2>3. CASE l \notin links
      BY <1>5, <2>1, <2>3, MoveSound DEF CheckStarts
    <2> QED
      BY <2>2, <2>3
  <1>6. ASSUME NEW r \in Runs, NEW l \in Ids, CheckAnswered(r, l) PROVE Sound'
    <2>1. l \in Alive(r)
      BY <1>6 DEF CheckAnswered, Alive
    <2> QED
      BY <1>6, <2>1, MoveSound DEF CheckAnswered
  <1>7. ASSUME NEW r \in Runs, NEW l \in Ids, CheckCounted(r, l) PROVE Sound'
    <2>1. l \in Alive(r)
      BY <1>7 DEF CheckCounted, Alive
    <2> QED
      BY <1>7, <2>1, MoveSound DEF CheckCounted
  <1>8. CASE \E r \in Runs : RunEnds(r)
    BY <1>8, EndSound
  <1>9. CASE UNCHANGED vars
    BY <1>9, LinkSound DEF vars, Sound, TypeOK
  <1> QED
    BY <1>1, <1>2, <1>3, <1>4, <1>5, <1>6, <1>7, <1>8, <1>9 DEF Next

LEMMA InitCheckInv == Init => CheckInv
  BY InitSound DEF CheckInv, Init

LEMMA NextCheckInv == CheckInv /\ [Next]_vars => CheckInv'
  <1> SUFFICES ASSUME CheckInv, [Next]_vars PROVE CheckInv'
    OBVIOUS
  <1>1. faulty' = faulty \/ faulty' = TRUE
    BY DEF Next, vars, AddLink, DeleteLink, CheckLinksRun, RunStarts, RunStartRaises,
           CheckStarts, CheckAnswered, CheckCounted, CheckRaises, RunEnds
  <1>2. CASE faulty' = FALSE
    BY <1>1, <1>2, NextSound DEF CheckInv
  <1>3. CASE faulty' = TRUE
    BY <1>3 DEF CheckInv
  <1> QED
    BY <1>1, <1>2, <1>3 DEF CheckInv

-----------------------------------------------------------------------------

\* As long as no check has raised, two runs are never alive together.
THEOREM RunsAreExclusive == Spec => []OneRunAtATime
  <1>1. CheckInv => OneRunAtATime
    BY DEF CheckInv, Sound, OneLaunched, NothingLeft, OneRunAtATime, IsOver
  <1> QED
    BY <1>1, InitCheckInv, NextCheckInv, PTL DEF Spec

\* As long as no check has raised, the progress stays within its total, and a
\* run that stops has dealt with all its links.
THEOREM ProgressAlwaysExact == Spec => []ProgressIsExact
  <1>1. Sound => (job = None \/ job.done <= job.total)
    <2> SUFFICES ASSUME Sound, job # None PROVE job.done <= job.total
      OBVIOUS
    <2>1. job.total \in Nat /\ job.done \in Nat
      BY JobFields DEF Sound
    <2>2. CASE ~Running
      BY <2>1, <2>2 DEF Sound, Complete
    <2>3. CASE Running
      <3>1. PICK r \in Runs : stage[r] # "over"
        BY <2>3 DEF Sound
      <3>2. CASE stage[r] = "spawned"
        BY <2>1, <3>2 DEF Sound, LaunchedIsEmpty
      <3>3. CASE stage[r] = "going"
        <4> DEFINE T == {l \in Ids : at[r][l] # "none"}
                   D == {l \in Ids : at[r][l] = "done"}
        <4>1. job.total = Cardinality(T) /\ job.done = Cardinality(D)
          BY <3>3 DEF Sound, CountsAreExact, Counted
        <4>2. D \subseteq T /\ IsFiniteSet(T)
          BY SubsetsFinite
        <4> QED
          BY <4>1, <4>2, FS_Subset
      <3> QED
        BY <3>1, <3>2, <3>3 DEF Sound, TypeOK
    <2> QED
      BY <2>2, <2>3
  <1>2. CheckInv => ProgressIsExact
    BY <1>1 DEF CheckInv, Sound, Complete, ProgressIsExact
  <1> QED
    BY <1>2, InitCheckInv, NextCheckInv, PTL DEF Spec

-----------------------------------------------------------------------------
(* Types, whatever raises *)

\* Before the first launch there is no run.
NoRunYet ==
    job = None => \A r \in Runs : stage[r] = "over" /\ \A l \in Ids : at[r][l] = "none"

\* What is launched, going or alive has an entry to count on.
LEMMA EntryThere ==
  ASSUME TypeOK, NoRunYet, NEW r \in Runs,
         stage[r] # "over" \/ \E l \in Ids : at[r][l] # "none"
  PROVE  job \in Job
  BY DEF TypeOK, NoRunYet

LEMMA NextType == TypeOK /\ NoRunYet /\ [Next]_vars => TypeOK' /\ NoRunYet'
  <1> SUFFICES ASSUME TypeOK, NoRunYet, [Next]_vars PROVE TypeOK' /\ NoRunYet'
    OBVIOUS
  <1>j. /\ Fresh \in Job /\ None \notin Job
        /\ Cardinality(links) \in Nat
        /\ \A n \in Nat : [Fresh EXCEPT !.total = n] \in Job
        /\ [Fresh EXCEPT !.running = FALSE] \in Job
        /\ \A j \in Job : [j EXCEPT !.done = @ + 1] \in Job /\ [j EXCEPT !.running = FALSE] \in Job
    <2>1. Cardinality(links) \in Nat
      BY SubsetsFinite DEF TypeOK
    <2>2. /\ Fresh \in Job /\ [Fresh EXCEPT !.running = FALSE] \in Job
          /\ \A n \in Nat : [Fresh EXCEPT !.total = n] \in Job
      BY DEF Fresh, Job
    <2>3. ASSUME NEW j \in Job PROVE [j EXCEPT !.done = @ + 1] \in Job
      BY DEF Job
    <2>4. ASSUME NEW j \in Job PROVE [j EXCEPT !.running = FALSE] \in Job
      BY DEF Job
    <2> QED
      BY <2>1, <2>2, <2>3, <2>4, NoneIsNoJob
  <1>1. ASSUME NEW l \in Ids, AddLink(l) \/ DeleteLink(l) PROVE TypeOK' /\ NoRunYet'
    BY <1>1 DEF AddLink, DeleteLink, TypeOK, NoRunYet
  <1>2. ASSUME NEW r \in Runs, CheckLinksRun(r) PROVE TypeOK' /\ NoRunYet'
    BY <1>2, <1>j DEF CheckLinksRun, TypeOK, NoRunYet
  <1>3. ASSUME NEW r \in Runs, RunStarts(r) PROVE TypeOK' /\ NoRunYet'
    BY <1>3, <1>j DEF RunStarts, TypeOK, NoRunYet
  <1>4. ASSUME NEW r \in Runs, RunStartRaises(r) PROVE TypeOK' /\ NoRunYet'
    BY <1>4, <1>j DEF RunStartRaises, TypeOK, NoRunYet
  <1>5. ASSUME NEW r \in Runs, NEW l \in Ids,
               CheckStarts(r, l) \/ CheckAnswered(r, l) \/ CheckCounted(r, l) \/ CheckRaises(r, l)
        PROVE  TypeOK' /\ NoRunYet'
    <2>1. job \in Job
      BY <1>5, EntryThere DEF CheckStarts, CheckAnswered, CheckCounted, CheckRaises
    <2>2. job' \in Job
      BY <1>5, <1>j, <2>1 DEF CheckStarts, CheckAnswered, CheckCounted, CheckRaises, CountOne
    <2>3. \E s \in {"check", "rest", "done", "raised"} : Go(r, l, s)
      BY <1>5 DEF CheckStarts, CheckAnswered, CheckCounted, CheckRaises
    <2>4. at' \in [Runs -> [Ids -> {"none", "queued", "check", "rest", "done", "raised"}]]
      BY <2>3 DEF Go, TypeOK
    <2>5. UNCHANGED <<links, stage>> /\ faulty' \in BOOLEAN
      BY <1>5 DEF CheckStarts, CheckAnswered, CheckCounted, CheckRaises, TypeOK
    <2> QED
      BY <1>j, <2>2, <2>4, <2>5 DEF TypeOK, NoRunYet
  <1>6. ASSUME NEW r \in Runs, RunEnds(r) PROVE TypeOK' /\ NoRunYet'
    <2>1. job \in Job
      BY <1>6, EntryThere DEF RunEnds
    <2> QED
      BY <1>6, <1>j, <2>1 DEF RunEnds, TypeOK, NoRunYet
  <1>7. CASE UNCHANGED vars
    BY <1>7 DEF vars, TypeOK, NoRunYet
  <1> QED
    BY <1>1, <1>2, <1>3, <1>4, <1>5, <1>6, <1>7 DEF Next

\* The types hold even when checks raise and runs overlap.
THEOREM CheckTypesHold == Spec => []TypeOK
  <1>1. ASSUME Init PROVE TypeOK /\ NoRunYet
    <2>1. at \in [Runs -> [Ids -> {"none", "queued", "check", "rest", "done", "raised"}]]
      BY <1>1 DEF Init
    <2> QED
      BY <1>1, <2>1 DEF Init, TypeOK, NoRunYet
  <1> QED
    BY <1>1, NextType, PTL DEF Spec

-----------------------------------------------------------------------------
(* The tasks of a link *)

\* An archiving under way knows the page it saves, and only an enrichment is
\* followed by another task.
PagesAreKnown ==
    /\ \A t \in tasks : /\ t.kind = "post" => t.url # None
                        /\ t.then => t.kind = "enrich"
    /\ (series # None /\ series.at # None) => series.url # None

IInv == Tasks!TypeOK /\ Tasks!PendingIsServed /\ PagesAreKnown

\* The write of a task on a row only fills it.
RowFilled(before, after) ==
    /\ after.url = before.url
    /\ before.icon # None => after.icon = before.icon
    /\ before.desc # None => after.desc = before.desc
    /\ after.capture = None => before.capture = None

\* What EnrichDone writes.
Enriched(row, u, icon, desc) ==
    [row EXCEPT !.icon = Tasks!Filled(@, u, icon), !.desc = Tasks!Filled(@, u, desc)]

-----------------------------------------------------------------------------
(* What the steps are made of *)

\* The tasks a request or a task leaves are tasks.
LEMMA TaskTypes ==
    ASSUME NEW l \in Tasks!LinkIds, NEW u \in Tasks!Pages, NEW then \in BOOLEAN
    PROVE  {Tasks!Enrich(l, u, then), Tasks!Archive(l), Tasks!Post(l, u), Tasks!Read(l, u)} \subseteq Tasks!Task
  BY DEF Tasks!Enrich, Tasks!Archive, Tasks!Post, Tasks!Read, Tasks!Task, Tasks!Pages

\* A link that is there has a row, and no row is the absent one.
LEMMA RowTypes ==
    ASSUME Tasks!TasksConstants, Tasks!TypeOK
    PROVE  /\ \A l \in Tasks!Links : l \in Tasks!LinkIds /\ link[l] \in Tasks!Row
                /\ link[l].url \in Urls
           /\ \A l \in Tasks!LinkIds : link[l] # None => l \in Tasks!Links
           /\ None \notin Tasks!Row
  BY DEF Tasks!TasksConstants, Tasks!TypeOK, Tasks!Links, Tasks!Row

\* The answer of an archiving gives a row of the type of the one it is
\* written to, not pending any more, and filled.
LEMMA ArchivedRow ==
    ASSUME Tasks!TasksConstants, NEW row \in Tasks!Row, NEW u \in Tasks!Pages, NEW ok \in BOOLEAN
    PROVE  /\ Tasks!Archived(row, u, ok) \in Tasks!Row
           /\ Tasks!Archived(row, u, ok).status # "pending"
           /\ u # None => RowFilled(row, Tasks!Archived(row, u, ok))
  BY DEF Tasks!Archived, Tasks!Row, RowFilled, Tasks!Pages

\* So does an enrichment, except that it leaves the status.
LEMMA EnrichedRow ==
    ASSUME Tasks!TasksConstants, NEW row \in Tasks!Row, NEW u \in Tasks!Pages,
           NEW icon \in BOOLEAN, NEW desc \in BOOLEAN
    PROVE  /\ Enriched(row, u, icon, desc) \in Tasks!Row
           /\ Enriched(row, u, icon, desc).status = row.status
           /\ RowFilled(row, Enriched(row, u, icon, desc))
  BY DEF Enriched, Tasks!Filled, Tasks!Row, RowFilled, Tasks!Pages

\* A link that stays as it was stays served as long as nothing is taken from
\* the tasks and the series that serve it.
LEMMA StaysServed ==
    ASSUME NEW l, Tasks!Served(l),
           \A t \in tasks : (t.id = l /\ (t.kind \in {"archive", "post"} \/ t.then)) => t \in tasks',
           (series # None /\ l \in series.left) => (series' # None /\ l \in series'.left)
    PROVE  Tasks!Served(l)'
  BY DEF Tasks!Served

-----------------------------------------------------------------------------
(* Requests *)

\* A new link, pending or not, has its enrichment, followed or not.
LEMMA CreateLinkStep ==
    ASSUME Tasks!TasksConstants, IInv, NEW l \in Tasks!LinkIds, NEW u \in Urls, NEW d \in {None, Typed},
           NEW archived \in BOOLEAN, Tasks!CreateLink(l, u, d, archived)
    PROVE  IInv'
<1> DEFINE row == [url |-> u, icon |-> None, desc |-> d, reader |-> None,
                   status |-> IF archived THEN "pending" ELSE None, capture |-> None]
           t0 == Tasks!Enrich(l, u, archived)
<1>1. row \in Tasks!Row
  BY DEF Tasks!Row, Tasks!Pages
<1>2. link' = [link EXCEPT ![l] = row] /\ tasks' = tasks \cup {t0} /\ UNCHANGED <<series, lost>>
  BY DEF Tasks!CreateLink, Tasks!Spawn
<1>3. t0 \in Tasks!Task /\ t0.id = l /\ t0.kind = "enrich" /\ t0.then = archived
  BY TaskTypes DEF Tasks!Enrich, Tasks!Pages
<1>4. Tasks!TypeOK'
  BY <1>1, <1>2, <1>3 DEF IInv, Tasks!TypeOK
<1>5. PagesAreKnown'
  BY <1>2, <1>3 DEF IInv, PagesAreKnown
<1>6. ASSUME ~lost', NEW m \in Tasks!Links', link'[m].status = "pending"
      PROVE  Tasks!Served(m)'
  <2>1. CASE m = l
    <3>1. archived
      BY <1>2, <1>6, <2>1 DEF IInv, Tasks!TypeOK, Tasks!TasksConstants, Tasks!Links
    <3> QED
      BY <1>2, <1>3, <2>1, <3>1 DEF Tasks!Served
  <2>2. CASE m # l
    <3>1. m \in Tasks!Links /\ link[m].status = "pending"
      BY <1>2, <1>6, <2>2 DEF IInv, Tasks!TypeOK, Tasks!Links
    <3> QED
      BY <1>2, <1>6, <3>1, StaysServed DEF IInv, Tasks!PendingIsServed
  <2> QED
    BY <2>1, <2>2
<1> QED
  BY <1>4, <1>5, <1>6 DEF IInv, Tasks!PendingIsServed

\* A step that pends no link keeps the pending ones served when it takes no
\* task from them: the requests on a link other than its creation and
\* archiving.
LEMMA RequestStep ==
    ASSUME Tasks!TasksConstants, IInv, Tasks!TypeOK',
           tasks \subseteq tasks',
           \A t \in tasks' \ tasks : t.kind # "post" /\ (t.then => t.kind = "enrich"),
           UNCHANGED <<series, lost>>,
           \A m \in Tasks!Links' : link'[m].status = "pending"
                                => m \in Tasks!Links /\ link[m].status = "pending"
    PROVE  IInv'
<1>1. PagesAreKnown'
  BY DEF IInv, PagesAreKnown
<1>2. ASSUME ~lost', NEW m \in Tasks!Links', link'[m].status = "pending"
      PROVE  Tasks!Served(m)'
  BY <1>2, StaysServed DEF IInv, Tasks!PendingIsServed
<1> QED
  BY <1>1, <1>2 DEF IInv, Tasks!PendingIsServed

LEMMA EditLinkStep ==
    ASSUME Tasks!TasksConstants, IInv, NEW l \in Tasks!Links, NEW u \in Urls,
           NEW d \in {None, Typed, link[l].desc}, Tasks!EditLink(l, u, d)
    PROVE  IInv'
<1> DEFINE new == [link[l] EXCEPT !.url = u, !.desc = d,
                                  !.icon = IF u = link[l].url THEN @ ELSE None]
           t0 == Tasks!Enrich(l, u, FALSE)
<1>1. l \in Tasks!LinkIds /\ link[l] \in Tasks!Row
  BY RowTypes DEF IInv
<1>2. new \in Tasks!Row /\ new.status = link[l].status
  BY <1>1 DEF Tasks!Row, Tasks!Pages
<1>3. link' = [link EXCEPT ![l] = new]
  BY <1>1 DEF Tasks!EditLink, IInv, Tasks!TypeOK
<1>4. t0 \in Tasks!Task /\ t0.kind = "enrich"
  BY <1>1, TaskTypes DEF Tasks!Enrich, Tasks!Pages
<1>5. tasks' \in {tasks, tasks \cup {t0}}
  BY DEF Tasks!EditLink, Tasks!Spawn
<1>6. Tasks!TypeOK'
  <2>1. link' \in [Tasks!LinkIds -> Tasks!Row \cup {None}]
    BY <1>1, <1>2, <1>3 DEF IInv, Tasks!TypeOK
  <2>2. tasks' \subseteq Tasks!Task
    BY <1>4, <1>5 DEF IInv, Tasks!TypeOK
  <2> QED
    BY <2>1, <2>2 DEF IInv, Tasks!TypeOK, Tasks!EditLink
<1>7. \A m \in Tasks!Links' : link'[m].status = "pending"
         => m \in Tasks!Links /\ link[m].status = "pending"
  BY <1>1, <1>2, <1>3 DEF IInv, Tasks!TypeOK, Tasks!Links
<1> QED
  BY <1>4, <1>5, <1>6, <1>7, RequestStep DEF Tasks!EditLink

LEMMA DeleteLinkStep ==
    ASSUME Tasks!TasksConstants, IInv, NEW l \in Tasks!LinkIds, Tasks!DeleteLink(l)
    PROVE  IInv'
<1>1. Tasks!TypeOK'
  BY DEF Tasks!DeleteLink, IInv, Tasks!TypeOK
<1>2. \A m \in Tasks!Links' : link'[m].status = "pending"
         => m \in Tasks!Links /\ link[m].status = "pending"
  BY DEF Tasks!DeleteLink, IInv, Tasks!TypeOK, Tasks!Links
<1> QED
  BY <1>1, <1>2, RequestStep DEF Tasks!DeleteLink

LEMMA ReadLinkStep ==
    ASSUME Tasks!TasksConstants, IInv, NEW l \in Tasks!LinkIds, Tasks!ReadLink(l)
    PROVE  IInv'
<1> DEFINE t0 == Tasks!Read(l, link[l].url)
<1>1. t0 \in Tasks!Task /\ t0.kind = "read" /\ t0.then = FALSE
  BY RowTypes, TaskTypes DEF IInv, Tasks!ReadLink, Tasks!Read, Tasks!Pages
<1>2. tasks' = tasks \cup {t0} /\ UNCHANGED <<link, series, lost>>
  BY DEF Tasks!ReadLink, Tasks!Spawn
<1>3. Tasks!TypeOK'
  BY <1>1, <1>2 DEF IInv, Tasks!TypeOK
<1>4. Tasks!Links' = Tasks!Links
  BY <1>2 DEF Tasks!Links
<1> QED
  BY <1>1, <1>2, <1>3, <1>4, RequestStep

\* The tasks of the refreshing know the pages they ask for, and take nothing
\* from those that serve a link.
LEMMA RefreshMetadataStep ==
    ASSUME Tasks!TasksConstants, IInv, Tasks!RefreshMetadata
    PROVE  IInv'
<1> DEFINE found == {l \in Tasks!Links : link[l].icon = None \/ link[l].desc = None}
           asked == {Tasks!Enrich(l, link[l].url, FALSE) : l \in found}
<1>1. ASSUME NEW t \in asked
      PROVE  t \in Tasks!Task /\ t.kind = "enrich" /\ t.then = FALSE
  <2>1. PICK l \in Tasks!Links : t = Tasks!Enrich(l, link[l].url, FALSE)
    OBVIOUS
  <2> QED
    BY <2>1, RowTypes, TaskTypes DEF IInv, Tasks!Enrich, Tasks!Pages
<1>2. tasks' = tasks \cup asked /\ UNCHANGED <<link, series, lost>>
  BY DEF Tasks!RefreshMetadata
<1> HIDE DEF asked
<1>3. Tasks!TypeOK'
  BY <1>1, <1>2 DEF IInv, Tasks!TypeOK
<1>4. Tasks!Links' = Tasks!Links
  BY <1>2 DEF Tasks!Links
<1>5. PagesAreKnown'
  BY <1>1, <1>2 DEF IInv, PagesAreKnown
<1>6. ASSUME ~lost', NEW m \in Tasks!Links', link'[m].status = "pending"
      PROVE  Tasks!Served(m)'
  BY <1>2, <1>4, <1>6, StaysServed DEF IInv, Tasks!PendingIsServed
<1> QED
  BY <1>3, <1>5, <1>6 DEF IInv, Tasks!PendingIsServed

\* A link archived on demand has its task.
LEMMA ArchiveLinkStep ==
    ASSUME Tasks!TasksConstants, IInv, NEW l \in Tasks!LinkIds, Tasks!ArchiveLink(l)
    PROVE  IInv'
<1> DEFINE new == [link[l] EXCEPT !.status = "pending"]
           t0 == Tasks!Archive(l)
<1>1. l \in Tasks!Links /\ link[l] \in Tasks!Row
  BY RowTypes DEF Tasks!ArchiveLink, IInv
<1>2. new \in Tasks!Row
  BY <1>1 DEF Tasks!Row
<1>3. link' = [link EXCEPT ![l] = new] /\ tasks' = tasks \cup {t0} /\ UNCHANGED <<series, lost>>
  BY <1>1 DEF Tasks!ArchiveLink, Tasks!Spawn, IInv, Tasks!TypeOK
<1>4. t0 \in Tasks!Task /\ t0.id = l /\ t0.kind = "archive" /\ t0.then = FALSE
  BY TaskTypes DEF Tasks!Archive, Tasks!Pages
<1>5. Tasks!TypeOK'
  BY <1>2, <1>3, <1>4 DEF IInv, Tasks!TypeOK
<1>6. PagesAreKnown'
  BY <1>3, <1>4 DEF IInv, PagesAreKnown
<1>7. ASSUME ~lost', NEW m \in Tasks!Links', link'[m].status = "pending"
      PROVE  Tasks!Served(m)'
  <2>1. CASE m = l
    BY <1>3, <1>4, <2>1 DEF Tasks!Served
  <2>2. CASE m # l
    <3>1. m \in Tasks!Links /\ link[m].status = "pending"
      BY <1>3, <1>7, <2>2 DEF IInv, Tasks!TypeOK, Tasks!Links
    <3> QED
      BY <1>3, <1>7, <3>1, StaysServed DEF IInv, Tasks!PendingIsServed
  <2> QED
    BY <2>1, <2>2
<1> QED
  BY <1>5, <1>6, <1>7 DEF IInv, Tasks!PendingIsServed

\* archive_all: every link it pends is in its series.
LEMMA ArchiveAllStep ==
    ASSUME Tasks!TasksConstants, IInv, Tasks!ArchiveAll
    PROVE  IInv'
<1> DEFINE ids == {l \in Tasks!Links : link[l].capture = None}
           new(l) == [link[l] EXCEPT !.status = "pending"]
<1>1. /\ link' = [l \in Tasks!LinkIds |-> IF l \in ids THEN new(l) ELSE link[l]]
      /\ series' = [left |-> ids, at |-> None, url |-> None]
      /\ UNCHANGED <<tasks, lost>>
  BY DEF Tasks!ArchiveAll
<1>2. \A l \in ids : link[l] \in Tasks!Row /\ new(l) \in Tasks!Row
  BY RowTypes DEF IInv, Tasks!Row
<1>3. link' \in [Tasks!LinkIds -> Tasks!Row \cup {None}]
  BY <1>1, <1>2 DEF IInv, Tasks!TypeOK
<1>4. series' \in Tasks!Job
  BY <1>1 DEF Tasks!Job, Tasks!Links, Tasks!Pages
<1>5. Tasks!TypeOK' /\ PagesAreKnown'
  BY <1>1, <1>3, <1>4 DEF IInv, Tasks!TypeOK, PagesAreKnown
<1>6. ASSUME ~lost', NEW m \in Tasks!Links', link'[m].status = "pending"
      PROVE  Tasks!Served(m)'
  <2>1. CASE m \in ids
    <3>1. series' # None
      BY <1>4, Tasks!TasksConstants DEF Tasks!TasksConstants
    <3> QED
      BY <1>1, <2>1, <3>1 DEF Tasks!Served
  <2>2. CASE m \notin ids
    <3>1. m \in Tasks!Links /\ link[m].status = "pending"
      BY <1>1, <1>6, <2>2 DEF Tasks!Links
    <3> QED
      BY <1>1, <1>6, <3>1, StaysServed DEF IInv, Tasks!PendingIsServed, Tasks!ArchiveAll
  <2> QED
    BY <2>1, <2>2
<1> QED
  BY <1>5, <1>6 DEF IInv, Tasks!PendingIsServed

-----------------------------------------------------------------------------
(* Tasks and series *)

\* A step pends no link.  It serves the pending ones when what it takes from
\* the tasks and the series served them no more, or goes on in another task.
LEMMA TaskStepServes ==
    ASSUME IInv, UNCHANGED lost,
           \A m \in Tasks!Links' : link'[m].status = "pending" =>
               m \in Tasks!Links /\ link[m].status = "pending" /\ (Tasks!Served(m) => Tasks!Served(m)')
    PROVE  Tasks!PendingIsServed'
  BY DEF IInv, Tasks!PendingIsServed

LEMMA EnrichDoneStep ==
    ASSUME Tasks!TasksConstants, IInv, NEW t \in tasks, NEW icon \in BOOLEAN, NEW desc \in BOOLEAN,
           Tasks!EnrichDone(t, icon, desc)
    PROVE  /\ IInv'
           /\ \A l \in Tasks!LinkIds : link[l] # None => RowFilled(link[l], link'[l])
           /\ \A l \in Tasks!LinkIds : link'[l] = None <=> link[l] = None
<1> DEFINE new == Enriched(link[t.id], t.url, icon, desc)
<1>1. t \in Tasks!Task /\ t.id \in Tasks!LinkIds /\ t.url \in Tasks!Pages
  BY DEF IInv, Tasks!TypeOK, Tasks!Task
<1>2. ASSUME link[t.id] # None
      PROVE  link[t.id] \in Tasks!Row /\ new \in Tasks!Row /\ new.status = link[t.id].status
                /\ RowFilled(link[t.id], new)
  <2>1. link[t.id] \in Tasks!Row
    BY <1>1, <1>2, RowTypes DEF IInv
  <2> QED
    BY <1>1, <2>1, EnrichedRow
<1>3. link' = IF link[t.id] = None THEN link ELSE [link EXCEPT ![t.id] = new]
  BY <1>1, <1>2 DEF Tasks!EnrichDone, Enriched, IInv, Tasks!TypeOK
<1> HIDE DEF new
<1>4. /\ tasks' = (tasks \ {t}) \cup Tasks!Following(t)
      /\ Tasks!Following(t) \subseteq {Tasks!Archive(t.id)}
      /\ t.then => Tasks!Archive(t.id) \in tasks'
      /\ UNCHANGED <<series, lost>>
  BY DEF Tasks!EnrichDone, Tasks!Following
<1>5. Tasks!Archive(t.id) \in Tasks!Task /\ Tasks!Archive(t.id).id = t.id
            /\ Tasks!Archive(t.id).kind = "archive" /\ ~Tasks!Archive(t.id).then
  BY <1>1, TaskTypes DEF Tasks!Archive
<1>6. Tasks!TypeOK'
  <2>1. link' \in [Tasks!LinkIds -> Tasks!Row \cup {None}]
    BY <1>1, <1>2, <1>3 DEF IInv, Tasks!TypeOK
  <2> QED
    BY <2>1, <1>4, <1>5 DEF IInv, Tasks!TypeOK
<1>7. PagesAreKnown'
  BY <1>4, <1>5 DEF IInv, PagesAreKnown
<1>8. ASSUME NEW m \in Tasks!Links', link'[m].status = "pending"
      PROVE  m \in Tasks!Links /\ link[m].status = "pending" /\ (Tasks!Served(m) => Tasks!Served(m)')
  <2>1. m \in Tasks!Links /\ link[m].status = "pending"
    BY <1>1, <1>2, <1>3, <1>8 DEF IInv, Tasks!TypeOK, Tasks!Links
  <2>2. Tasks!Served(m) => Tasks!Served(m)'
    <3>1. CASE t.id = m /\ t.then
      BY <1>4, <1>5, <3>1 DEF Tasks!Served
    <3>2. CASE ~(t.id = m /\ t.then)
      BY <1>4, <3>2 DEF Tasks!Served, Tasks!EnrichDone
    <3> QED
      BY <3>1, <3>2
  <2> QED
    BY <2>1, <2>2
<1>9. Tasks!PendingIsServed'
  BY <1>4, <1>8, TaskStepServes
<1>10. \A l \in Tasks!LinkIds : link[l] # None => RowFilled(link[l], link'[l])
  BY <1>1, <1>2, <1>3 DEF IInv, Tasks!TypeOK, RowFilled
<1>11. \A l \in Tasks!LinkIds : link'[l] = None <=> link[l] = None
  BY <1>1, <1>2, <1>3, RowTypes DEF IInv, Tasks!TypeOK
<1> QED
  BY <1>6, <1>7, <1>9, <1>10, <1>11 DEF IInv

\* The url is read of the row that is there, so a page is known.
LEMMA ArchiveStartStep ==
    ASSUME Tasks!TasksConstants, IInv, NEW t \in tasks, Tasks!ArchiveStart(t)
    PROVE  IInv'
<1> DEFINE t0 == Tasks!Post(t.id, link[t.id].url)
<1>1. t \in Tasks!Task /\ t.id \in Tasks!LinkIds /\ t.kind = "archive"
  BY DEF IInv, Tasks!TypeOK, Tasks!Task, Tasks!ArchiveStart
<1>2. tasks' = (tasks \ {t}) \cup (IF link[t.id] = None THEN {} ELSE {t0})
        /\ UNCHANGED <<link, series, lost>>
  BY DEF Tasks!ArchiveStart
<1>3. ASSUME link[t.id] # None
      PROVE  t0 \in Tasks!Task /\ t0.id = t.id /\ t0.kind = "post" /\ t0.url # None /\ ~t0.then
  <2>1. link[t.id].url \in Urls /\ None \notin Urls
    BY <1>1, <1>3, RowTypes DEF IInv, Tasks!TasksConstants
  <2> QED
    BY <1>1, <2>1, TaskTypes DEF Tasks!Post, Tasks!Pages
<1> HIDE DEF t0
<1>4. Tasks!TypeOK' /\ PagesAreKnown'
  BY <1>2, <1>3 DEF IInv, Tasks!TypeOK, PagesAreKnown
<1>5. ASSUME NEW m \in Tasks!Links', link'[m].status = "pending"
      PROVE  m \in Tasks!Links /\ link[m].status = "pending" /\ (Tasks!Served(m) => Tasks!Served(m)')
  <2>1. m \in Tasks!Links /\ link[m].status = "pending"
    BY <1>2, <1>5 DEF Tasks!Links
  <2>2. CASE t.id = m
    <3>1. t0 \in tasks' /\ t0.id = m /\ t0.kind = "post"
      BY <1>2, <1>3, <2>1, <2>2 DEF Tasks!Links
    <3> QED
      BY <2>1, <3>1 DEF Tasks!Served
  <2>3. CASE t.id # m
    BY <1>2, <2>1, <2>3 DEF Tasks!Served
  <2> QED
    BY <2>2, <2>3
<1>6. Tasks!PendingIsServed'
  BY <1>2, <1>5, TaskStepServes
<1> QED
  BY <1>4, <1>6 DEF IInv

\* What TasksOnlyFill says of a step.
Fills ==
    \A l \in Tasks!LinkIds :
        /\ link'[l] = None <=> link[l] = None
        /\ link[l] # None => RowFilled(link[l], link'[l])

\* An answer of the Wayback Machine on the row of l: a link deleted meanwhile
\* stays so, and no other link changes.
LEMMA AnswerStep ==
    ASSUME Tasks!TasksConstants, Tasks!TypeOK, NEW l \in Tasks!LinkIds, NEW u \in Tasks!Pages, u # None,
           NEW ok \in BOOLEAN,
           link' = IF link[l] = None THEN link
                   ELSE [link EXCEPT ![l] = Tasks!Archived(@, u, ok)]
    PROVE  /\ link' \in [Tasks!LinkIds -> Tasks!Row \cup {None}]
           /\ Fills
           /\ \A m \in Tasks!Links' : link'[m].status = "pending"
                 => m # l /\ m \in Tasks!Links /\ link[m].status = "pending"
<1> DEFINE new == Tasks!Archived(link[l], u, ok)
<1>1. ASSUME link[l] # None
      PROVE  link[l] \in Tasks!Row /\ new \in Tasks!Row /\ new.status # "pending"
                /\ RowFilled(link[l], new)
  <2>1. link[l] \in Tasks!Row
    BY <1>1, RowTypes
  <2> QED
    BY <2>1, ArchivedRow
<1>2. link' = IF link[l] = None THEN link ELSE [link EXCEPT ![l] = new]
  BY DEF Tasks!TypeOK
<1> HIDE DEF new
<1>3. link' \in [Tasks!LinkIds -> Tasks!Row \cup {None}]
  BY <1>1, <1>2 DEF Tasks!TypeOK
<1>4. Fills
  BY <1>1, <1>2, RowTypes DEF Tasks!TypeOK, RowFilled, Fills
<1>5. \A m \in Tasks!Links' : link'[m].status = "pending"
                           => m # l /\ m \in Tasks!Links /\ link[m].status = "pending"
  BY <1>1, <1>2 DEF Tasks!TypeOK, Tasks!Links
<1> QED
  BY <1>3, <1>4, <1>5

LEMMA ArchiveDoneStep ==
    ASSUME Tasks!TasksConstants, IInv, NEW t \in tasks, NEW ok \in BOOLEAN, Tasks!ArchiveDone(t, ok)
    PROVE  IInv' /\ Fills
<1>1. t.id \in Tasks!LinkIds /\ t.url \in Tasks!Pages /\ t.url # None
  BY DEF IInv, Tasks!TypeOK, Tasks!Task, PagesAreKnown, Tasks!ArchiveDone
<1>2. tasks' = tasks \ {t} /\ UNCHANGED <<series, lost>>
  BY DEF Tasks!ArchiveDone
<1>3. /\ link' \in [Tasks!LinkIds -> Tasks!Row \cup {None}]
      /\ Fills
      /\ \A m \in Tasks!Links' : link'[m].status = "pending"
            => m # t.id /\ m \in Tasks!Links /\ link[m].status = "pending"
  BY <1>1, AnswerStep DEF Tasks!ArchiveDone, IInv
<1>4. Tasks!TypeOK' /\ PagesAreKnown'
  BY <1>2, <1>3 DEF IInv, Tasks!TypeOK, PagesAreKnown
<1>5. \A m \in Tasks!Links' : link'[m].status = "pending"
         => m \in Tasks!Links /\ link[m].status = "pending" /\ (Tasks!Served(m) => Tasks!Served(m)')
  BY <1>2, <1>3 DEF Tasks!Served
<1>6. Tasks!PendingIsServed'
  BY <1>2, <1>5, TaskStepServes
<1> QED
  BY <1>3, <1>4, <1>6 DEF IInv

LEMMA ReadDoneStep ==
    ASSUME Tasks!TasksConstants, IInv, NEW t \in tasks, NEW ok \in BOOLEAN, Tasks!ReadDone(t, ok)
    PROVE  IInv' /\ Fills
<1> DEFINE new == [link[t.id] EXCEPT !.reader = t.url]
<1>1. t.id \in Tasks!LinkIds /\ t.url \in Tasks!Pages /\ t.kind = "read" /\ ~t.then
  BY DEF IInv, Tasks!TypeOK, Tasks!Task, PagesAreKnown, Tasks!ReadDone
<1>2. tasks' = tasks \ {t} /\ UNCHANGED <<series, lost>>
  BY DEF Tasks!ReadDone
<1>3. ASSUME link[t.id] # None
      PROVE  link[t.id] \in Tasks!Row /\ new \in Tasks!Row /\ new.status = link[t.id].status
                /\ RowFilled(link[t.id], new)
  <2>1. link[t.id] \in Tasks!Row
    BY <1>1, <1>3, RowTypes DEF IInv
  <2> QED
    BY <1>1, <2>1 DEF Tasks!Row, RowFilled
<1>4. link' \in {link, [link EXCEPT ![t.id] = new]} /\ (link[t.id] = None => link' = link)
  BY DEF Tasks!ReadDone, IInv, Tasks!TypeOK
<1> HIDE DEF new
<1>5. link' \in [Tasks!LinkIds -> Tasks!Row \cup {None}]
  BY <1>1, <1>3, <1>4 DEF IInv, Tasks!TypeOK
<1>6. Fills
  BY <1>1, <1>3, <1>4, RowTypes DEF IInv, Tasks!TypeOK, RowFilled, Fills
<1>7. Tasks!TypeOK' /\ PagesAreKnown'
  BY <1>2, <1>5 DEF IInv, Tasks!TypeOK, PagesAreKnown
<1>8. \A m \in Tasks!Links' : link'[m].status = "pending"
         => m \in Tasks!Links /\ link[m].status = "pending" /\ (Tasks!Served(m) => Tasks!Served(m)')
  <2>1. \A m \in Tasks!Links' : link'[m].status = "pending"
         => m \in Tasks!Links /\ link[m].status = "pending"
    BY <1>1, <1>3, <1>4 DEF IInv, Tasks!TypeOK, Tasks!Links
  <2> QED
    BY <1>1, <1>2, <2>1 DEF Tasks!Served
<1>9. Tasks!PendingIsServed'
  BY <1>2, <1>8, TaskStepServes
<1> QED
  BY <1>6, <1>7, <1>9 DEF IInv

\* The series: a deleted link is passed over, any other is answered.
LEMMA JobPickStep ==
    ASSUME Tasks!TasksConstants, IInv, NEW l \in Tasks!LinkIds, Tasks!JobPick(l)
    PROVE  IInv' /\ Fills
<1>1. /\ series \in Tasks!Job /\ series # None
      /\ series' = IF link[l] = None THEN [series EXCEPT !.left = @ \ {l}]
                ELSE [series EXCEPT !.at = l, !.url = link[l].url]
      /\ UNCHANGED <<link, tasks, lost>>
  BY DEF Tasks!JobPick, IInv, Tasks!TypeOK
<1>2. link[l] # None => link[l].url \in Urls /\ link[l].url # None
  BY RowTypes DEF IInv, Tasks!TasksConstants
<1>3. series' \in Tasks!Job /\ series' # None
  BY ZenonT(60), <1>1, <1>2, Tasks!TasksConstants DEF Tasks!Job, Tasks!Pages, Tasks!TasksConstants
<1>4. Tasks!TypeOK'
  BY <1>1, <1>3 DEF IInv, Tasks!TypeOK
<1>5. PagesAreKnown'
  BY <1>1, <1>2, Tasks!TasksConstants DEF IInv, PagesAreKnown, Tasks!Job, Tasks!JobPick
<1>6. Fills
  BY <1>1 DEF Fills, RowFilled
<1>7. ASSUME NEW m \in Tasks!Links', link'[m].status = "pending"
      PROVE  m \in Tasks!Links /\ link[m].status = "pending" /\ (Tasks!Served(m) => Tasks!Served(m)')
  <2>1. m \in Tasks!Links /\ link[m].status = "pending" /\ link[m] # None
    BY <1>1, <1>7 DEF Tasks!Links
  <2>2. m \in series.left => m \in series'.left
    BY <1>1, <2>1 DEF Tasks!Job
  <2> QED
    BY <1>1, <1>3, <2>1, <2>2 DEF Tasks!Served
<1>8. Tasks!PendingIsServed'
  BY <1>1, <1>7, TaskStepServes
<1> QED
  BY <1>4, <1>5, <1>6, <1>8 DEF IInv

LEMMA JobPostStep ==
    ASSUME Tasks!TasksConstants, IInv, NEW ok \in BOOLEAN, Tasks!JobPost(ok)
    PROVE  IInv' /\ Fills
<1>1. /\ series \in Tasks!Job /\ series # None
      /\ series.at \in Tasks!LinkIds /\ series.url \in Tasks!Pages /\ series.url # None
      /\ series' = [left |-> series.left \ {series.at}, at |-> None, url |-> None]
      /\ UNCHANGED <<tasks, lost>>
  BY DEF Tasks!JobPost, IInv, Tasks!TypeOK, Tasks!Job, PagesAreKnown
<1>2. /\ link' \in [Tasks!LinkIds -> Tasks!Row \cup {None}]
      /\ Fills
      /\ \A m \in Tasks!Links' : link'[m].status = "pending"
            => m # series.at /\ m \in Tasks!Links /\ link[m].status = "pending"
  BY <1>1, AnswerStep DEF Tasks!JobPost, IInv
<1>3. series' \in Tasks!Job /\ series' # None
  BY <1>1, Tasks!TasksConstants DEF Tasks!Job, Tasks!Pages, Tasks!TasksConstants
<1>4. Tasks!TypeOK' /\ PagesAreKnown'
  BY <1>1, <1>2, <1>3 DEF IInv, Tasks!TypeOK, PagesAreKnown
<1>5. \A m \in Tasks!Links' : link'[m].status = "pending"
         => m \in Tasks!Links /\ link[m].status = "pending" /\ (Tasks!Served(m) => Tasks!Served(m)')
  BY <1>1, <1>2, <1>3 DEF Tasks!Served
<1>6. Tasks!PendingIsServed'
  BY <1>1, <1>5, TaskStepServes
<1> QED
  BY <1>2, <1>4, <1>6 DEF IInv

LEMMA JobEndStep ==
    ASSUME Tasks!TasksConstants, IInv, Tasks!JobEnd
    PROVE  IInv' /\ Fills
<1>1. series # None /\ series.left = {} /\ series' = None /\ UNCHANGED <<link, tasks, lost>>
  BY DEF Tasks!JobEnd
<1>2. Tasks!TypeOK' /\ PagesAreKnown'
  BY <1>1 DEF IInv, Tasks!TypeOK, PagesAreKnown
<1>3. Tasks!PendingIsServed'
  BY <1>1, TaskStepServes DEF Tasks!Links, Tasks!Served
<1> QED
  BY <1>1, <1>2, <1>3 DEF IInv, Fills, RowFilled

-----------------------------------------------------------------------------
(* The theorems *)

\* No link, no task.
LEMMA InitIInv == ASSUME Tasks!TasksConstants, Tasks!Init PROVE IInv
  BY DEF Tasks!Init, IInv, Tasks!TypeOK, Tasks!PendingIsServed, PagesAreKnown, Tasks!Links

LEMMA FaultStep ==
    ASSUME Tasks!TasksConstants, IInv, Tasks!Fault
    PROVE  IInv'
<1>1. CASE Tasks!Restart
  BY <1>1 DEF Tasks!Restart, IInv, Tasks!TypeOK, Tasks!PendingIsServed, PagesAreKnown
<1>2. ASSUME NEW t \in tasks, Tasks!EnrichRaises(t) PROVE IInv'
  <2>1. tasks' = tasks \ {t} /\ lost' = (lost \/ t.then) /\ UNCHANGED <<link, series>>
    BY <1>2 DEF Tasks!EnrichRaises
  <2>2. Tasks!TypeOK'
    BY <2>1 DEF IInv, Tasks!TypeOK, Tasks!Task
  <2>3. PagesAreKnown' /\ Tasks!Links' = Tasks!Links
    BY <2>1 DEF IInv, PagesAreKnown, Tasks!Links
  <2>4. ASSUME ~lost', NEW m \in Tasks!Links', link'[m].status = "pending"
        PROVE  Tasks!Served(m)'
    <3>1. ~lost /\ ~t.then /\ t.kind = "enrich"
      BY <1>2, <2>1, <2>4 DEF Tasks!EnrichRaises
    <3>2. Tasks!Served(m)
      BY <2>1, <2>3, <2>4, <3>1 DEF IInv, Tasks!PendingIsServed
    <3> QED
      BY <2>1, <3>1, <3>2, StaysServed
  <2> QED
    BY <2>2, <2>3, <2>4 DEF IInv, Tasks!PendingIsServed
<1> QED
  BY <1>1, <1>2 DEF Tasks!Fault

LEMMA UserStepKeeps ==
    ASSUME Tasks!TasksConstants, IInv, Tasks!UserStep
    PROVE  IInv'
  BY CreateLinkStep, EditLinkStep, DeleteLinkStep, ArchiveLinkStep, ReadLinkStep,
     RefreshMetadataStep, ArchiveAllStep DEF Tasks!UserStep

LEMMA WorkStepKeeps ==
    ASSUME Tasks!TasksConstants, IInv, Tasks!TaskStep \/ Tasks!JobStep
    PROVE  IInv'
<1>1. ASSUME Tasks!TaskStep PROVE IInv'
  BY <1>1, EnrichDoneStep, ArchiveStartStep, ArchiveDoneStep, ReadDoneStep DEF Tasks!TaskStep
<1>2. ASSUME Tasks!JobStep PROVE IInv'
  BY <1>2, JobPickStep, JobPostStep, JobEndStep DEF Tasks!JobStep
<1> QED
  BY <1>1, <1>2

\* The inductive invariant of the tasks of a link.
LEMMA Invariance == Tasks!Spec => []IInv
<1>1. ASSUME IInv, [Tasks!Next]_Tasks!vars PROVE IInv'
  <2>1. CASE UNCHANGED Tasks!vars
    BY <1>1, <2>1
       DEF Tasks!vars, IInv, Tasks!TypeOK, Tasks!PendingIsServed, PagesAreKnown, Tasks!Served,
           Tasks!Links
  <2> QED
    BY <1>1, <2>1, TasksAssumption, UserStepKeeps, WorkStepKeeps, FaultStep DEF Tasks!Next
<1> QED
  BY <1>1, InitIInv, TasksAssumption, PTL DEF Tasks!Spec

\* Types of the links, the tasks and the series.
THEOREM TypesHold == Tasks!Spec => []Tasks!TypeOK
<1>1. IInv => Tasks!TypeOK
  BY DEF IInv
<1> QED
  BY <1>1, Invariance, PTL

\* create_link, archive_link and archive_all: whatever is edited, deleted,
\* created again under the same id, or fails, a pending link has a task or a
\* series that will answer, unless a restart or the database lost tasks.
THEOREM PendingAlwaysServed == Tasks!Spec => []PendingIsServed
<1>1. IInv => PendingIsServed
  BY DEF IInv, PendingIsServed
<1> QED
  BY <1>1, Invariance, PTL

\* _fetch_and_update_meta, _wayback_archive, _archive_many and the extraction
\* of the reader view: a late task never takes anything from a link.
THEOREM TasksAlwaysOnlyFill == Tasks!Spec => TasksOnlyFill
<1> DEFINE A == Tasks!TaskStep \/ Tasks!JobStep =>
         \A l \in Tasks!LinkIds :
             /\ link'[l] = None <=> link[l] = None
             /\ link[l] # None =>
                   /\ link[l].icon # None => link'[l].icon = link[l].icon
                   /\ link[l].desc # None => link'[l].desc = link[l].desc
                   /\ link'[l].capture = None => link[l].capture = None
                   /\ link'[l].url = link[l].url
<1>1. ASSUME IInv, Tasks!TaskStep \/ Tasks!JobStep PROVE Fills
  <2>1. ASSUME NEW t \in tasks, Tasks!ArchiveStart(t) PROVE Fills
    BY <2>1 DEF Tasks!ArchiveStart, Fills, RowFilled
  <2>2. ASSUME NEW t \in tasks, NEW icon \in BOOLEAN, NEW desc \in BOOLEAN,
               Tasks!EnrichDone(t, icon, desc)
        PROVE  Fills
    BY <1>1, <2>2, TasksAssumption, EnrichDoneStep DEF Fills
  <2>3. CASE Tasks!TaskStep
    BY <1>1, <2>1, <2>2, <2>3, TasksAssumption, ArchiveDoneStep, ReadDoneStep
       DEF Tasks!TaskStep
  <2>4. CASE Tasks!JobStep
    BY <1>1, <2>4, TasksAssumption, JobPickStep, JobPostStep, JobEndStep DEF Tasks!JobStep
  <2> QED
    BY <1>1, <2>3, <2>4
<1>2. IInv /\ [Tasks!Next]_Tasks!vars => [A]_Tasks!vars
  BY <1>1 DEF Fills, RowFilled
<1> QED
  BY <1>2, Invariance, PTL DEF Tasks!Spec, Tasks!TasksOnlyFill, TasksOnlyFill
=============================================================================
