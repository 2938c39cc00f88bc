--------------------------- MODULE BackgroundWork ---------------------------
(***************************************************************************)
(* The background work of an account: the check of its links (LinkChecker) *)
(* and the tasks of each link (LinkTasks), whose mass archiving is called  *)
(* `series` here, `job` being the entry of the check.                      *)
(*                                                                         *)
(* The check writes the columns is_dead and last_checked of a link, which  *)
(* no task reads or writes: the two share no step.                         *)
(***************************************************************************)
EXTENDS LinkChecker

CONSTANTS MaxLink, Urls, MaxTasks, Typed
VARIABLES link, tasks, series, lost

Tasks == INSTANCE LinkTasks WITH job <- series

ASSUME TasksAssumption == Tasks!TasksConstants

work == <<link, tasks, series, lost>>

-----------------------------------------------------------------------------
(* Properties of the tasks of a link, stated in LinkTasks *)

\* A link shown as pending has a task or a series that will answer it, unless a
\* restart or the database lost tasks.
PendingIsServed == Tasks!PendingIsServed

\* A task whose answer comes late never takes anything from a link.
TasksOnlyFill == Tasks!TasksOnlyFill

\* Every archiving asked for is answered.
EveryArchiveAnswered == Tasks!EveryArchiveAnswered
=============================================================================
