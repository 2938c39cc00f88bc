--------------------------- MODULE MCFreshRSSLive ---------------------------
(***************************************************************************)
(* Convergence of the FreshRSS synchronisation once the account is quiet.  *)
(*                                                                         *)
(* Nothing is assumed of the user, of the hand on the FreshRSS server and  *)
(* of the restarts; the scheduler and the network are fair:                *)
(*   - _freshrss_loop (app/main.py) starts a pass again and again, and an  *)
(*     asyncio.Lock wakes its waiters in order, so no waiter is forgotten; *)
(*   - every coroutine step between two answers is eventually run;         *)
(*   - a server asked again and again answers, at some time, with all the  *)
(*     pages that are asked of it, and an unstar asked again and again is  *)
(*     accepted at some time.                                              *)
(* Every pass asks for the pages from the newest article on and stops at   *)
(* MaxStarred articles, so no answer shows the stars that are older than   *)
(* those, and nothing is claimed of them.                                  *)
(*                                                                         *)
(* The caps from 1 to MaxStarred are tried in one run: `cap` is the one in *)
(* force, the same from the first state on.                                *)
(***************************************************************************)
EXTENDS FreshRSSSync, TLC

CONSTANTS u1, u2, i1, i2, p1

\* Two addresses with an article each.
OneEach == i1 :> u1 @@ i2 :> u2

\* How the server orders the articles: the newest first.
Rank == i1 :> 1 @@ i2 :> 2

VARIABLE cap

\* The articles that a pass is shown of S when no page fails.
Newest(S) == {i \in S : Cardinality({j \in S : Rank[j] < Rank[i]}) < cap}

\* No pass is shown more than the cap.
Capped == \A p \in Passes : Cardinality(pass'[p].fetched) <= cap

Fairness ==
    \A p \in Passes :
        /\ WF_vars(StartPass(p))
        /\ SF_vars(Acquire(p))
        /\ SF_vars(Fetch(p, Newest(starred)))
        /\ WF_vars(NothingStarred(p) \/ Reconcile(p))
        /\ \A i \in Items : SF_vars(OrphanDone(p, i))
        /\ WF_vars(Import(p) \/ ImportFails(p))

LiveInit == Init /\ cap \in 1 .. MaxStarred

LiveSpec ==
    /\ LiveInit
    /\ [][Next /\ Capped /\ UNCHANGED cap]_<<vars, cap>>
    /\ Fairness

\* From some time on, neither the user nor a restart disturbs the program.
Quiet == <>[][~UserStep /\ ~Restart]_vars

\* An article is settled when its address is in the library and, if the link
\* there was imported from it, that link is in the tracked folder.
Settled(i) ==
    LET u == UrlOf[i]
    IN  /\ links[u] # None
        /\ links[u].item = i => links[u].folder = config.folder

\* Self-healing (docs/freshrss.md): whatever unstar was refused or lost in a
\* restart, whatever pass failed half way, and whatever folder was deleted or
\* purged meanwhile, in the end every article still starred, among the
\* `cap` newest ones, is settled: it was imported, and no link imported
\* from it is left outside the folder.  An older star is not imported for as
\* long as these stay, where docs/freshrss.md says that a sync fetches all
\* starred articles.
SyncSettles == Quiet => <>[](\A i \in Newest(starred) : Settled(i))
=============================================================================
