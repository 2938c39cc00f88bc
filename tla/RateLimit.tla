----------------------------- MODULE RateLimit -----------------------------
(***************************************************************************)
(* The request counter (app/ratelimit.py).  One dictionary, _calls, serves *)
(* every limiter: its keys are a client address and a route template, its  *)
(* values the period of the limiter of that route and the times of the     *)
(* calls it accepted.  Every CleanupEvery accepted calls, whatever their   *)
(* routes, the keys with no recent call are removed.                       *)
(*                                                                         *)
(* Nothing awaits while the lock is held, so a call is one step.  Two calls*)
(* of one instant are told apart by a serial number.                       *)
(*                                                                         *)
(* A request asks every limiter of its route.  Two routes have two:        *)
(* /api/v1/fetch-meta (app/routes/api.py) and /api/v1/freshrss/sync        *)
(* (app/routes/freshrss.py) have one of their own and then, once a session *)
(* is opened, which awaits, the limiter of the key of the API.  Both stamp *)
(* the same key, which says the route and not the limiter.                 *)
(***************************************************************************)
EXTENDS Naturals, FiniteSets, Sequences

CONSTANTS
    Clients,       \* client addresses
    Routes,        \* route templates
    Calls,         \* Routes -> the quotas of its limiters, as they are asked
    Period,        \* Routes -> the period, the same for its limiters
    CleanupEvery,  \* _CLEANUP_EVERY
    MaxTime,       \* bound on the clock
    MaxInside,     \* bound on the requests of a key between two limiters
    None           \* an absent key

Keys == Clients \X Routes

\* The limiters of a route, as they are asked: no route has a third.
Limiters == {1, 2}

ASSUME LimitAssumption ==
    /\ \A r \in Routes : Calls[r] \in Seq(Nat \ {0}) /\ Len(Calls[r]) \in Limiters
    /\ Period \in [Routes -> Nat \ {0}]
    /\ CleanupEvery \in Nat \ {0}
    /\ MaxTime \in Nat /\ MaxInside \in Nat

Stamp == [time : Nat, serial : Nat]
Entry == [period : Nat, stamps : SUBSET Stamp]

ASSUME NoneIsNoEntry == None \notin Entry

VARIABLES
    now,      \* time.monotonic()
    calls,    \* _calls: key -> entry, None when the key is absent
    counter,  \* _cleanup_counter
    inside,   \* the requests let through by the first of two limiters
    recent    \* history: the calls each limiter accepted in the last period

vars == <<now, calls, counter, inside, recent>>

TypeOK ==
    /\ now \in 0 .. MaxTime
    /\ calls \in [Keys -> Entry \cup {None}]
    /\ counter \in 0 .. CleanupEvery - 1
    /\ inside \in [Keys -> 0 .. MaxInside]
    /\ recent \in [Keys \X Limiters -> SUBSET Stamp]

Init ==
    /\ now = 0
    /\ calls = [k \in Keys |-> None]
    /\ counter = 0
    /\ inside = [k \in Keys |-> 0]
    /\ recent = [k \in Keys \X Limiters |-> {}]

-----------------------------------------------------------------------------

\* Mutant of Within: a call of exactly one period ago still counts.
WithinOrEqual(stamps, period, t) == {s \in stamps : t <= s.time + period}

\* The calls less than a period old: now - t < period_seconds.
Within(stamps, period, t) == {s \in stamps : t < s.time + period}

\* The window a limiter of route k[2] finds for k.
Window(k) ==
    IF calls[k] = None THEN {} ELSE Within(calls[k].stamps, Period[k[2]], now)

\* The first free serial of this instant.
IsNextSerial(k, n) ==
    /\ [time |-> now, serial |-> n] \notin Window(k)
    /\ \A m \in 1 .. n - 1 : [time |-> now, serial |-> m] \in Window(k)

\* Mutant of Swept: every key is judged by the period of the caller.
SweptByCaller(table, k) ==
    [j \in Keys |->
        IF /\ table[j] # None
           /\ Within(table[j].stamps, Period[k[2]], now) = {}
        THEN None ELSE table[j]]

\* Mutant of Swept: only the keys without any call are removed.
SweptEmpty(table, k) ==
    [j \in Keys |-> IF table[j] # None /\ table[j].stamps = {} THEN None ELSE table[j]]

\* The table without the keys whose last call is older than their own period.
Swept(table, k) ==
    [j \in Keys |->
        IF /\ table[j] # None
           /\ \A s \in table[j].stamps : now >= s.time + table[j].period
        THEN None ELSE table[j]]

Counted(c) == IF c + 1 >= CleanupEvery THEN 0 ELSE c + 1

\* A request of key k has been let through by limiter i.
Passed(k, i) ==
    CASE i = 2                          -> inside[k] - 1
      [] i = 1 /\ Len(Calls[k[2]]) = 2  -> inside[k] + 1
      [] OTHER                          -> inside[k]

\* Limiter i of the route accepts a call; one it refuses (429) changes nothing
\* in the table.
Accept(k, i) ==
    /\ i <= Len(Calls[k[2]])
    /\ i = 2 => inside[k] > 0
    /\ Passed(k, i) <= MaxInside
    /\ Cardinality(Window(k)) < Calls[k[2]][i]
    /\ counter' = Counted(counter)
    /\ \E n \in 1 .. Calls[k[2]][i] :
        LET stamp == [time |-> now, serial |-> n]
            table == [calls EXCEPT ![k] =
                         [period |-> Period[k[2]], stamps |-> Window(k) \cup {stamp}]]
        IN  /\ IsNextSerial(k, n)
            /\ calls' = IF counter' = 0 THEN Swept(table, k) ELSE table
            /\ recent' = [recent EXCEPT ![<<k, i>>] = @ \cup {stamp}]
    /\ inside' = [inside EXCEPT ![k] = Passed(k, i)]
    /\ UNCHANGED now

\* A request that the first limiter let through ends there: it has no API key
\* (401), no session could be opened, or the second limiter refuses it (429).
Leave(k) ==
    /\ inside[k] > 0
    /\ inside' = [inside EXCEPT ![k] = @ - 1]
    /\ UNCHANGED <<now, calls, counter, recent>>

\* Time passes; the calls that get older than their period leave the history.
Tick ==
    /\ now < MaxTime
    /\ now' = now + 1
    /\ recent' = [q \in Keys \X Limiters |->
                     {s \in recent[q] : now + 1 < s.time + Period[q[1][2]]}]
    /\ UNCHANGED <<calls, counter, inside>>

Next ==
    \/ \E k \in Keys, i \in Limiters : Accept(k, i)
    \/ \E k \in Keys : Leave(k)
    \/ Tick

Spec == Init /\ [][Next]_vars

-----------------------------------------------------------------------------
(* Properties *)

\* No limiter lets more than its quota of a client's calls through in one
\* period, whatever the other routes, their periods and the cleanups they
\* cause, and whatever the other limiter of the route does.
QuotaHolds ==
    \A k \in Keys, i \in Limiters :
        i <= Len(Calls[k[2]]) => Cardinality(recent[<<k, i>>]) <= Calls[k[2]][i]

\* What the limiters of k's route accepted in the last period.
Accepted(k) == recent[<<k, 1>>] \cup recent[<<k, 2>>]

\* What a limiter compares with its quota is what was accepted in the last
\* period, nothing less and nothing more, by it or by the other limiter of the
\* route.  On the routes that have two, a request let through by both is thus
\* counted twice, and half the smaller quota is enough for a refusal: neither
\* the docstring of rate_limit nor docs/api.md says so.
WindowIsExact ==
    \A k \in Keys :
        /\ Window(k) = Accepted(k)
        /\ recent[<<k, 1>>] \cap recent[<<k, 2>>] = {}

\* A cleanup leaves no key without a recent call: the table holds at most the
\* active keys and those of the CleanupEvery calls since.
SweepFreesIdleKeys ==
    [][(calls' # calls /\ counter' = 0) =>
         \A k \in Keys : calls'[k] # None => Accepted(k)' # {}]_vars
=============================================================================
