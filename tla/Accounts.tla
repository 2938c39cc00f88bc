------------------------------ MODULE Accounts ------------------------------
(***************************************************************************)
(* The accounts of an instance: sign-in through the identity provider      *)
(* (app/routes/oidc.py), the session a browser keeps (app/auth.py) and the *)
(* administration of the accounts (app/routes/admin.py).                   *)
(*                                                                         *)
(* From the moment get_admin_user has read the administrator to the end of *)
(* the request nothing awaits, so each request is one step, made by an     *)
(* account that is active and administrator when it is made.               *)
(*                                                                         *)
(* The rows an account owns are left out: a foreign key to users.id and    *)
(* PRAGMA foreign_keys (app/database.py) make a deletion that forgets some *)
(* fail as a whole.                                                        *)
(***************************************************************************)
EXTENDS Naturals, FiniteSets

CONSTANTS
    Subjects,    \* subjects the identity provider knows (oidc_sub)
    MaxAccount,  \* bound on account ids
    MaxVersion,  \* bound on session_version
    None         \* an absent row

AccountIds == 1 .. MaxAccount

Account == [sub : Subjects, admin : BOOLEAN, active : BOOLEAN, version : 0 .. MaxVersion]

\* The cookie of a browser; orphan: its account has been deleted since.
Session == [id : AccountIds, version : 0 .. MaxVersion, orphan : BOOLEAN]

ASSUME AccountsAssumption ==
    /\ MaxAccount \in Nat /\ MaxVersion \in Nat
    /\ None \notin Account /\ None \notin Session

VARIABLES
    settings,  \* of the instance: ADMIN_EMAIL is set, and must be verified
    account,   \* the users table
    session    \* the session of one browser

vars == <<settings, account, session>>

Settings == [admin_email : BOOLEAN, require_verified_email : BOOLEAN]

TypeOK ==
    /\ settings \in Settings
    /\ account \in [AccountIds -> Account \cup {None}]
    /\ session \in Session \cup {None}

\* The tables an instance starts on: empty, or of an earlier release.  The
\* migration (database.py) gives the accounts of those, whose subjects are
\* unique, the columns they lack: is_admin 0, is_active 1, session_version 0.
Tables ==
    {t \in [AccountIds -> [sub : Subjects, admin : BOOLEAN, active : BOOLEAN, version : {0}]
                           \cup {None}] :
        \A a, b \in AccountIds : t[a] # None /\ t[b] # None /\ a # b => t[a].sub # t[b].sub}

Init ==
    /\ settings \in Settings
    /\ account \in Tables
    /\ session = None

Accounts == {a \in AccountIds : account[a] # None}

\* get_admin_user lets these accounts administer.
Admins == {a \in Accounts : account[a].admin /\ account[a].active}

\* What the count of toggle_admin counts: the disabled ones too.
AdminRows == {a \in Accounts : account[a].admin}

\* SQLite gives a new row the largest id in use plus one.
IsNextId(a) ==
    /\ \A b \in Accounts : b < a
    /\ \A c \in AccountIds : c < a => \E b \in Accounts : b >= c

-----------------------------------------------------------------------------
(* Sign-in and session *)

\* _maybe_promote_admin.  With ADMIN_EMAIL the address decides, provided it is
\* verified; without, the first account of the instance is administrator.
Promoted(isNew, matches, verified) ==
    IF settings.admin_email
    THEN matches /\ (verified \/ ~settings.require_verified_email)
    ELSE isNew /\ Accounts = {}

\* Signed in, in the browser or in another one.
Opened(a) ==
    session' \in {session, [id |-> a, version |-> account'[a].version, orphan |-> FALSE]}

\* oidc_callback for a subject that has no account.
SignUp(s, a, matches, verified) ==
    /\ \A b \in Accounts : account[b].sub # s
    /\ IsNextId(a)
    /\ account' = [account EXCEPT ![a] =
           [sub |-> s, admin |-> Promoted(TRUE, matches, verified), active |-> TRUE,
            version |-> 0]]
    /\ Opened(a)
    /\ UNCHANGED settings

\* oidc_callback for a known subject: a disabled account may be promoted, and
\* is refused a session afterwards.
SignIn(a, matches, verified) ==
    /\ a \in Accounts
    /\ account' = [account EXCEPT ![a].admin = @ \/ Promoted(FALSE, matches, verified)]
    /\ IF account[a].active THEN Opened(a) ELSE UNCHANGED session
    /\ UNCHANGED settings

\* What get_current_user lets pass.
Accepted(c) ==
    /\ c.id \in Accounts
    /\ account[c.id].active
    /\ account[c.id].version = c.version

\* The session ends: by logout, or because get_current_user refuses it.
EndSession ==
    /\ session # None
    /\ session' = None
    /\ UNCHANGED <<settings, account>>

\* The process restarts with other settings: ADMIN_EMAIL is set or removed.
\* The cookies stay good.
Configure(to) ==
    /\ settings' = to
    /\ UNCHANGED <<account, session>>

-----------------------------------------------------------------------------
(* Administration: by is the account that asks, a the one it is asked for *)

\* Mutant of ToggleActive: an administrator may disable itself.
ToggleActiveAny(by, a) ==
    /\ by \in Admins /\ a \in Accounts
    /\ account[a].version < MaxVersion
    /\ account' = [account EXCEPT ![a].active = ~@, ![a].version = @ + 1]
    /\ UNCHANGED <<settings, session>>

\* Mutant of ToggleActive: the sessions of the account are not ended.
ToggleActiveOnly(by, a) ==
    /\ by \in Admins /\ a \in Accounts /\ a # by
    /\ account' = [account EXCEPT ![a].active = ~@]
    /\ UNCHANGED <<settings, session>>

\* toggle_active
ToggleActive(by, a) ==
    /\ by \in Admins /\ a \in Accounts /\ a # by
    /\ account[a].version < MaxVersion
    /\ account' = [account EXCEPT ![a].active = ~@, ![a].version = @ + 1]
    /\ UNCHANGED <<settings, session>>

\* toggle_admin
ToggleAdmin(by, a) ==
    /\ by \in Admins /\ a \in Accounts /\ a # by
    /\ account[a].admin => Cardinality(AdminRows) > 1
    /\ account[a].version < MaxVersion
    /\ account' = [account EXCEPT ![a].admin = ~@, ![a].version = @ + 1]
    /\ UNCHANGED <<settings, session>>

\* The cookie of the browser, once account a is gone.
Orphaned(a) ==
    IF session = None THEN None
    ELSE IF session.id = a THEN [session EXCEPT !.orphan = TRUE] ELSE session

\* delete_user
DeleteUser(by, a) ==
    /\ by \in Admins /\ a \in Accounts /\ a # by
    /\ account' = [account EXCEPT ![a] = None]
    /\ session' = Orphaned(a)
    /\ UNCHANGED settings

Next ==
    \/ \E s \in Subjects, a \in AccountIds, m, v \in BOOLEAN : SignUp(s, a, m, v)
    \/ \E a \in AccountIds, m, v \in BOOLEAN : SignIn(a, m, v)
    \/ EndSession
    \/ \E to \in Settings : Configure(to)
    \/ \E by, a \in AccountIds : ToggleActive(by, a)
    \/ \E by, a \in AccountIds : ToggleAdmin(by, a)
    \/ \E by, a \in AccountIds : DeleteUser(by, a)

Spec == Init /\ [][Next]_vars

-----------------------------------------------------------------------------
(* Properties *)

\* No sequence of administrators disabling, demoting and deleting one another,
\* nor a change of the settings, leaves an instance that had one without an
\* administrator that can act; and without ADMIN_EMAIL the first account of an
\* empty instance is one.  An upgraded instance may have none to begin with.
AdminRemains ==
    [][/\ Admins # {} => Admins' # {}
       /\ ~settings.admin_email /\ Accounts = {} /\ Accounts' # {} => Admins' # {}]_vars

\* A session that its account's deactivation or change of rights has ended is
\* ended for good: no later step on the account, nor another one of that kind,
\* lets the forgotten browser in again.  It is said of an account that lives:
\* an orphan, whose account is deleted, is let in by a new account that has
\* the same id and is at the version of the cookie.
RefusedForGood ==
    [][(session # None /\ session' = session) =>
            (session.orphan \/ Accepted(session) \/ ~Accepted(session)')]_vars
=============================================================================
