--------------------------- MODULE AccountsProofs ---------------------------
(***************************************************************************)
(* Proofs about Users.  Whatever the number of accounts, an instance keeps *)
(* an administrator, and a session that was ended stays so; whatever the   *)
(* number of visitors, the purge of a demonstration takes expired spaces   *)
(* only.                                                                   *)
(***************************************************************************)
EXTENDS Users, TLAPS

\* A session is not ahead of its account; level with it, the account is active.
SessionBehind ==
    session # None => (~session.orphan =>
        /\ session.id \in Accounts
        /\ session.version <= account[session.id].version
        /\ session.version = account[session.id].version => account[session.id].active)

IInv == TypeOK /\ SessionBehind

-----------------------------------------------------------------------------

\* The id of a new account is of no account there is.
LEMMA NextIdIsFree ==
    ASSUME NEW a \in AccountIds, IsNextId(a)
    PROVE  a \notin Accounts
  BY DEF IsNextId, Accounts, AccountIds

\* An account that is rewritten without losing what makes it an administrator
\* takes no administrator away.
LEMMA AdminsKept ==
    ASSUME \A b \in Admins : /\ account'[b] # None
                             /\ account'[b].admin /\ account'[b].active
    PROVE  Admins \subseteq Admins'
  BY DEF Admins, Accounts

\* A step of an administrator on another account leaves it an administrator.
LEMMA OtherStaysAdmin ==
    ASSUME TypeOK, NEW by \in Admins, NEW a \in AccountIds, a # by,
           NEW row, account' = [account EXCEPT ![a] = row]
    PROVE  Admins' # {}
<1>1. account'[by] = account[by]
  BY DEF TypeOK, Admins, Accounts
<1>2. by \in Admins'
  BY <1>1 DEF Admins, Accounts
<1> QED
  BY <1>2

-----------------------------------------------------------------------------

\* The initial state: the accounts of an earlier release, and no session.
LEMMA InitIInv == Init => IInv
<1> SUFFICES ASSUME Init PROVE IInv
  OBVIOUS
<1>1. {0} \subseteq 0 .. MaxVersion
  BY AccountsAssumption
<1>2. [sub : Subjects, admin : BOOLEAN, active : BOOLEAN, version : {0}] \subseteq Account
  BY <1>1 DEF Account
<1>3. account \in [AccountIds -> Account \cup {None}]
  BY <1>2 DEF Init, Tables
<1> QED
  BY <1>3 DEF Init, IInv, TypeOK, SessionBehind

\* What a sign-in, and a deletion, leave in the browser.
LEMMA OpenedType ==
    ASSUME TypeOK, NEW a \in AccountIds, Opened(a), account'[a] \in Account
    PROVE  session' \in Session \cup {None}
<1>1. account'[a].version \in 0 .. MaxVersion
  BY DEF Account
<1>2. [id |-> a, version |-> account'[a].version, orphan |-> FALSE] \in Session
  BY <1>1 DEF Session
<1> QED
  BY <1>2 DEF Opened, TypeOK

LEMMA OrphanedType ==
    ASSUME TypeOK, NEW a \in AccountIds
    PROVE  Orphaned(a) \in Session \cup {None}
  BY DEF Orphaned, TypeOK, Session

\* The row that toggle_active, or toggle_admin, leaves of an account.
Disabled(r) == [r EXCEPT !.active = ~@, !.version = @ + 1]
Demoted(r)  == [r EXCEPT !.admin = ~@, !.version = @ + 1]

LEMMA ToggledRow ==
    ASSUME NEW r \in Account, r.version < MaxVersion
    PROVE  /\ Disabled(r) \in Account /\ Disabled(r).version = r.version + 1
           /\ Demoted(r) \in Account /\ Demoted(r).version = r.version + 1
<1>1. r.version + 1 \in 0 .. MaxVersion
  BY AccountsAssumption DEF Account
<1> QED
  BY <1>1 DEF Account, Disabled, Demoted

LEMMA ToggleFacts ==
    ASSUME TypeOK, NEW by \in AccountIds, NEW a \in AccountIds,
           ToggleActive(by, a) \/ ToggleAdmin(by, a)
    PROVE  /\ account[a] \in Account /\ account'[a] \in Account
           /\ account' = [account EXCEPT ![a] = account'[a]]
           /\ account'[a].version = account[a].version + 1
           /\ UNCHANGED <<settings, session>>
<1>1. account[a] \in Account /\ account[a].version < MaxVersion
  BY DEF ToggleActive, ToggleAdmin, Accounts, TypeOK
<1>2. \E r \in {Disabled(account[a]), Demoted(account[a])} : account' = [account EXCEPT ![a] = r]
  BY DEF ToggleActive, ToggleAdmin, Disabled, Demoted, TypeOK
<1>3. UNCHANGED <<settings, session>>
  BY DEF ToggleActive, ToggleAdmin
<1> QED
  BY <1>1, <1>2, <1>3, ToggledRow DEF TypeOK

LEMMA SignUpRow ==
    ASSUME TypeOK, NEW s \in Subjects, NEW a \in AccountIds, NEW m \in BOOLEAN,
           NEW v \in BOOLEAN, SignUp(s, a, m, v)
    PROVE  /\ account'[a] \in Account
           /\ account' = [account EXCEPT ![a] = account'[a]]
           /\ account'[a].active /\ account'[a].version = 0
           /\ account'[a].admin = Promoted(TRUE, m, v)
<1>1. Promoted(TRUE, m, v) \in BOOLEAN
  BY DEF Promoted, TypeOK, Settings
<1>2. 0 \in 0 .. MaxVersion
  BY AccountsAssumption
<1> DEFINE row == [sub |-> s, admin |-> Promoted(TRUE, m, v), active |-> TRUE, version |-> 0]
<1>3. row \in Account
  <2> HIDE AccountsAssumption
  <2> QED
    BY <1>1, <1>2, Zenon DEF Account
<1>4. account' = [account EXCEPT ![a] = row]
  BY DEF SignUp
<1>5. row.active /\ row.version = 0 /\ row.admin = Promoted(TRUE, m, v)
  OBVIOUS
<1> HIDE DEF row
<1> QED
  BY <1>3, <1>4, <1>5 DEF TypeOK

LEMMA SignInRow ==
    ASSUME TypeOK, NEW a \in AccountIds, NEW m \in BOOLEAN, NEW v \in BOOLEAN, SignIn(a, m, v)
    PROVE  /\ account[a] \in Account /\ account'[a] \in Account
           /\ account' = [account EXCEPT ![a] = account'[a]]
           /\ account'[a].active = account[a].active
           /\ account'[a].version = account[a].version
           /\ account[a].admin => account'[a].admin
<1> DEFINE new == [account[a] EXCEPT !.admin = @ \/ Promoted(FALSE, m, v)]
<1>1. account[a] \in Account
  BY DEF SignIn, Accounts, TypeOK
<1>2. account' = [account EXCEPT ![a] = new]
  BY <1>1 DEF SignIn, TypeOK
<1>3. Promoted(FALSE, m, v) \in BOOLEAN
  BY DEF Promoted, TypeOK, Settings
<1>4. new \in Account /\ new.version = account[a].version
  BY <1>1, <1>3 DEF Account
<1>5. new.active = account[a].active /\ (account[a].admin => new.admin)
  BY <1>1, <1>3 DEF Account
<1> HIDE DEF new
<1> QED
  BY <1>1, <1>2, <1>4, <1>5 DEF TypeOK

\* Every step keeps the types.
LEMMA NextType == TypeOK /\ [Next]_vars => TypeOK'
<1> SUFFICES ASSUME TypeOK, [Next]_vars PROVE TypeOK'
  OBVIOUS
<1> USE AccountsAssumption
<1>1. ASSUME NEW s \in Subjects, NEW a \in AccountIds, NEW m \in BOOLEAN, NEW v \in BOOLEAN,
             SignUp(s, a, m, v)
      PROVE  TypeOK'
  <2>1. account' \in [AccountIds -> Account \cup {None}]
    BY ZenonT(60), <1>1, SignUpRow DEF TypeOK
  <2>2. session' \in Session \cup {None}
    BY <1>1, SignUpRow, OpenedType DEF SignUp
  <2> QED
    BY <1>1, <2>1, <2>2 DEF SignUp, TypeOK
<1>2. ASSUME NEW a \in AccountIds, NEW m \in BOOLEAN, NEW v \in BOOLEAN, SignIn(a, m, v)
      PROVE  TypeOK'
  <2>1. account' \in [AccountIds -> Account \cup {None}]
    BY <1>2, SignInRow DEF TypeOK
  <2>2. session' \in Session \cup {None}
    BY ZenonT(60), <1>2, SignInRow, OpenedType DEF SignIn, TypeOK
  <2> QED
    BY <1>2, <2>1, <2>2 DEF SignIn, TypeOK
<1>3. CASE EndSession
  BY <1>3 DEF EndSession, TypeOK
<1>4. ASSUME NEW to \in Settings, Configure(to)
      PROVE  TypeOK'
  BY <1>4 DEF Configure, TypeOK
<1>5. ASSUME NEW by \in AccountIds, NEW a \in AccountIds,
             ToggleActive(by, a) \/ ToggleAdmin(by, a)
      PROVE  TypeOK'
  BY <1>5, ToggleFacts DEF TypeOK
<1>6. ASSUME NEW by \in AccountIds, NEW a \in AccountIds, DeleteUser(by, a)
      PROVE  TypeOK'
  BY <1>6, OrphanedType DEF DeleteUser, TypeOK
<1>7. CASE UNCHANGED vars
  BY <1>7 DEF vars, TypeOK
<1> QED
  BY <1>1, <1>2, <1>3, <1>4, <1>5, <1>6, <1>7 DEF Next

\* The accounts after each kind of step, and the administrators.
LEMMA SignUpFacts ==
    ASSUME TypeOK, NEW s \in Subjects, NEW a \in AccountIds, NEW m \in BOOLEAN,
           NEW v \in BOOLEAN, SignUp(s, a, m, v)
    PROVE  /\ Accounts' = Accounts \cup {a}
           /\ Admins \subseteq Admins'
           /\ (~settings.admin_email /\ Accounts = {}) => a \in Admins'
<1>1. a \notin Accounts
  BY NextIdIsFree DEF SignUp
<1>2. account' = [account EXCEPT ![a] = account'[a]] /\ account'[a] # None
  BY SignUpRow, AccountsAssumption
<1>3. Accounts' = Accounts \cup {a}
  BY <1>2 DEF Accounts, TypeOK
<1>4. Admins \subseteq Admins'
  BY <1>1, <1>2, AdminsKept DEF Admins, Accounts, TypeOK
<1>5. ASSUME ~settings.admin_email, Accounts = {}
      PROVE  a \in Admins'
  <2>1. Promoted(TRUE, m, v)
    BY <1>5 DEF Promoted
  <2> QED
    BY <1>3, <2>1, SignUpRow DEF Admins
<1> QED
  BY <1>3, <1>4, <1>5

\* A sign-in of a known subject changes no account but its own, and takes no
\* right from it.
LEMMA SignInFacts ==
    ASSUME TypeOK, NEW a \in AccountIds, NEW m \in BOOLEAN, NEW v \in BOOLEAN, SignIn(a, m, v)
    PROVE  Accounts' = Accounts /\ Admins \subseteq Admins'
<1>1. Accounts' = Accounts
  BY ZenonT(60), SignInRow, AccountsAssumption DEF SignIn, Accounts, TypeOK
<1>2. Admins \subseteq Admins'
  BY <1>1, SignInRow, AdminsKept, AccountsAssumption DEF Admins, Accounts, TypeOK
<1> QED
  BY <1>1, <1>2

\* A request of an administrator creates no account, and leaves the account
\* that made it an administrator.
LEMMA AdministrationFacts ==
    ASSUME TypeOK, NEW by \in AccountIds, NEW a \in AccountIds,
           ToggleActive(by, a) \/ ToggleAdmin(by, a) \/ DeleteUser(by, a)
    PROVE  Accounts' \subseteq Accounts /\ Admins' # {}
<1> DEFINE row == account'[a]
<1>1. by \in Admins /\ a \in Accounts /\ a # by
  BY DEF ToggleActive, ToggleAdmin, DeleteUser
<1>2. account' = [account EXCEPT ![a] = row]
  BY DEF ToggleActive, ToggleAdmin, DeleteUser, TypeOK
<1>3. Accounts' \subseteq Accounts
  BY <1>1, <1>2 DEF Accounts, TypeOK
<1>4. Admins' # {}
  BY <1>1, <1>2, OtherStaysAdmin
<1> QED
  BY <1>3, <1>4

-----------------------------------------------------------------------------

\* What AdminRemains says of a step.
AdminStep ==
    /\ Admins # {} => Admins' # {}
    /\ ~settings.admin_email /\ Accounts = {} /\ Accounts' # {} => Admins' # {}

\* A step keeps an administrator, and makes one of the first account.
LEMMA NextKeepsAdmins ==
    ASSUME IInv, [Next]_vars
    PROVE  AdminStep
<1>1. ASSUME NEW s \in Subjects, NEW a \in AccountIds, NEW m \in BOOLEAN, NEW v \in BOOLEAN,
             SignUp(s, a, m, v)
      PROVE  AdminStep
  BY <1>1, SignUpFacts DEF AdminStep, IInv
<1>2. ASSUME NEW a \in AccountIds, NEW m \in BOOLEAN, NEW v \in BOOLEAN, SignIn(a, m, v)
      PROVE  AdminStep
  BY <1>2, SignInFacts DEF AdminStep, IInv
<1>3. CASE UNCHANGED account
  BY <1>3 DEF AdminStep, Accounts, Admins
<1>4. ASSUME NEW by \in AccountIds, NEW a \in AccountIds,
             ToggleActive(by, a) \/ ToggleAdmin(by, a) \/ DeleteUser(by, a)
      PROVE  AdminStep
  BY <1>4, AdministrationFacts DEF AdminStep, IInv
<1> QED
  BY <1>1, <1>2, <1>3, <1>4 DEF Next, vars, Configure, EndSession

-----------------------------------------------------------------------------
(* The session *)

\* A session just opened is level with its account, which is active.
LEMMA OpenedBehind ==
    ASSUME TypeOK, NEW a \in AccountIds, Opened(a), SessionBehind,
           account'[a] \in Account, account'[a].active,
           \A b \in Accounts : account'[b] # None
                               /\ account'[b].version = account[b].version
                               /\ (account[b].active => account'[b].active)
    PROVE  SessionBehind'
<1>1. account'[a].version \in Nat
  BY AccountsAssumption DEF Account
<1>2. CASE session' = session
  BY <1>2 DEF SessionBehind, Accounts
<1>3. CASE session' = [id |-> a, version |-> account'[a].version, orphan |-> FALSE]
  BY <1>1, <1>3, AccountsAssumption DEF SessionBehind, Accounts
<1> QED
  BY <1>2, <1>3 DEF Opened

\* A step keeps the session behind its account.
LEMMA NextKeepsSession ==
    ASSUME IInv, [Next]_vars
    PROVE  SessionBehind'
<1> USE DEF IInv
<1>0. session # None => session \in Session
  BY DEF TypeOK
<1>1. ASSUME NEW s \in Subjects, NEW a \in AccountIds, NEW m \in BOOLEAN, NEW v \in BOOLEAN,
             SignUp(s, a, m, v)
      PROVE  SessionBehind'
  <2>1. a \notin Accounts
    BY <1>1, NextIdIsFree DEF SignUp
  <2>2. \A b \in Accounts : account'[b] = account[b] /\ account[b] # None
    <3>1. account' = [account EXCEPT ![a] = account'[a]]
      BY <1>1, SignUpRow
    <3> QED
      BY <2>1, <3>1 DEF Accounts, TypeOK
  <2>3. account'[a] \in Account /\ account'[a].active /\ Opened(a)
    BY <1>1, SignUpRow DEF SignUp
  <2> QED
    BY <2>2, <2>3, OpenedBehind
<1>2. ASSUME NEW a \in AccountIds, NEW m \in BOOLEAN, NEW v \in BOOLEAN, SignIn(a, m, v)
      PROVE  SessionBehind'
  <2>1. \A b \in Accounts : /\ account'[b] # None
                            /\ account'[b].version = account[b].version
                            /\ (account[b].active => account'[b].active)
    BY <1>2, SignInRow, AccountsAssumption DEF Accounts, TypeOK
  <2>2. CASE account[a].active
    BY <1>2, <2>1, <2>2, SignInRow, OpenedBehind DEF SignIn
  <2>3. CASE ~account[a].active
    BY <1>2, <2>1, <2>3 DEF SignIn, SessionBehind, Accounts
  <2> QED
    BY <2>2, <2>3
<1>3. ASSUME NEW by \in AccountIds, NEW a \in AccountIds,
             ToggleActive(by, a) \/ ToggleAdmin(by, a)
      PROVE  SessionBehind'
  <2>1. account'[a] # None /\ account[a].version \in Nat
    BY <1>3, ToggleFacts, AccountsAssumption DEF Account
  <2>2. \A b \in AccountIds : b # a => account'[b] = account[b]
    BY <1>3, ToggleFacts DEF TypeOK
  <2>3. session' = session /\ account'[a].version = account[a].version + 1
    BY <1>3, ToggleFacts
  <2>4. session # None => session.version \in Nat
    BY <1>0, AccountsAssumption DEF Session
  <2> QED
    BY <2>1, <2>2, <2>3, <2>4 DEF SessionBehind, Accounts
<1>4. ASSUME NEW by \in AccountIds, NEW a \in AccountIds, DeleteUser(by, a)
      PROVE  SessionBehind'
  <2>1. account' = [account EXCEPT ![a] = None] /\ session' = Orphaned(a)
    BY <1>4 DEF DeleteUser
  <2>2. \A b \in AccountIds : b # a => account'[b] = account[b]
    BY <2>1 DEF TypeOK
  <2>3. CASE session = None
    BY <2>1, <2>3 DEF Orphaned, SessionBehind
  <2>4. CASE session # None /\ session.id # a
    BY <1>0, <2>1, <2>2, <2>4 DEF Orphaned, SessionBehind, Accounts, Session
  <2>5. CASE session # None /\ session.id = a
    <3>1. [session EXCEPT !.orphan = TRUE].orphan = TRUE
      BY <1>0, <2>5 DEF Session
    <3> QED
      BY <2>1, <2>5, <3>1 DEF Orphaned, SessionBehind
  <2> QED
    BY <2>3, <2>4, <2>5
<1>5. CASE EndSession
  BY <1>5 DEF EndSession, SessionBehind
<1>6. CASE (\E to \in Settings : Configure(to)) \/ UNCHANGED vars
  BY <1>6 DEF Configure, vars, SessionBehind, Accounts
<1> QED
  BY <1>1, <1>2, <1>3, <1>4, <1>5, <1>6 DEF Next

\* What RefusedForGood says of a step.
RefusalStep ==
    (session # None /\ session' = session) =>
        (session.orphan \/ Accepted(session) \/ ~Accepted(session)')

\* The version of an account that stays never goes down.
LEMMA VersionsGrow ==
    ASSUME IInv, [Next]_vars, NEW b \in Accounts, b \in Accounts'
    PROVE  account'[b].version >= account[b].version
<1> USE DEF IInv
<1>1. \A c \in Accounts : account[c] \in Account /\ account[c].version \in Nat
  BY AccountsAssumption DEF Accounts, TypeOK, Account
<1>2. ASSUME NEW s \in Subjects, NEW a \in AccountIds, NEW m \in BOOLEAN, NEW v \in BOOLEAN,
             SignUp(s, a, m, v)
      PROVE  account'[b].version >= account[b].version
  <2>1. a \notin Accounts
    BY <1>2, NextIdIsFree DEF SignUp
  <2>2. account' = [account EXCEPT ![a] = account'[a]]
    BY <1>2, SignUpRow
  <2>3. account'[b] = account[b]
    BY <2>1, <2>2 DEF Accounts, TypeOK
  <2> QED
    BY <1>1, <2>3
<1>3. ASSUME NEW a \in AccountIds, NEW m \in BOOLEAN, NEW v \in BOOLEAN, SignIn(a, m, v)
      PROVE  account'[b].version >= account[b].version
  <2>1. account'[b].version = account[b].version
    BY <1>3, SignInRow DEF Accounts, TypeOK
  <2> QED
    BY <1>1, <2>1
<1>4. ASSUME NEW by \in AccountIds, NEW a \in AccountIds,
             ToggleActive(by, a) \/ ToggleAdmin(by, a)
      PROVE  account'[b].version >= account[b].version
  <2>1. account'[b].version \in {account[b].version, account[b].version + 1}
    BY <1>4, ToggleFacts DEF Accounts, TypeOK
  <2> QED
    BY <1>1, <2>1
<1>5. ASSUME NEW by \in AccountIds, NEW a \in AccountIds, DeleteUser(by, a)
      PROVE  account'[b].version >= account[b].version
  <2>1. account'[b] = account[b]
    BY <1>5 DEF DeleteUser, Accounts, TypeOK
  <2> QED
    BY <1>1, <2>1
<1>6. CASE UNCHANGED account
  BY <1>1, <1>6
<1> QED
  BY <1>2, <1>3, <1>4, <1>5, <1>6 DEF Next, EndSession, Configure, vars

LEMMA NextKeepsRefusal ==
    ASSUME IInv, [Next]_vars
    PROVE  RefusalStep
<1> SUFFICES ASSUME session # None, session' = session, ~session.orphan,
                    ~Accepted(session), Accepted(session)'
             PROVE  FALSE
  BY DEF RefusalStep
<1>1. session \in Session /\ session.version \in Nat
  BY AccountsAssumption DEF IInv, TypeOK, Session
<1>2. session.id \in Accounts /\ session.id \in Accounts'
  BY DEF IInv, SessionBehind, Accepted
<1>3. account[session.id].version \in Nat
  BY <1>2, AccountsAssumption DEF IInv, TypeOK, Accounts, Account
<1>4. session.version < account[session.id].version
  BY <1>1, <1>2, <1>3 DEF IInv, SessionBehind, Accepted
<1>5. account'[session.id].version >= account[session.id].version
  BY <1>2, VersionsGrow
<1>6. account'[session.id].version = session.version
  BY DEF Accepted
<1> QED
  BY <1>1, <1>3, <1>4, <1>5, <1>6

-----------------------------------------------------------------------------

\* The inductive invariant of the accounts.
THEOREM Invariance == Spec => []IInv
<1>1. IInv /\ [Next]_vars => IInv'
  BY NextType, NextKeepsSession DEF IInv
<1> QED
  BY <1>1, InitIInv, PTL DEF Spec

\* Types: settings, accounts and session are what they are declared to be.
THEOREM TypesHold == Spec => []TypeOK
<1>1. IInv => TypeOK
  BY DEF IInv
<1> QED
  BY <1>1, Invariance, PTL

\* get_current_user: whatever the administrators do afterwards, a session ended
\* by a change of its account is not accepted again while that account lives.
THEOREM RefusalsLast == Spec => RefusedForGood
<1>1. IInv /\ [Next]_vars => [RefusalStep]_vars
  BY NextKeepsRefusal
<1> QED
  BY <1>1, Invariance, PTL DEF Spec, RefusedForGood, RefusalStep

\* toggle_active, toggle_admin and delete_user refuse to act on the account
\* that asks: any number of administrators acting on one another leave one,
\* whatever the accounts the instance started on and its settings become.
THEOREM AdminAlwaysRemains == Spec => AdminRemains
<1>1. IInv /\ [Next]_vars => [AdminStep]_vars
  BY NextKeepsAdmins
<1> QED
  BY <1>1, Invariance, PTL DEF Spec, AdminRemains, AdminStep

-----------------------------------------------------------------------------
(* The spaces of a demonstration *)

\* A space that has expired stays so until it goes, and only a purge makes one
\* go: the list that a purge read long before its first write is still right.
ListStillRight == purge # None => purge.spaces \subseteq Demo!Expired

DemoInv == Demo!TypeOK /\ ListStillRight

\* A space that a visitor, or time, changes is a space, and as old as it was.
LEMMA SpaceChanged ==
    ASSUME DemoInv, NEW s \in Demo!Spaces, NEW row \in Demo!Space,
           space[s].expired => row.expired,
           space' = [space EXCEPT ![s] = row], UNCHANGED purge
    PROVE  /\ DemoInv'
           /\ \A o \in Demo!Spaces : space'[o] # None
<1>1. row # None
  BY DemoAssumption DEF Demo!DemoConstants
<1>2. s \in Demo!SpaceIds
  BY DEF Demo!Spaces
<1>3. Demo!TypeOK'
  BY <1>2 DEF DemoInv, Demo!TypeOK
<1>4. \A o \in Demo!Spaces : space'[o] # None
  BY <1>1, <1>2 DEF DemoInv, Demo!TypeOK, Demo!Spaces
<1>5. Demo!Expired \subseteq Demo!Expired'
  BY <1>2, <1>4 DEF DemoInv, Demo!TypeOK, Demo!Expired, Demo!Spaces
<1>6. ListStillRight'
  BY <1>5 DEF DemoInv, ListStillRight
<1> QED
  BY <1>3, <1>4, <1>6 DEF DemoInv

\* What a visitor or the clock may do to a space.
LEMMA VisitorsKeep ==
    ASSUME DemoInv, Demo!VisitorStep \/ \E s \in Demo!SpaceIds : Demo!Expire(s)
    PROVE  /\ DemoInv'
           /\ \A o \in Demo!Spaces : space'[o] # None
<1> DEFINE Kept == DemoInv' /\ \A o \in Demo!Spaces : space'[o] # None
<1>0. \A s \in Demo!Spaces : s \in Demo!SpaceIds /\ space[s] \in Demo!Space
  BY DEF DemoInv, Demo!TypeOK, Demo!Spaces
<1>1. ASSUME NEW s \in Demo!SpaceIds, Demo!StartSpace(s)
      PROVE  Kept
  <2> DEFINE row == [expired |-> FALSE, links |-> Seeds, tagged |-> Seeds]
  <2>0. Seeds \subseteq Links /\ None \notin Demo!Space
    BY DemoAssumption DEF Demo!DemoConstants
  <2>1. row \in Demo!Space /\ row # None
    <3>1. row \in Demo!Space
      BY <2>0 DEF Demo!Space
    <3> QED
      BY <2>0, <3>1
  <2>2. s \notin Demo!Spaces
    BY <1>1 DEF Demo!IsNextId, Demo!StartSpace, Demo!Spaces, Demo!SpaceIds
  <2> HIDE DEF row
  <2>3. space' = [space EXCEPT ![s] = row] /\ purge' = purge
    BY <1>1 DEF Demo!StartSpace, row
  <2>4. Demo!TypeOK'
    BY <2>1, <2>3 DEF DemoInv, Demo!TypeOK
  <2>5. \A o \in Demo!Spaces : o # s /\ space'[o] = space[o] /\ space'[o] # None
    BY <1>1, <2>2, <2>3 DEF DemoInv, Demo!TypeOK, Demo!Spaces
  <2>6. Demo!Expired \subseteq Demo!Expired'
    BY <2>5 DEF Demo!Expired, Demo!Spaces
  <2> QED
    BY <2>3, <2>4, <2>5, <2>6 DEF DemoInv, ListStillRight
<1>2. ASSUME NEW s \in Demo!Spaces, NEW l \in Links, NEW tags \in BOOLEAN,
             Demo!WithLink(s, l, tags)
      PROVE  Kept
  <2> DEFINE row == [space[s] EXCEPT !.links = @ \cup {l},
                                     !.tagged = IF tags THEN @ \cup {l} ELSE @]
  <2>1. row \in Demo!Space /\ row.expired = space[s].expired
    BY <1>0 DEF Demo!Space
  <2>2. space' = [space EXCEPT ![s] = row] /\ UNCHANGED purge
    BY <1>0, <1>2 DEF Demo!WithLink, DemoInv, Demo!TypeOK
  <2> HIDE DEF row
  <2> QED
    BY <2>1, <2>2, SpaceChanged
<1>3. ASSUME NEW s \in Demo!SpaceIds, NEW l \in Links, NEW tags \in BOOLEAN,
             Demo!TagLink(s, l, tags)
      PROVE  Kept
  <2> DEFINE row == [space[s] EXCEPT !.tagged = IF tags THEN @ \cup {l} ELSE @ \ {l}]
  <2>0. s \in Demo!Spaces
    BY <1>3 DEF Demo!TagLink
  <2>1. row \in Demo!Space /\ row.expired = space[s].expired
    BY <1>0, <2>0 DEF Demo!Space
  <2>2. space' = [space EXCEPT ![s] = row] /\ UNCHANGED purge
    BY <1>0, <1>3 DEF Demo!TagLink, DemoInv, Demo!TypeOK
  <2> HIDE DEF row
  <2> QED
    BY <2>0, <2>1, <2>2, SpaceChanged
<1>4. ASSUME NEW s \in Demo!SpaceIds, NEW l \in Links, Demo!DeleteLink(s, l)
      PROVE  Kept
  <2> DEFINE row == [space[s] EXCEPT !.links = @ \ {l}, !.tagged = @ \ {l}]
  <2>0. s \in Demo!Spaces
    BY <1>4 DEF Demo!DeleteLink
  <2>1. row \in Demo!Space /\ row.expired = space[s].expired
    BY <1>0, <2>0 DEF Demo!Space
  <2>2. space' = [space EXCEPT ![s] = row] /\ UNCHANGED purge
    BY <1>0, <1>4 DEF Demo!DeleteLink, DemoInv, Demo!TypeOK
  <2> HIDE DEF row
  <2> QED
    BY <2>0, <2>1, <2>2, SpaceChanged
<1>5. ASSUME NEW s \in Demo!SpaceIds, Demo!Expire(s)
      PROVE  Kept
  <2> DEFINE row == [space[s] EXCEPT !.expired = TRUE]
  <2>0. s \in Demo!Spaces
    BY <1>5 DEF Demo!Expire
  <2>1. row \in Demo!Space /\ row.expired
    BY <1>0, <2>0 DEF Demo!Space
  <2>2. space' = [space EXCEPT ![s] = row] /\ UNCHANGED purge
    BY <1>0, <1>5 DEF Demo!Expire, DemoInv, Demo!TypeOK
  <2> HIDE DEF row
  <2> QED
    BY <2>0, <2>1, <2>2, SpaceChanged
<1> HIDE DEF Kept
<1>6. ASSUME NEW s \in Demo!SpaceIds, NEW l \in Links, NEW tags \in BOOLEAN,
             Demo!AddLink(s, l, tags)
      PROVE  Kept
  BY <1>2, <1>6 DEF Demo!AddLink
<1>7. ASSUME NEW s \in Demo!SpaceIds, NEW l \in Links, Demo!AddCatalogLink(s, l)
      PROVE  Kept
  BY <1>2, <1>7 DEF Demo!AddCatalogLink
<1>8. Kept
  BY <1>1, <1>3, <1>4, <1>5, <1>6, <1>7 DEF Demo!VisitorStep
<1> QED
  BY <1>8 DEF Kept

\* The steps of a purge: it reads, and gives up or deletes what it listed.
LEMMA PurgeSteps ==
    ASSUME DemoInv,
           Demo!ReadExpired \/ Demo!ReadLinks \/ Demo!Delete \/ Demo!PurgeRefused
               \/ Demo!PurgeKilled
    PROVE  /\ DemoInv'
           /\ \A s \in Demo!Spaces : space'[s] = None => space[s].expired
<1> DEFINE Kept == DemoInv' /\ \A s \in Demo!Spaces : space'[s] = None => space[s].expired
<1>1. CASE Demo!ReadExpired
  <2>1. Demo!Expired \subseteq Demo!SpaceIds
    BY DEF Demo!Expired, Demo!Spaces
  <2>2. [spaces |-> Demo!Expired, first |-> None, links |-> {}, tagged |-> {}] \in Demo!Purge
    BY <2>1 DEF Demo!Purge
  <2>3. Demo!TypeOK' /\ space' = space
    BY <1>1, <2>2 DEF Demo!ReadExpired, DemoInv, Demo!TypeOK
  <2>4. ListStillRight'
    BY <1>1 DEF Demo!ReadExpired, ListStillRight, Demo!Expired, Demo!Spaces
  <2> QED
    BY <2>3, <2>4 DEF DemoInv, Demo!Spaces
<1>2. CASE Demo!ReadLinks
  <2>0. purge # None /\ purge \in Demo!Purge
    BY <1>2 DEF Demo!ReadLinks, DemoInv, Demo!TypeOK
  <2>1. PICK s \in purge.spaces :
            purge' = [purge EXCEPT !.first = s, !.links = space[s].links,
                                   !.tagged = space[s].tagged]
    BY <1>2 DEF Demo!ReadLinks
  <2>2. s \in Demo!SpaceIds /\ space[s] \in Demo!Space
    BY <2>0 DEF DemoInv, ListStillRight, Demo!Expired, Demo!Spaces, Demo!TypeOK
  <2>3. purge' \in Demo!Purge /\ purge'.spaces = purge.spaces
    BY <2>0, <2>1, <2>2 DEF Demo!Purge, Demo!Space
  <2>4. space' = space
    BY <1>2 DEF Demo!ReadLinks
  <2> QED
    BY <2>0, <2>3, <2>4 DEF DemoInv, Demo!TypeOK, ListStillRight, Demo!Expired, Demo!Spaces
<1>3. CASE Demo!Delete
  <2>1. purge' = None /\ Demo!TypeOK'
    BY <1>3 DEF Demo!Delete, DemoInv, Demo!TypeOK
  <2>2. ASSUME NEW s \in Demo!Spaces, space'[s] = None
        PROVE  space[s].expired
    BY <1>3, <2>2 DEF Demo!Delete, DemoInv, ListStillRight, Demo!Expired, Demo!Spaces
  <2> QED
    BY <2>1, <2>2 DEF DemoInv, ListStillRight
<1>4. CASE Demo!PurgeRefused \/ Demo!PurgeKilled
  BY <1>4 DEF Demo!PurgeRefused, Demo!PurgeKilled, DemoInv, Demo!TypeOK, ListStillRight,
              Demo!Spaces
<1> QED
  BY <1>1, <1>2, <1>3, <1>4

\* No step of a demonstration takes a space before its time.
LEMMA DemoStep ==
    DemoInv /\ [Demo!Next]_Demo!vars =>
        /\ DemoInv'
        /\ [\A s \in Demo!Spaces : space'[s] = None => space[s].expired]_Demo!vars
<1>1. ASSUME DemoInv, UNCHANGED Demo!vars
      PROVE  DemoInv'
  BY <1>1 DEF Demo!vars, DemoInv, Demo!TypeOK, ListStillRight, Demo!Expired, Demo!Spaces
<1> QED
  BY <1>1, VisitorsKeep, PurgeSteps DEF Demo!Next

\* The inductive invariant of a demonstration: its types, and the list of a
\* purge under way names expired spaces for as long as the purge lasts.
THEOREM DemoInvariance == Demo!Spec => []DemoInv
<1>1. Demo!Init => DemoInv
  BY DEF Demo!Init, DemoInv, Demo!TypeOK, ListStillRight
<1> QED
  BY <1>1, DemoStep, PTL DEF Demo!Spec

\* purge_expired_demo_users reads its list, then the links of one space, then
\* deletes, in a process of its own, while visitors start spaces, add, tag and
\* delete: it only ever takes spaces past their time, whatever the number of
\* spaces and of links, and however long it waits.
THEOREM PurgesTakeTheExpired == Demo!Spec => OnlyExpiredGo
<1> DEFINE A == \A s \in Demo!Spaces : space'[s] = None => space[s].expired
<1>1. DemoInv /\ [Demo!Next]_Demo!vars => [A]_Demo!vars
  BY DemoStep
<1>2. Demo!Spec => [][A]_Demo!vars
  <2> HIDE DEF A
  <2> QED
    BY <1>1, DemoInvariance, PTL DEF Demo!Spec
<1> QED
  BY <1>2 DEF OnlyExpiredGo, Demo!OnlyExpiredGo
=============================================================================
