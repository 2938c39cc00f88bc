------------------------- MODULE FreshRSSSyncProofs -------------------------
(***************************************************************************)
(* What FreshRSSSync guarantees for every set of links, articles, folders  *)
(* and callers.  The inductive invariant IInv adds to the type invariant   *)
(* that the lock and the program counters agree, that a started pass       *)
(* carries a folder name it can create, and that the count in the session  *)
(* of the pass holding the lock is never behind the one in the database.   *)
(***************************************************************************)
EXTENDS FreshRSSSync, FiniteSetTheorems, TLAPS

LockAgrees == \A p \in Passes : Holding(p) <=> lock = p

PassHasName == \A p \in Passes : pass[p].pc # "idle" => pass[p].cfg.group \in Names

CountNotBehind == \A p \in Passes : Holding(p) => pass[p].cfg.count >= config.count

IInv == /\ TypeOK
        /\ LockAgrees
        /\ PassHasName
        /\ NoDanglingFolder
        /\ CountNotBehind

-----------------------------------------------------------------------------
(* The operators *)

\* The saturating count stays in its range and never falls below the base.
LEMMA CountedType ==
    ASSUME NEW c \in Config, NEW base \in 0 .. CountCap, NEW n \in Nat
    PROVE  /\ Counted(c, base, n) \in Config
           /\ Counted(c, base, n).folder = c.folder
           /\ Counted(c, base, n).group = c.group
           /\ n = 0 => Counted(c, base, n) = c
           /\ n # 0 => \/ Counted(c, base, n).count = CountCap
                       \/ Counted(c, base, n).count = base + n
    BY ConstantsAssumption DEF Counted, Config

\* The number of links a pass inserts is a natural number.
LEMMA UrlsCardinality ==
    ASSUME NEW S \in SUBSET Urls
    PROVE  IsFiniteSet(S) /\ Cardinality(S) \in Nat
    BY ConstantsAssumption, FS_Subset, FS_CardinalityType

\* The folder lookup returns folders that exist.
LEMMA FolderOfExists ==
    ASSUME NEW c \in Config
    PROVE  FolderOf(c) \subseteq Existing /\ Existing \subseteq FolderIds
    BY DEF FolderOf, Existing

LEMMA TrackedChoicesType ==
    ASSUME TypeOK
    PROVE  TrackedChoices \subseteq Places
    BY FolderOfExists DEF TrackedChoices, Places, TypeOK

LEMMA TargetsType ==
    ASSUME NEW c \in Config
    PROVE  Targets(c) \subseteq FolderIds
    BY FolderOfExists DEF Targets

LEMMA EmptiedType ==
    ASSUME TypeOK, NEW f \in FolderIds, NEW drop \in BOOLEAN
    PROVE  /\ Emptied(f, drop) \in [Urls -> Link \cup {None}]
           /\ \A u \in Urls : Emptied(f, drop)[u] # None =>
                 /\ links[u] # None
                 /\ Emptied(f, drop)[u].folder # f
                 /\ Emptied(f, drop)[u].folder \in {links[u].folder, None}
    BY ConstantsAssumption DEF TypeOK, Emptied, Link

LEMMA BackfilledType ==
    ASSUME TypeOK, NEW p \in Passes, NEW g \in ItemChoices(p), NEW f \in FolderIds,
           NEW known \in SUBSET (StarredUrls(p) \cap Present)
    PROVE  /\ Backfilled(f, known, g) \in [Urls -> Link \cup {None}]
           /\ \A u \in Urls : links[u] = None => Backfilled(f, known, g)[u] = None
           /\ \A u \in Urls : links[u] # None =>
                 /\ Backfilled(f, known, g)[u] # None
                 /\ Backfilled(f, known, g)[u].folder = links[u].folder
                 /\ links[u].item # None =>
                       Backfilled(f, known, g)[u].item = links[u].item
    BY ConstantsAssumption DEF TypeOK, Backfilled, ItemChoices, Link, Pass, Present

LEMMA ImportedType ==
    ASSUME TypeOK, NEW p \in Passes, NEW g \in ItemChoices(p), NEW f \in FolderIds,
           NEW new \in SUBSET StarredUrls(p), new \subseteq Urls,
           NEW tbl \in [Urls -> Link \cup {None}]
    PROVE  /\ Imported(tbl, new, f, g) \in [Urls -> Link \cup {None}]
           /\ \A u \in new : /\ Imported(tbl, new, f, g)[u] # None
                             /\ Imported(tbl, new, f, g)[u].folder = f
           /\ \A u \in Urls \ new : Imported(tbl, new, f, g)[u] = tbl[u]
    BY ConstantsAssumption DEF TypeOK, Imported, ItemChoices, Link, Pass

LEMMA StarredUrlsType ==
    ASSUME TypeOK, NEW p \in Passes
    PROVE  StarredUrls(p) \subseteq Urls
    BY ConstantsAssumption DEF TypeOK, StarredUrls, Pass

-----------------------------------------------------------------------------
(* The inductive invariant *)

\* The pass-independent half of IInv holds initially and so does the rest.
LEMMA InitIInv == Init => IInv
<1> SUFFICES ASSUME Init PROVE IInv
    OBVIOUS
<1> USE ConstantsAssumption
<1>1. IdlePass \in Pass /\ NoConfig \in Config /\ config \in Config
    BY DEF Init, IdlePass, NoConfig, Pass, Config
<1>2. TypeOK
    BY <1>1 DEF Init, TypeOK
<1>3. LockAgrees /\ PassHasName /\ CountNotBehind
    BY DEF Init, LockAgrees, PassHasName, CountNotBehind, Holding, IdlePass
<1>4. NoDanglingFolder
    BY DEF Init, NoDanglingFolder, Places, Present
<1>5. QED
    BY <1>2, <1>3, <1>4 DEF IInv

\* A pass that ends leaves the lock free and the other passes as they were.
LEMMA ReleaseInv ==
    ASSUME IInv, NEW p \in Passes, Holding(p), Release(p)
    PROVE  /\ lock' \in Passes \cup {None}
           /\ pass' \in [Passes -> Pass]
           /\ LockAgrees'
           /\ PassHasName'
           /\ \A q \in Passes : ~Holding(q)'
<1> USE ConstantsAssumption
<1>1. IdlePass \in Pass
    BY DEF IdlePass, NoConfig, Pass, Config
<1>2. pass' \in [Passes -> Pass]
    BY <1>1 DEF IInv, TypeOK, Release
<1>3. \A q \in Passes : q # p => pass'[q] = pass[q] /\ ~Holding(q)
    BY DEF IInv, TypeOK, LockAgrees, Release
<1>4. pass'[p] = IdlePass
    BY DEF IInv, TypeOK, Release
<1>5. \A q \in Passes : ~Holding(q)'
    BY <1>3, <1>4 DEF Holding, IdlePass
<1>6. LockAgrees'
    BY <1>5 DEF LockAgrees, Release
<1>7. PassHasName'
    BY <1>3, <1>4 DEF PassHasName, IInv, IdlePass
<1>8. QED
    BY <1>2, <1>5, <1>6, <1>7 DEF Release

\* A request changes neither the passes nor the lock, and never raises the
\* count: the type of the tables and the references between them are left.
LEMMA UserStepInv ==
    ASSUME IInv, UNCHANGED <<lock, pass>>,
           links' \in [Urls -> Link \cup {None}],
           folders' \in [FolderIds -> Names \cup {None}],
           config' \in Config, config'.group \in Names,
           config'.count <= config.count,
           starred' \subseteq Items, unstars' \subseteq Items,
           NoDanglingFolder'
    PROVE  IInv'
<1>1. TypeOK'
    BY DEF IInv, TypeOK
<1>2. LockAgrees' /\ PassHasName'
    BY DEF IInv, LockAgrees, PassHasName, Holding
<1>3. CountNotBehind'
    <2> SUFFICES ASSUME NEW p \in Passes, Holding(p)
                 PROVE  pass[p].cfg.count >= config'.count
        BY DEF CountNotBehind, Holding
    <2>1. /\ pass[p].cfg.count \in Nat /\ config.count \in Nat /\ config'.count \in Nat
          /\ pass[p].cfg.count >= config.count
        BY ConstantsAssumption DEF IInv, TypeOK, CountNotBehind, Pass, Config
    <2>2. QED
        BY <2>1
<1>4. QED
    BY <1>1, <1>2, <1>3 DEF IInv

\* A step of one pass that writes no table, keeps the lock, and leaves the
\* pass in a state of its own type.
LEMMA QuietPassInv ==
    ASSUME IInv, NEW p \in Passes, Holding(p), Holding(p)',
           UNCHANGED <<links, folders, config, unstars, lock>>,
           starred' \subseteq Items,
           \E s \in Pass : /\ pass' = [pass EXCEPT ![p] = s]
                           /\ s.cfg = pass[p].cfg
    PROVE  IInv'
<1>0. PICK s \in Pass : pass' = [pass EXCEPT ![p] = s] /\ s.cfg = pass[p].cfg
    OBVIOUS
<1>1. TypeOK'
    BY <1>0 DEF IInv, TypeOK
<1>2. \A q \in Passes : /\ q # p => pass'[q] = pass[q]
                        /\ pass'[q].cfg = pass[q].cfg
                        /\ Holding(q)' <=> Holding(q)
    BY <1>0 DEF IInv, TypeOK, Holding
<1>3. LockAgrees'
    BY <1>2 DEF IInv, LockAgrees
<1>4. PassHasName'
    BY <1>2, <1>0 DEF IInv, PassHasName, Holding
<1>5. CountNotBehind'
    BY <1>2 DEF IInv, CountNotBehind
<1>6. NoDanglingFolder'
    BY DEF IInv, NoDanglingFolder, Places, Existing, Present
<1>7. QED
    BY <1>1, <1>3, <1>4, <1>5, <1>6 DEF IInv

-----------------------------------------------------------------------------
(* The requests of the user preserve the inductive invariant *)

\* The facts every request step starts from.
LEMMA TypeFacts ==
    ASSUME IInv
    PROVE  /\ config \in Config /\ config.count \in Nat
           /\ config.folder \in FolderIds \cup {None}
           /\ TrackedChoices \subseteq Places
           /\ Existing \subseteq FolderIds
           /\ \A u \in Present : links[u] \in Link /\ links[u].folder \in Places
    BY ConstantsAssumption, TrackedChoicesType
       DEF IInv, TypeOK, Config, Existing, Present, NoDanglingFolder

LEMMA LinkRequestsInv ==
    ASSUME IInv, UNCHANGED <<folders, config, starred, lock, pass>>,
           links' \in [Urls -> Link \cup {None}],
           unstars' \subseteq Items,
           \A u \in Urls : links'[u] # None => links'[u].folder \in Places
    PROVE  IInv'
<1>1. NoDanglingFolder'
    BY DEF IInv, NoDanglingFolder, Places, Existing, Present
<1>2. config'.count <= config.count
    BY TypeFacts
<1>3. QED
    BY <1>1, <1>2, UserStepInv DEF IInv, TypeOK

\* Refiling a link keeps it a link, in the folder it was filed in.
LEMMA RefiledType ==
    ASSUME NEW k \in Link, NEW f \in FolderIds \cup {None}
    PROVE  /\ [k EXCEPT !.folder = f] \in Link
           /\ [k EXCEPT !.folder = f].folder = f
           /\ [k EXCEPT !.folder = f].item = k.item
    BY DEF Link

LEMMA LeavingType ==
    ASSUME TypeOK, NEW U \in SUBSET Present, NEW f \in Places, NEW t
    PROVE  Leaving(U, f, t) \subseteq Items
<1> SUFFICES ASSUME NEW v \in U, links[v].item # None
             PROVE  links[v].item \in Items
    BY DEF Leaving
<1>1. v \in Urls /\ links[v] # None
    BY DEF Present
<1>2. links[v] \in Link
    BY <1>1 DEF TypeOK
<1>3. QED
    BY <1>2 DEF Link

LEMMA AddLinkInv ==
    ASSUME IInv, NEW u \in Urls, NEW f \in Places, AddLink(u, f)
    PROVE  IInv'
<1>1. [folder |-> f, item |-> None] \in Link
    BY TypeFacts DEF Link, Places
<1>2. QED
    BY <1>1, LinkRequestsInv, TypeFacts DEF AddLink, IInv, TypeOK, Present

LEMMA MoveLinksInv ==
    ASSUME IInv, NEW U \in SUBSET Urls, NEW f \in Places, MoveLinks(U, f)
    PROVE  IInv'
<1>1. \A u \in U : links[u] \in Link
    BY TypeFacts DEF MoveLinks
<1>2. f \in FolderIds \cup {None}
    BY TypeFacts DEF Places
<1>3. links' \in [Urls -> Link \cup {None}]
    BY <1>1, <1>2, RefiledType DEF MoveLinks, IInv, TypeOK
<1>4. \A u \in Urls : links'[u] # None => links'[u].folder \in Places
    BY <1>1, <1>2, RefiledType, TypeFacts DEF MoveLinks, Present
<1>5. unstars' \subseteq Items
    BY LeavingType DEF MoveLinks, IInv, TypeOK
<1>6. QED
    BY <1>3, <1>4, <1>5, LinkRequestsInv DEF MoveLinks

LEMMA EditLinkInv ==
    ASSUME IInv, NEW u \in Urls, NEW v \in Urls, NEW f \in Places, EditLink(u, v, f)
    PROVE  IInv'
<1>1. links[u] \in Link /\ f \in FolderIds \cup {None} /\ {u} \in SUBSET Present
    BY TypeFacts DEF EditLink, Present, Places
<1>2. links' \in [Urls -> Link \cup {None}]
    BY <1>1, RefiledType DEF EditLink, IInv, TypeOK
<1>3. \A w \in Urls : links'[w] # None => links'[w].folder \in Places
    BY <1>1, RefiledType, TypeFacts DEF EditLink, Present, IInv, TypeOK
<1>4. unstars' \subseteq Items
    BY <1>1, LeavingType DEF EditLink, IInv, TypeOK
<1>5. QED
    BY <1>2, <1>3, <1>4, LinkRequestsInv DEF EditLink

LEMMA DeleteAndUnstarInv ==
    ASSUME IInv, NEW u \in Urls, DeleteAndUnstar(u)
    PROVE  IInv'
<1>1. unstars' \subseteq Items
    BY TypeFacts DEF DeleteAndUnstar, Present, Link, IInv, TypeOK
<1>2. QED
    BY <1>1, LinkRequestsInv, TypeFacts DEF DeleteAndUnstar, Present, IInv, TypeOK

LEMMA DeleteLinksInv ==
    ASSUME IInv, NEW U \in SUBSET Urls, DeleteLinks(U)
    PROVE  IInv'
    BY LinkRequestsInv, TypeFacts DEF DeleteLinks, Present, IInv, TypeOK

LEMMA AddFolderInv ==
    ASSUME IInv, NEW n \in Names, AddFolder(n)
    PROVE  IInv'
<1>1. PICK f \in FolderIds : folders' = [folders EXCEPT ![f] = n]
    BY DEF AddFolder
<1>2. folders' \in [FolderIds -> Names \cup {None}] /\ Existing \subseteq Existing'
    BY <1>1, ConstantsAssumption DEF IInv, TypeOK, Existing
<1>3. NoDanglingFolder'
    BY <1>2 DEF AddFolder, IInv, NoDanglingFolder, Places, Present
<1>4. QED
    BY <1>2, <1>3, UserStepInv, TypeFacts DEF AddFolder, IInv, TypeOK

LEMMA RenameFolderInv ==
    ASSUME IInv, NEW f \in FolderIds, NEW n \in Names, RenameFolder(f, n)
    PROVE  IInv'
<1>1. folders' \in [FolderIds -> Names \cup {None}] /\ Existing \subseteq Existing'
    BY ConstantsAssumption DEF RenameFolder, IInv, TypeOK, Existing
<1>2. /\ config' \in Config /\ config'.group \in Names
      /\ config'.folder \in {config.folder, f} /\ config'.count = config.count
    BY TypeFacts DEF RenameFolder, Config, IInv, TypeOK
<1>3. NoDanglingFolder'
    BY <1>1, <1>2 DEF RenameFolder, IInv, NoDanglingFolder, Places, Present
<1>4. QED
    BY <1>1, <1>2, <1>3, UserStepInv, TypeFacts DEF RenameFolder, IInv, TypeOK

\* Forgetting a set of folders clears the config's folder when it is one of them.
LEMMA ForgetType ==
    ASSUME NEW c \in Config, NEW F
    PROVE  /\ Forget(c, F) \in Config
           /\ Forget(c, F).group = c.group
           /\ Forget(c, F).count = c.count
           /\ Forget(c, F).folder \in {c.folder, None}
           /\ c.folder \in F => Forget(c, F).folder = None
    BY DEF Forget, Config

LEMMA DeleteFolderInv ==
    ASSUME IInv, NEW f \in FolderIds, NEW drop \in BOOLEAN, DeleteFolder(f, drop)
    PROVE  IInv'
<1>1. folders' \in [FolderIds -> Names \cup {None}] /\ Existing' = Existing \ {f}
    BY ConstantsAssumption DEF DeleteFolder, IInv, TypeOK, Existing
<1>2. /\ config' \in Config /\ config'.group \in Names /\ config'.count = config.count
      /\ config'.folder \in Places \ {f}
    BY ForgetType, ConstantsAssumption
       DEF DeleteFolder, IInv, TypeOK, NoDanglingFolder, Places
<1>3. /\ links' \in [Urls -> Link \cup {None}]
      /\ \A u \in Urls : links'[u] # None => links'[u].folder \in Places \ {f}
    BY EmptiedType, TypeFacts, ConstantsAssumption
       DEF DeleteFolder, IInv, Present, Places
<1>4. NoDanglingFolder'
    BY <1>1, <1>2, <1>3, ConstantsAssumption DEF NoDanglingFolder, Places, Present
<1>5. QED
    BY <1>1, <1>2, <1>3, <1>4, UserStepInv, TypeFacts DEF DeleteFolder, IInv, TypeOK

LEMMA SaveSettingsInv ==
    ASSUME IInv, NEW n \in Names, SaveSettings(n)
    PROVE  IInv'
<1>1. PICK t \in Places :
          /\ folders' = IF t = None THEN folders ELSE [folders EXCEPT ![t] = n]
          /\ config' = [config EXCEPT !.group = n,
                                      !.folder = IF t = None THEN @ ELSE t]
    BY TypeFacts DEF SaveSettings
<1>2. folders' \in [FolderIds -> Names \cup {None}] /\ Existing \subseteq Existing'
    BY <1>1, ConstantsAssumption DEF IInv, TypeOK, Existing, Places
<1>3. /\ config' \in Config /\ config'.group \in Names
      /\ config'.folder \in {config.folder, t} /\ config'.count = config.count
    BY <1>1, TypeFacts DEF Config, Places
<1>4. NoDanglingFolder'
    BY <1>2, <1>3 DEF SaveSettings, IInv, NoDanglingFolder, Places, Present
<1>5. QED
    BY <1>2, <1>3, <1>4, UserStepInv, TypeFacts DEF SaveSettings, IInv, TypeOK

LEMMA PurgeFreshRSSInv ==
    ASSUME IInv, PurgeFreshRSS
    PROVE  IInv'
<1>1. PICK t \in Places :
          IF t = None THEN UNCHANGED <<links, folders>>
          ELSE /\ links' = Emptied(t, TRUE)
               /\ folders' = [folders EXCEPT ![t] = None]
    BY TypeFacts DEF PurgeFreshRSS
<1>2. /\ config' \in Config /\ config'.group \in Names
      /\ config'.folder = None /\ config'.count = 0
    <2>1. config' = [config EXCEPT !.folder = None, !.count = 0] /\ 0 \in 0 .. CountCap
        BY ConstantsAssumption DEF PurgeFreshRSS
    <2>2. config \in Config /\ config.group \in Names
        BY DEF IInv, TypeOK
    <2>3. QED
        BY <2>1, <2>2 DEF Config
<1>3. CASE t = None
    <2>1. NoDanglingFolder'
        BY <1>1, <1>2, <1>3 DEF IInv, NoDanglingFolder, Places, Existing, Present
    <2>2. QED
        BY <1>1, <1>2, <1>3, <2>1, UserStepInv, TypeFacts DEF PurgeFreshRSS, IInv, TypeOK
<1>4. CASE t # None
    <2>1. t \in FolderIds
        BY <1>4, TypeFacts DEF Places
    <2>2. folders' \in [FolderIds -> Names \cup {None}] /\ Existing' = Existing \ {t}
        BY <1>1, <1>4, ConstantsAssumption DEF IInv, TypeOK, Existing
    <2>3. /\ links' \in [Urls -> Link \cup {None}]
          /\ \A u \in Urls : links'[u] # None => links'[u].folder \in Places \ {t}
        <3>1. links' = Emptied(t, TRUE) /\ TRUE \in BOOLEAN /\ TypeOK
            BY <1>1, <1>4 DEF IInv
        <3>2. \A u \in Urls : links'[u] # None =>
                 /\ links[u] # None
                 /\ links'[u].folder # t
                 /\ links'[u].folder \in {links[u].folder, None}
            BY <3>1, <2>1, EmptiedType
        <3>3. links' \in [Urls -> Link \cup {None}]
            BY <3>1, <2>1, EmptiedType
        <3>4. QED
            BY <1>4, <3>2, <3>3, TypeFacts DEF Present, Places
    <2>4. NoDanglingFolder'
        BY <1>2, <2>2, <2>3 DEF NoDanglingFolder, Places, Present
    <2>5. QED
        BY <1>2, <2>2, <2>3, <2>4, UserStepInv, TypeFacts DEF PurgeFreshRSS, IInv, TypeOK
<1>5. QED
    BY <1>3, <1>4

LEMMA PurgeAllInv ==
    ASSUME IInv, PurgeAll
    PROVE  IInv'
<1>1. /\ config' \in Config /\ config'.group \in Names /\ config'.count = config.count
      /\ config'.folder = None
    BY ForgetType DEF PurgeAll, IInv, TypeOK, Config
<1>2. NoDanglingFolder'
    BY <1>1 DEF PurgeAll, NoDanglingFolder, Places, Present
<1>3. QED
    BY <1>1, <1>2, UserStepInv, TypeFacts DEF PurgeAll, IInv, TypeOK

-----------------------------------------------------------------------------
(* The server, the spawned tasks and the passes *)

LEMMA ServerAndTasksInv ==
    ASSUME IInv, NEW i \in Items,
           Star(i) \/ UnstarByHand(i) \/ UnstarDone(i) \/ UnstarFailed(i)
    PROVE  IInv'
<1>1. /\ UNCHANGED <<links, folders, config, lock, pass>>
      /\ starred' \subseteq Items /\ unstars' \subseteq Items
    BY DEF Star, UnstarByHand, UnstarDone, UnstarFailed, IInv, TypeOK
<1>2. NoDanglingFolder'
    BY <1>1 DEF IInv, NoDanglingFolder, Places, Existing, Present
<1>3. QED
    BY <1>1, <1>2, UserStepInv, TypeFacts DEF IInv, TypeOK

LEMMA StartPassInv ==
    ASSUME IInv, NEW p \in Passes, StartPass(p)
    PROVE  IInv'
<1> DEFINE s == [IdlePass EXCEPT !.pc = "waiting", !.cfg = config]
<1>1. s \in Pass /\ s.pc = "waiting" /\ s.cfg = config
    BY TypeFacts DEF IdlePass, NoConfig, Pass
<1>2. pass' = [pass EXCEPT ![p] = s]
    BY DEF StartPass
<1> HIDE DEF s
<1>3. TypeOK'
    BY <1>1, <1>2 DEF StartPass, IInv, TypeOK
<1>4. \A q \in Passes : /\ q # p => pass'[q] = pass[q]
                        /\ Holding(q)' <=> Holding(q)
    BY <1>1, <1>2 DEF StartPass, IInv, TypeOK, Holding
<1>5. LockAgrees'
    BY <1>4 DEF StartPass, IInv, LockAgrees
<1>6. PassHasName'
    BY <1>1, <1>2 DEF IInv, TypeOK, PassHasName
<1>7. CountNotBehind'
    BY <1>1, <1>2, <1>4 DEF StartPass, IInv, TypeOK, CountNotBehind, Holding
<1>8. NoDanglingFolder'
    BY DEF StartPass, IInv, NoDanglingFolder, Places, Existing, Present
<1>9. QED
    BY <1>3, <1>5, <1>6, <1>7, <1>8 DEF IInv

LEMMA AcquireInv ==
    ASSUME IInv, NEW p \in Passes, Acquire(p)
    PROVE  IInv'
<1>1. /\ pass' \in [Passes -> Pass]
      /\ pass'[p].pc = "fetching" /\ pass'[p].cfg = config
      /\ \A q \in Passes : q # p => pass'[q] = pass[q]
    <2> DEFINE s == [pass[p] EXCEPT !.pc = "fetching", !.cfg = config]
    <2>1. s \in Pass /\ s.pc = "fetching" /\ s.cfg = config
        BY TypeFacts DEF IInv, TypeOK, Pass
    <2>2. pass' = [pass EXCEPT ![p] = s]
        BY DEF Acquire, IInv, TypeOK, Pass
    <2> HIDE DEF s
    <2>3. QED
        BY <2>1, <2>2 DEF IInv, TypeOK
<1>2. TypeOK'
    BY <1>1 DEF Acquire, IInv, TypeOK
<1>3. \A q \in Passes : ~Holding(q)
    BY ConstantsAssumption DEF Acquire, IInv, LockAgrees
<1>4. LockAgrees'
    BY <1>1, <1>3 DEF Acquire, LockAgrees, Holding
<1>5. PassHasName'
    BY <1>1 DEF IInv, TypeOK, PassHasName
<1>6. CountNotBehind'
    BY <1>1, <1>3, TypeFacts DEF Acquire, CountNotBehind, Holding
<1>7. NoDanglingFolder'
    BY DEF Acquire, IInv, NoDanglingFolder, Places, Existing, Present
<1>8. QED
    BY <1>2, <1>4, <1>5, <1>6, <1>7 DEF IInv

LEMMA FetchInv ==
    ASSUME IInv, NEW p \in Passes, NEW S \in SUBSET Items, Fetch(p, S)
    PROVE  IInv'
<1> DEFINE s == [pass[p] EXCEPT !.pc = "fetched", !.fetched = S]
<1>1. s \in Pass /\ s.cfg = pass[p].cfg /\ s.pc = "fetched"
    BY DEF IInv, TypeOK, Pass
<1>2. pass' = [pass EXCEPT ![p] = s]
    BY DEF Fetch, IInv, TypeOK, Pass
<1>3. Holding(p) /\ Holding(p)'
    BY <1>1, <1>2 DEF Holding, Fetch, IInv, TypeOK
<1>4. starred' \subseteq Items
    BY DEF Fetch, IInv, TypeOK
<1> HIDE DEF s
<1>5. QED
    BY <1>1, <1>2, <1>3, <1>4, QuietPassInv DEF Fetch

LEMMA OrphanInv ==
    ASSUME IInv, NEW p \in Passes, NEW i \in Items,
           OrphanDone(p, i) \/ OrphanFailed(p, i)
    PROVE  IInv'
<1> DEFINE s == [pass[p] EXCEPT !.orphans = @ \ {i}]
<1>1. s \in Pass /\ s.cfg = pass[p].cfg /\ s.pc = pass[p].pc
    BY DEF IInv, TypeOK, Pass
<1>2. pass' = [pass EXCEPT ![p] = s]
    BY DEF OrphanDone, OrphanFailed, IInv, TypeOK, Pass
<1>3. Holding(p) /\ Holding(p)'
    BY <1>1, <1>2 DEF Holding, OrphanDone, OrphanFailed, IInv, TypeOK
<1>4. /\ starred' \subseteq Items
      /\ UNCHANGED <<links, folders, config, unstars, lock>>
    BY DEF OrphanDone, OrphanFailed, IInv, TypeOK
<1> HIDE DEF s
<1>5. QED
    BY <1>1, <1>2, <1>3, <1>4, QuietPassInv

\* A pass that ends leaves a sound state as soon as the tables it leaves are.
LEMMA EndOfPassInv ==
    ASSUME IInv, NEW p \in Passes, Holding(p), Release(p),
           links' \in [Urls -> Link \cup {None}],
           folders' \in [FolderIds -> Names \cup {None}],
           config' \in Config, config'.group \in Names,
           UNCHANGED <<starred, unstars>>,
           NoDanglingFolder'
    PROVE  IInv'
<1>1. TypeOK'
    BY ReleaseInv DEF IInv, TypeOK
<1>2. CountNotBehind'
    BY ReleaseInv DEF CountNotBehind
<1>3. QED
    BY <1>1, <1>2, ReleaseInv DEF IInv

LEMMA FailedPassInv ==
    ASSUME IInv, NEW p \in Passes,
           FetchFails(p) \/ NothingStarred(p) \/ ImportFails(p)
    PROVE  IInv'
<1>1. /\ Holding(p) /\ Release(p)
      /\ UNCHANGED <<links, folders, config, starred, unstars>>
    BY DEF FetchFails, NothingStarred, ImportFails, Holding
<1>2. NoDanglingFolder'
    BY <1>1 DEF IInv, NoDanglingFolder, Places, Existing, Present
<1>3. QED
    BY <1>1, <1>2, EndOfPassInv DEF IInv, TypeOK

LEMMA ImportInv ==
    ASSUME IInv, NEW p \in Passes, Import(p)
    PROVE  IInv'
<1> DEFINE new == StarredUrls(p) \ pass[p].known
           f   == pass[p].folder
<1>1. PICK g \in ItemChoices(p) : links' = Imported(links, new, f, g)
    BY DEF Import
<1>2. /\ new \in SUBSET StarredUrls(p) /\ new \in SUBSET Urls
      /\ Cardinality(new) \in Nat
      /\ pass[p].cfg.count \in 0 .. CountCap
    BY StarredUrlsType, UrlsCardinality DEF IInv, TypeOK, Pass, Config
<1>3. config' \in Config /\ config'.group \in Names /\ config'.folder = config.folder
    BY <1>2, CountedType DEF Import, IInv, TypeOK
<1>4. /\ links' \in [Urls -> Link \cup {None}]
      /\ \A u \in Urls : links'[u] # None => links'[u].folder \in Places
    <2>1. CASE new = {}
        <3>1. links' = [u \in Urls |-> links[u]]
            BY <1>1, <2>1 DEF Imported
        <3>2. QED
            BY <3>1, TypeFacts DEF IInv, TypeOK, Present
    <2>2. CASE new # {}
        <3>1. f \in FolderIds /\ f \in Places
            BY <2>2, TypeFacts DEF Import, Places
        <3>2. /\ links' \in [Urls -> Link \cup {None}]
              /\ \A u \in new : links'[u] # None /\ links'[u].folder = f
              /\ \A u \in Urls \ new : links'[u] = links[u]
            <4> HIDE DEF new, f
            <4>1. TypeOK /\ links \in [Urls -> Link \cup {None}] /\ new \subseteq Urls
                BY <1>2 DEF IInv, TypeOK
            <4>2. QED
                BY <1>1, <1>2, <3>1, <4>1, ImportedType
        <3>3. QED
            BY <3>1, <3>2, TypeFacts DEF Present
    <2>3. QED
        BY <2>1, <2>2
<1>5. NoDanglingFolder'
    BY <1>3, <1>4 DEF Import, IInv, NoDanglingFolder, Places, Existing, Present
<1>6. Holding(p) /\ Release(p)
    BY DEF Import, Holding
<1>7. QED
    BY <1>3, <1>4, <1>5, <1>6, EndOfPassInv DEF Import, IInv, TypeOK

\* What Reconcile does to the tables: the target folder exists afterwards, the
\* links of the library are kept, the new ones are filed in the target folder.
LEMMA ReconcileTables ==
    ASSUME IInv, NEW p \in Passes, Reconcile(p)
    PROVE  \E f \in FolderIds : \E new \in SUBSET (Urls \ Present) :
        /\ folders' \in [FolderIds -> Names \cup {None}]
        /\ Existing \subseteq Existing' /\ f \in Existing'
        /\ links' \in [Urls -> Link \cup {None}]
        /\ \A u \in Present : /\ links'[u] # None
                              /\ links'[u].folder = links[u].folder
                              /\ links[u].item # None => links'[u].item = links[u].item
        /\ \A u \in new : links'[u] # None /\ links'[u].folder = f
        /\ \A u \in Urls : links'[u] # None => u \in Present \cup new
        /\ config' \in Config /\ config'.group \in Names
        /\ config'.folder \in {config.folder, f}
        /\ UNCHANGED <<starred, unstars>>
        /\ \/ /\ Release(p)
              /\ \/ config'.count = CountCap
                 \/ config'.count = config.count /\ new = {}
                 \/ config'.count = pass[p].cfg.count + Cardinality(new)
           \/ /\ UNCHANGED lock
              /\ new = {}
              /\ config'.count = config.count
              /\ \E s \in Pass : /\ pass' = [pass EXCEPT ![p] = s]
                                 /\ s.pc = "unstarring" /\ s.cfg = config'
<1> DEFINE c     == pass[p].cfg
           known == StarredUrls(p) \cap Present
           new   == StarredUrls(p) \ known
<1>1. PICK f \in Targets(c), g \in ItemChoices(p) :
          LET orphans == OrphansOf(f, known)
              saved   == IF c.folder = f THEN config ELSE [config EXCEPT !.folder = f]
              filled  == Backfilled(f, known, g)
          IN  /\ folders' = [folders EXCEPT ![f] = IF @ = None THEN c.group ELSE @]
              /\ IF orphans # {}
                 THEN /\ links' = filled
                      /\ config' = saved
                      /\ pass' = [pass EXCEPT ![p].pc = "unstarring", ![p].cfg = saved,
                                              ![p].folder = f, ![p].known = known,
                                              ![p].orphans = orphans]
                      /\ UNCHANGED lock
                 ELSE /\ links' = Imported(filled, new, f, g)
                      /\ config' = Counted(saved, c.count, Cardinality(new))
                      /\ Release(p)
    BY DEF Reconcile
<1> DEFINE orphans == OrphansOf(f, known)
           saved   == IF c.folder = f THEN config ELSE [config EXCEPT !.folder = f]
           filled  == Backfilled(f, known, g)
<1>2. TypeOK /\ c \in Config /\ c.group \in Names /\ c.count \in 0 .. CountCap
    BY DEF Reconcile, IInv, TypeOK, Pass, PassHasName, Config
<1>3. f \in FolderIds
    BY <1>2, TargetsType
<1>4. /\ folders' \in [FolderIds -> Names \cup {None}]
      /\ Existing \subseteq Existing' /\ f \in Existing'
    BY <1>1, <1>2, <1>3, ConstantsAssumption DEF TypeOK, Existing
<1>5. /\ known \in SUBSET (StarredUrls(p) \cap Present)
      /\ new \in SUBSET StarredUrls(p) /\ new \in SUBSET (Urls \ Present)
      /\ new \subseteq Urls /\ Cardinality(new) \in Nat
    BY <1>2, StarredUrlsType, UrlsCardinality DEF Present
<1>6. /\ saved \in Config /\ saved.group \in Names /\ saved.count = config.count
      /\ saved.folder \in {config.folder, f}
    BY <1>2, <1>3 DEF TypeOK, Config
<1>7. /\ filled \in [Urls -> Link \cup {None}]
      /\ \A u \in Urls : links[u] = None => filled[u] = None
      /\ \A u \in Urls : links[u] # None =>
            /\ filled[u] # None
            /\ filled[u].folder = links[u].folder
            /\ links[u].item # None => filled[u].item = links[u].item
    <2> HIDE DEF known
    <2>1. QED
        BY <1>2, <1>3, <1>5, BackfilledType
<1>8. UNCHANGED <<starred, unstars>>
    BY DEF Reconcile
<1>9. CASE orphans # {}
    <2>1. links' = filled /\ config' = saved /\ UNCHANGED lock
        BY <1>1, <1>9
    <2> DEFINE s == [pass[p] EXCEPT !.pc = "unstarring", !.cfg = saved, !.folder = f,
                                    !.known = known, !.orphans = orphans]
    <2>2. orphans \subseteq Items
        <3> SUFFICES ASSUME NEW v \in known, links[v].item # None
                     PROVE  links[v].item \in Items
            BY DEF OrphansOf
        <3>1. links[v] \in Link
            BY <1>2 DEF TypeOK, Present
        <3>2. QED
            BY <3>1 DEF Link
    <2>3. pass[p] \in Pass /\ known \subseteq Urls
        BY <1>2 DEF TypeOK, Present
    <2>4. s \in Pass /\ s.pc = "unstarring" /\ s.cfg = saved
        <3> HIDE DEF saved, known, orphans
        <3>1. QED
            BY <1>3, <1>6, <2>2, <2>3 DEF Pass
    <2>5. pass' = [pass EXCEPT ![p] = s]
        <3>1. pass' = [pass EXCEPT ![p].pc = "unstarring", ![p].cfg = saved,
                                   ![p].folder = f, ![p].known = known,
                                   ![p].orphans = orphans]
            BY <1>1, <1>9
        <3> HIDE DEF saved, known, orphans
        <3>2. QED
            BY <3>1, <1>2 DEF TypeOK, Pass
    <2> HIDE DEF s
    <2> HIDE DEF saved, filled, known, new, orphans, c
    <2>6. \A u \in Present : u \in Urls /\ links[u] # None
        BY DEF Present
    <2>7. \A u \in Urls : links'[u] # None => u \in Present
        BY <1>7, <2>1 DEF Present
    <2>8. QED
        BY <1>3, <1>4, <1>6, <1>7, <1>8, <2>1, <2>4, <2>5, <2>6, <2>7
<1>10. CASE orphans = {}
    <2>1. /\ links' = Imported(filled, new, f, g)
          /\ config' = Counted(saved, c.count, Cardinality(new))
          /\ Release(p)
        BY <1>1, <1>10
    <2> HIDE DEF saved, filled, known, new, orphans
    <2>2. /\ links' \in [Urls -> Link \cup {None}]
          /\ \A u \in new : links'[u] # None /\ links'[u].folder = f
          /\ \A u \in Urls \ new : links'[u] = filled[u]
        <3>1. links' = Imported(filled, new, f, g)
            BY <2>1
        <3>2. TypeOK /\ filled \in [Urls -> Link \cup {None}]
            BY <1>2, <1>7
        <3>3. new \in SUBSET StarredUrls(p) /\ new \subseteq Urls
            BY <1>5
        <3>4. QED
            BY SMTT(30), <3>1, <3>2, <3>3, <1>3, ImportedType
    <2>3. /\ config' \in Config /\ config'.group = saved.group
          /\ config'.folder = saved.folder
          /\ Cardinality(new) = 0 => config' = saved
          /\ Cardinality(new) # 0 => \/ config'.count = CountCap
                                     \/ config'.count = c.count + Cardinality(new)
        BY <2>1, <1>2, <1>5, <1>6, CountedType
    <2>4. Cardinality(new) = 0 => new = {}
        BY <1>5, UrlsCardinality, FS_EmptySet
    <2>5. \A u \in Present : /\ links'[u] # None
                             /\ links'[u].folder = links[u].folder
                             /\ links[u].item # None => links'[u].item = links[u].item
        BY <2>2, <1>5, <1>7 DEF Present
    <2>6. \A u \in Urls : links'[u] # None => u \in Present \cup new
        BY <2>2, <1>7 DEF Present
    <2>7. \/ config'.count = CountCap
          \/ config'.count = config.count /\ new = {}
          \/ config'.count = pass[p].cfg.count + Cardinality(new)
        BY <2>3, <2>4, <1>6
    <2>8. QED
        BY <1>3, <1>4, <1>5, <1>6, <1>8, <2>1, <2>2, <2>3, <2>5, <2>6, <2>7
<1>11. QED
    BY <1>9, <1>10

\* A pass that reconciles, whether it ends there or waits for its unstars.
LEMMA ReconcileInv ==
    ASSUME IInv, NEW p \in Passes, Reconcile(p)
    PROVE  IInv'
<1>1. PICK f \in FolderIds, new \in SUBSET (Urls \ Present) :
        /\ folders' \in [FolderIds -> Names \cup {None}]
        /\ Existing \subseteq Existing' /\ f \in Existing'
        /\ links' \in [Urls -> Link \cup {None}]
        /\ \A u \in Present : links'[u] # None /\ links'[u].folder = links[u].folder
        /\ \A u \in new : links'[u] # None /\ links'[u].folder = f
        /\ \A u \in Urls : links'[u] # None => u \in Present \cup new
        /\ config' \in Config /\ config'.group \in Names
        /\ config'.folder \in {config.folder, f}
        /\ UNCHANGED <<starred, unstars>>
        /\ \/ Release(p)
           \/ /\ UNCHANGED lock
              /\ config'.count = config.count
              /\ \E s \in Pass : /\ pass' = [pass EXCEPT ![p] = s]
                                 /\ s.pc = "unstarring" /\ s.cfg = config'
    BY ReconcileTables
<1>2. Holding(p)
    BY DEF Reconcile, Holding
<1>3. NoDanglingFolder'
    BY <1>1 DEF IInv, NoDanglingFolder, Places, Present
<1>4. CASE Release(p)
    BY <1>1, <1>2, <1>3, <1>4, EndOfPassInv
<1>5. CASE /\ UNCHANGED lock
           /\ config'.count = config.count
           /\ \E s \in Pass : /\ pass' = [pass EXCEPT ![p] = s]
                              /\ s.pc = "unstarring" /\ s.cfg = config'
    <2>1. PICK s \in Pass : /\ pass' = [pass EXCEPT ![p] = s]
                            /\ s.pc = "unstarring" /\ s.cfg = config'
        BY <1>5
    <2>2. TypeOK'
        BY <1>1, <1>5, <2>1 DEF IInv, TypeOK
    <2>3. \A q \in Passes : /\ q # p => pass'[q] = pass[q]
                            /\ Holding(q)' <=> Holding(q)
        BY <1>2, <2>1 DEF IInv, TypeOK, Holding
    <2>4. LockAgrees'
        BY <1>5, <2>3 DEF IInv, LockAgrees
    <2>5. PassHasName'
        BY <1>1, <2>1 DEF IInv, TypeOK, PassHasName
    <2>6. CountNotBehind'
        <3>1. config'.count \in Nat /\ pass'[p].cfg.count = config'.count
            BY <1>1, <2>1, ConstantsAssumption DEF Config, IInv, TypeOK
        <3>2. QED
            BY <1>5, <2>3, <3>1 DEF IInv, CountNotBehind
    <2>7. QED
        BY <1>3, <2>2, <2>4, <2>5, <2>6 DEF IInv
<1>6. QED
    BY <1>1, <1>4, <1>5

LEMMA RestartInv ==
    ASSUME IInv, Restart
    PROVE  IInv'
<1>1. IdlePass \in Pass
    BY ConstantsAssumption DEF IdlePass, NoConfig, Pass, Config
<1>2. TypeOK'
    BY <1>1 DEF Restart, IInv, TypeOK
<1>3. \A p \in Passes : pass'[p].pc = "idle" /\ ~Holding(p)'
    BY DEF Restart, IdlePass, Holding
<1>4. LockAgrees' /\ PassHasName' /\ CountNotBehind'
    BY <1>3, ConstantsAssumption DEF Restart, LockAgrees, PassHasName, CountNotBehind
<1>5. NoDanglingFolder'
    BY DEF Restart, IInv, NoDanglingFolder, Places, Existing, Present
<1>6. QED
    BY <1>2, <1>4, <1>5 DEF IInv

\* The invariant is inductive: one step per action.
LEMMA NextInv == IInv /\ [Next]_vars => IInv'
<1> SUFFICES ASSUME IInv, [Next]_vars PROVE IInv'
    OBVIOUS
<1>1. ASSUME NEW u \in Urls, NEW f \in Places, AddLink(u, f) PROVE IInv'
    BY <1>1, AddLinkInv
<1>2. ASSUME NEW U \in SUBSET Urls, NEW f \in Places, MoveLinks(U, f) PROVE IInv'
    BY <1>2, MoveLinksInv
<1>3. ASSUME NEW u \in Urls, NEW v \in Urls, NEW f \in Places, EditLink(u, v, f)
      PROVE IInv'
    BY <1>3, EditLinkInv
<1>4. ASSUME NEW u \in Urls, DeleteAndUnstar(u) PROVE IInv'
    BY <1>4, DeleteAndUnstarInv
<1>5. ASSUME NEW U \in SUBSET Urls, DeleteLinks(U) PROVE IInv'
    BY <1>5, DeleteLinksInv
<1>6. ASSUME NEW n \in Names, AddFolder(n) PROVE IInv'
    BY <1>6, AddFolderInv
<1>7. ASSUME NEW f \in FolderIds, NEW n \in Names, RenameFolder(f, n) PROVE IInv'
    BY <1>7, RenameFolderInv
<1>8. ASSUME NEW f \in FolderIds, NEW drop \in BOOLEAN, DeleteFolder(f, drop)
      PROVE IInv'
    BY <1>8, DeleteFolderInv
<1>9. ASSUME NEW n \in Names, SaveSettings(n) PROVE IInv'
    BY <1>9, SaveSettingsInv
<1>10. CASE PurgeFreshRSS
    BY <1>10, PurgeFreshRSSInv
<1>11. CASE PurgeAll
    BY <1>11, PurgeAllInv
<1>12. ASSUME NEW i \in Items,
              Star(i) \/ UnstarByHand(i) \/ UnstarDone(i) \/ UnstarFailed(i)
       PROVE IInv'
    BY <1>12, ServerAndTasksInv
<1>13. ASSUME NEW p \in Passes, StartPass(p) PROVE IInv'
    BY <1>13, StartPassInv
<1>14. ASSUME NEW p \in Passes, Acquire(p) PROVE IInv'
    BY <1>14, AcquireInv
<1>15. ASSUME NEW p \in Passes, NEW S \in SUBSET Items, Fetch(p, S) PROVE IInv'
    BY <1>15, FetchInv
<1>16. ASSUME NEW p \in Passes, FetchFails(p) \/ NothingStarred(p) \/ ImportFails(p)
       PROVE IInv'
    BY <1>16, FailedPassInv
<1>17. ASSUME NEW p \in Passes, Reconcile(p) PROVE IInv'
    BY <1>17, ReconcileInv
<1>18. ASSUME NEW p \in Passes, NEW i \in Items,
              OrphanDone(p, i) \/ OrphanFailed(p, i)
       PROVE IInv'
    BY <1>18, OrphanInv
<1>19. ASSUME NEW p \in Passes, Import(p) PROVE IInv'
    BY <1>19, ImportInv
<1>20. CASE Restart
    BY <1>20, RestartInv
<1>21. CASE UNCHANGED vars
    BY <1>21 DEF vars, IInv, TypeOK, LockAgrees, PassHasName, NoDanglingFolder,
                 CountNotBehind, Holding, Places, Existing, Present
<1>22. CASE UserStep
    BY <1>22, <1>1, <1>2, <1>3, <1>4, <1>5, <1>6, <1>7, <1>8, <1>9, <1>10, <1>11,
       <1>12 DEF UserStep
<1>23. CASE TaskStep
    BY <1>23, <1>12 DEF TaskStep
<1>24. ASSUME NEW p \in Passes, PassStep(p) PROVE IInv'
    BY <1>24, <1>13, <1>14, <1>15, <1>16, <1>17, <1>18, <1>19 DEF PassStep
<1>25. QED
    BY <1>20, <1>21, <1>22, <1>23, <1>24 DEF Next

LEMMA Inductive == Spec => []IInv
<1>1. Init => IInv
    BY InitIInv
<1>2. IInv /\ [Next]_vars => IInv'
    BY NextInv
<1>3. QED
    BY <1>1, <1>2, PTL DEF Spec

-----------------------------------------------------------------------------
(* The theorems *)

\* The tables, the lock and the sessions of the passes keep their types
\* whatever the requests, the server and the passes do.
THEOREM TypeCorrect == Spec => []TypeOK
<1>1. IInv => TypeOK
    BY DEF IInv
<1>2. QED
    BY <1>1, Inductive, PTL

\* The per-account lock of sync_user excludes: of any number of callers, one
\* at most is fetching, reconciling or importing.
THEOREM MutualExclusion == Spec => []OnePassAtATime
<1>1. IInv => OnePassAtATime
    BY DEF IInv, LockAgrees, OnePassAtATime
<1>2. QED
    BY <1>1, Inductive, PTL

\* Whatever the interleaving of deletions, purges and passes, the folder the
\* settings track and the folder of every link exist, though no foreign key
\* protects the former.
THEOREM ReferencesExist == Spec => []NoDanglingFolder
<1>1. IInv => NoDanglingFolder
    BY DEF IInv
<1>2. QED
    BY <1>1, Inductive, PTL

-----------------------------------------------------------------------------
(* What a step of a pass may do *)

\* A request leaves the passes alone.
LEMMA RequestsLeavePasses ==
    ASSUME UserStep \/ TaskStep
    PROVE  pass' = pass
    BY DEF UserStep, TaskStep, AddLink, MoveLinks, EditLink, DeleteAndUnstar,
           DeleteLinks, AddFolder, RenameFolder, DeleteFolder, SaveSettings,
           PurgeFreshRSS, PurgeAll, Star, UnstarByHand, UnstarDone, UnstarFailed

\* Of the steps of a pass, only Reconcile and Import write the tables.
LEMMA OnlyTwoStepsWrite ==
    ASSUME NEW p \in Passes, PassStep(p), ~Reconcile(p), ~Import(p)
    PROVE  links' = links /\ config' = config
    BY DEF PassStep, StartPass, Acquire, Fetch, FetchFails, NothingStarred,
           OrphanDone, OrphanFailed, ImportFails

\* The new links of Import, and what it leaves of the others.
LEMMA ImportTables ==
    ASSUME IInv, NEW p \in Passes, Import(p)
    PROVE  \E new \in SUBSET (Urls \ Present) :
        /\ \A u \in Urls \ new : links'[u] = links[u]
        /\ config' = Counted(config, pass[p].cfg.count, Cardinality(new))
<1> DEFINE new == StarredUrls(p) \ pass[p].known
<1>1. PICK g \in ItemChoices(p) : links' = Imported(links, new, pass[p].folder, g)
    BY DEF Import
<1>2. new \in SUBSET (Urls \ Present)
    BY StarredUrlsType DEF Import, IInv
<1>3. \A u \in Urls \ new : links'[u] = links[u]
    BY <1>1 DEF Imported
<1>4. config' = Counted(config, pass[p].cfg.count, Cardinality(new))
    BY DEF Import
<1>5. QED
    BY <1>2, <1>3, <1>4

\* The step form of PassesOnlyAdd.
LEMMA PassStepsOnlyAdd ==
    ASSUME IInv, [Next]_vars, pass' # pass, NEW u \in Present
    PROVE  /\ links'[u] # None
           /\ links'[u].folder = links[u].folder
           /\ links[u].item # None => links'[u].item = links[u].item
<1>1. u \in Urls /\ links[u] # None
    BY DEF Present
<1>2. CASE UserStep \/ TaskStep
    BY <1>2, RequestsLeavePasses
<1>3. CASE Restart
    BY <1>1, <1>3 DEF Restart
<1>4. ASSUME NEW p \in Passes, Reconcile(p)
      PROVE  /\ links'[u] # None
             /\ links'[u].folder = links[u].folder
             /\ links[u].item # None => links'[u].item = links[u].item
    BY <1>4, ReconcileTables
<1>5. ASSUME NEW p \in Passes, Import(p)
      PROVE  links'[u] = links[u]
    <2>1. PICK new \in SUBSET (Urls \ Present) :
              \A v \in Urls \ new : links'[v] = links[v]
        BY <1>5, ImportTables
    <2>2. QED
        BY <1>1, <2>1
<1>6. ASSUME NEW p \in Passes, PassStep(p), ~Reconcile(p), ~Import(p)
      PROVE  links'[u] = links[u]
    BY <1>6, OnlyTwoStepsWrite
<1>7. QED
    BY <1>1, <1>2, <1>3, <1>4, <1>5, <1>6 DEF Next, vars

\* For every library and every interleaving of requests with the awaits of a
\* pass: a pass neither deletes nor refiles a link, nor changes the article
\* recorded on it.
THEOREM PassesAddOnly == Spec => PassesOnlyAdd
<1> DEFINE A == pass' # pass =>
                  \A u \in Present :
                      /\ links'[u] # None
                      /\ links'[u].folder = links[u].folder
                      /\ links[u].item # None => links'[u].item = links[u].item
<1>1. IInv /\ [Next]_vars => [A]_vars
    BY PassStepsOnlyAdd
<1>2. Spec => [][A]_vars
    <2> HIDE DEF A
    <2>1. QED
        BY <1>1, Inductive, PTL DEF Spec
<1>3. QED
    BY <1>2 DEF PassesOnlyAdd

\* The links inserted by a step are among those it files, hence no more than
\* what it adds to the count.
LEMMA InsertedAtMost ==
    ASSUME NEW new \in SUBSET Urls,
           \A u \in Urls \ new : links[u] = None => links'[u] = None
    PROVE  Cardinality(Inserted) \in 0 .. Cardinality(new)
<1>1. Inserted \subseteq new /\ IsFiniteSet(new) /\ Cardinality(new) \in Nat
    BY UrlsCardinality DEF Inserted
<1>2. IsFiniteSet(Inserted) /\ Cardinality(Inserted) <= Cardinality(new)
    BY <1>1, FS_Subset
<1>3. Cardinality(Inserted) \in Nat
    BY <1>2, FS_CardinalityType
<1>4. QED
    BY <1>1, <1>2, <1>3

\* The step form of NoImportUncounted: it rests on CountNotBehind, that is on
\* the refresh made once the lock is held.
LEMMA PassStepsCount ==
    ASSUME IInv, [Next]_vars, pass' # pass
    PROVE  \/ config'.count = CountCap
           \/ config'.count >= config.count + Cardinality(Inserted)
<1> DEFINE n == Cardinality(Inserted)
           Goal == config'.count = CountCap \/ config'.count >= config.count + n
<1>1. config.count \in Nat /\ CountCap \in Nat
    BY TypeFacts, ConstantsAssumption
<1>2. ASSUME links' = links, config' = config
      PROVE  Goal
    <2>1. n = 0
        BY <1>2, FS_EmptySet DEF Inserted
    <2>2. QED
        BY <1>1, <1>2, <2>1
<1>3. ASSUME NEW p \in Passes, Reconcile(p)
      PROVE  Goal
    <2>1. PICK new \in SUBSET (Urls \ Present) :
            /\ \A u \in Urls : links'[u] # None => u \in Present \cup new
            /\ \/ config'.count = CountCap
               \/ config'.count = config.count /\ new = {}
               \/ config'.count = pass[p].cfg.count + Cardinality(new)
        BY <1>3, ReconcileTables
    <2>2. n \in 0 .. Cardinality(new) /\ Cardinality(new) \in Nat
        BY <2>1, InsertedAtMost, UrlsCardinality DEF Present
    <2>3. new = {} => Cardinality(new) = 0
        BY FS_EmptySet
    <2>4. pass[p].cfg.count >= config.count /\ pass[p].cfg.count \in Nat
        BY <1>3, ConstantsAssumption
           DEF Reconcile, Holding, IInv, CountNotBehind, TypeOK, Pass, Config
    <2> HIDE DEF n
    <2>5. QED
        BY <1>1, <2>1, <2>2, <2>3, <2>4
<1>4. ASSUME NEW p \in Passes, Import(p)
      PROVE  Goal
    <2>1. PICK new \in SUBSET (Urls \ Present) :
            /\ \A u \in Urls \ new : links'[u] = links[u]
            /\ config' = Counted(config, pass[p].cfg.count, Cardinality(new))
        BY <1>4, ImportTables
    <2>2. n \in 0 .. Cardinality(new) /\ Cardinality(new) \in Nat
        BY <2>1, InsertedAtMost, UrlsCardinality
    <2>3. /\ pass[p].cfg.count >= config.count
          /\ pass[p].cfg.count \in 0 .. CountCap /\ config \in Config
        BY <1>4, ConstantsAssumption
           DEF Import, Holding, IInv, CountNotBehind, TypeOK, Pass, Config
    <2>4. /\ Cardinality(new) = 0 => config' = config
          /\ Cardinality(new) # 0 => \/ config'.count = CountCap
                                     \/ config'.count = pass[p].cfg.count + Cardinality(new)
        BY <2>1, <2>2, <2>3, CountedType
    <2> HIDE DEF n
    <2>5. QED
        BY <1>1, <2>2, <2>3, <2>4
<1>5. CASE UserStep \/ TaskStep
    BY <1>5, RequestsLeavePasses
<1>6. CASE Restart
    BY <1>2, <1>6 DEF Restart
<1>7. ASSUME NEW p \in Passes, PassStep(p), ~Reconcile(p), ~Import(p)
      PROVE  Goal
    BY <1>2, <1>7, OnlyTwoStepsWrite
<1> HIDE DEF Goal
<1>8. ASSUME NEW p \in Passes, PassStep(p)
      PROVE  Goal
    BY <1>3, <1>4, <1>7, <1>8
<1>9. Goal
    <2>1. pass' # pass => Next
        BY DEF vars
    <2>2. QED
        BY <1>5, <1>6, <1>8, <2>1 DEF Next, Goal
<1>10. QED
    BY <1>9 DEF Goal

\* For every number of callers: the imports of a pass that waited for another
\* one are added to the count the other one left.
THEOREM EveryImportCounted == Spec => NoImportUncounted
<1> DEFINE A == pass' # pass =>
                  \/ config'.count = CountCap
                  \/ config'.count >= config.count + Cardinality(Inserted)
<1>1. IInv /\ [Next]_vars => [A]_vars
    BY PassStepsCount
<1>2. Spec => [][A]_vars
    <2> HIDE DEF A
    <2>1. QED
        BY <1>1, Inductive, PTL DEF Spec
<1>3. QED
    BY <1>2 DEF NoImportUncounted

-----------------------------------------------------------------------------
(* What the program asks the server to unstar *)

\* A link that leaves the folder t is filed in it, and elsewhere afterwards.
LEMMA LeavingLink ==
    ASSUME NEW U \in SUBSET Present, NEW f, NEW t, NEW i \in Leaving(U, f, t)
    PROVE  \E u \in U : links[u].item = i /\ links[u].folder # f
    BY DEF Leaving

LEMMA MoveLinksUnstars ==
    ASSUME IInv, NEW U \in SUBSET Urls, NEW f \in Places, MoveLinks(U, f), NEW i \in NewlySpawned
    PROVE  \E u \in Present : links[u].item = i /\ links'[u].folder # links[u].folder
<1>1. U \in SUBSET Present /\ f \in FolderIds \cup {None}
    BY TypeFacts DEF MoveLinks, Places
<1>2. PICK t : i \in Leaving(U, f, t)
    BY DEF MoveLinks, NewlySpawned
<1>3. PICK u \in U : links[u].item = i /\ links[u].folder # f
    BY <1>1, <1>2, LeavingLink
<1>4. links[u] \in Link /\ u \in Urls
    BY <1>1, TypeFacts
<1>5. links'[u].folder = f
    BY <1>1, <1>4, RefiledType DEF MoveLinks
<1>6. QED
    BY <1>1, <1>3, <1>5

LEMMA EditLinkUnstars ==
    ASSUME IInv, NEW u \in Urls, NEW v \in Urls, NEW f \in Places, EditLink(u, v, f),
           NEW i \in NewlySpawned
    PROVE  \E w \in Present : links[w].item = i /\ links'[w] = None
<1>1. u \in Present /\ {u} \in SUBSET Present
    BY DEF EditLink, Present
<1>2. PICK t : i \in Leaving({u}, f, t)
    BY DEF EditLink, NewlySpawned
<1>3. links[u].item = i
    BY <1>1, <1>2, LeavingLink
<1>4. links'[u] = None
    BY <1>1 DEF EditLink, IInv, TypeOK
<1>5. QED
    BY <1>1, <1>3, <1>4

LEMMA DeleteUnstars ==
    ASSUME IInv, NEW u \in Urls, DeleteAndUnstar(u), NEW i \in NewlySpawned
    PROVE  \E w \in Present : links[w].item = i /\ links'[w] = None
    BY DEF DeleteAndUnstar, NewlySpawned, Present, IInv, TypeOK

\* The other steps spawn no unstar task.
LEMMA OthersSpawnNothing ==
    ASSUME [Next]_vars,
           ~ \E U \in SUBSET Urls, f \in Places : MoveLinks(U, f),
           ~ \E u, v \in Urls, f \in Places : EditLink(u, v, f),
           ~ \E u \in Urls : DeleteAndUnstar(u)
    PROVE  NewlySpawned = {}
<1>1. ASSUME NEW p \in Passes, PassStep(p)
      PROVE  unstars' = unstars
    BY <1>1 DEF PassStep, StartPass, Acquire, Fetch, FetchFails, NothingStarred, Reconcile,
           OrphanDone, OrphanFailed, Import, ImportFails
<1>2. ASSUME UserStep
      PROVE  unstars' = unstars
    BY <1>2 DEF UserStep, AddLink, DeleteLinks, AddFolder, RenameFolder, DeleteFolder,
           SaveSettings, PurgeFreshRSS, PurgeAll, Star, UnstarByHand
<1>3. ASSUME TaskStep \/ Restart \/ UNCHANGED vars
      PROVE  unstars' \subseteq unstars
    BY <1>3 DEF TaskStep, UnstarDone, UnstarFailed, Restart, vars
<1>4. QED
    BY <1>1, <1>2, <1>3 DEF Next, NewlySpawned

\* A pass that ends has nothing left to unstar.
LEMMA ReleaseOrphansNothing ==
    ASSUME IInv, NEW p \in Passes, Release(p), NEW q \in Passes
    PROVE  NewlyOrphaned(q) = {}
<1>1. pass' = [pass EXCEPT ![p] = IdlePass] /\ pass \in [Passes -> Pass]
    BY DEF Release, IInv, TypeOK
<1>2. IdlePass.orphans = {}
    BY DEF IdlePass
<1>3. pass'[q].orphans \subseteq pass[q].orphans
    BY <1>1, <1>2
<1>4. QED
    BY <1>3 DEF NewlyOrphaned

\* Only Reconcile gives a pass orphans to unstar, and they are filed elsewhere.
LEMMA ReconcileOrphans ==
    ASSUME IInv, NEW p \in Passes, Reconcile(p), NEW q \in Passes, NEW i \in NewlyOrphaned(q)
    PROVE  \E u \in Present : links[u].item = i /\ links[u].folder # pass'[q].folder
<1> DEFINE known == StarredUrls(p) \cap Present
<1>1. PICK f \in Targets(pass[p].cfg) :
        LET c       == pass[p].cfg
            orphans == OrphansOf(f, known)
            saved   == IF c.folder = f THEN config ELSE [config EXCEPT !.folder = f]
        IN  IF orphans # {}
            THEN pass' = [pass EXCEPT ![p].pc = "unstarring", ![p].cfg = saved,
                                      ![p].folder = f, ![p].known = known,
                                      ![p].orphans = orphans]
            ELSE Release(p)
    BY DEF Reconcile
<1>2. pass[p] \in Pass /\ pass \in [Passes -> Pass]
    BY DEF IInv, TypeOK
<1>3. CASE OrphansOf(f, known) = {}
    BY <1>1, <1>3, ReleaseOrphansNothing
<1>4. CASE OrphansOf(f, known) # {}
    <2>1. q = p /\ i \in OrphansOf(f, known) /\ pass'[q].folder = f
        BY <1>1, <1>2, <1>4 DEF NewlyOrphaned, Pass
    <2>2. QED
        BY <2>1 DEF OrphansOf
<1>5. QED
    BY <1>3, <1>4

LEMMA OthersOrphanNothing ==
    ASSUME IInv, [Next]_vars, ~ \E p \in Passes : Reconcile(p), NEW q \in Passes
    PROVE  NewlyOrphaned(q) = {}
<1>1. pass \in [Passes -> Pass]
    BY DEF IInv, TypeOK
<1>2. CASE UserStep \/ TaskStep \/ UNCHANGED vars
    BY <1>2, RequestsLeavePasses DEF vars, NewlyOrphaned
<1>3. CASE Restart
    BY <1>3 DEF Restart, IdlePass, NewlyOrphaned
<1>4. ASSUME NEW p \in Passes, FetchFails(p) \/ NothingStarred(p) \/ Import(p) \/ ImportFails(p)
      PROVE  NewlyOrphaned(q) = {}
    BY <1>4, ReleaseOrphansNothing DEF FetchFails, NothingStarred, Import, ImportFails
<1>5. ASSUME NEW p \in Passes, StartPass(p) \/ Acquire(p)
      PROVE  NewlyOrphaned(q) = {}
    <2>1. pass'[q].orphans \subseteq pass[q].orphans
        <3>1. CASE StartPass(p)
            BY <1>1, <3>1 DEF StartPass, IdlePass
        <3>2. CASE Acquire(p)
            BY <1>1, <3>2 DEF Acquire, Pass
        <3>3. QED
            BY <1>5, <3>1, <3>2
    <2>2. QED
        BY <2>1 DEF NewlyOrphaned
<1>6. ASSUME NEW p \in Passes, NEW S, Fetch(p, S)
      PROVE  NewlyOrphaned(q) = {}
    BY <1>1, <1>6 DEF Fetch, NewlyOrphaned, Pass
<1>7. ASSUME NEW p \in Passes, NEW j \in Items, OrphanDone(p, j) \/ OrphanFailed(p, j)
      PROVE  NewlyOrphaned(q) = {}
    BY <1>1, <1>7 DEF OrphanDone, OrphanFailed, NewlyOrphaned, Pass
<1>8. QED
    BY <1>2, <1>3, <1>4, <1>5, <1>6, <1>7 DEF Next, PassStep

\* For every library, every interleaving of requests, passes and restarts: the
\* program only asks to unstar the article recorded on a link that it leaves
\* or finds outside the tracked folder, or deletes.
THEOREM UnstarsAreOfTheLibrary == Spec => UnstarsComeFromTheLibrary
<1> DEFINE A == /\ \A p \in Passes : \A i \in NewlyOrphaned(p) :
                      \E u \in Present : /\ links[u].item = i
                                        /\ links[u].folder # pass'[p].folder
                /\ \A i \in NewlySpawned :
                      \E u \in Present : /\ links[u].item = i
                                        /\ \/ links'[u] = None
                                           \/ links'[u].folder # links[u].folder
<1>1. IInv /\ [Next]_vars => [A]_vars
    BY ReconcileOrphans, OthersOrphanNothing, MoveLinksUnstars, EditLinkUnstars,
       DeleteUnstars, OthersSpawnNothing
<1>2. Spec => [][A]_vars
    <2> HIDE DEF A
    <2>1. QED
        BY <1>1, Inductive, PTL DEF Spec
<1>3. QED
    BY <1>2 DEF UnstarsComeFromTheLibrary

-----------------------------------------------------------------------------
(* FreshRSSSync implements StarMirror: the initial state is one of its      *)
(* initial states, and every step of a request, an unstar task, a pass or a *)
(* restart is one of its steps or changes nothing it sees.                  *)

\* The articles recorded on the links.
Known == {links[u].item : u \in Present} \ {None}

LEMMA KnownIsRecorded == Abstract!Recorded = Known
  BY DEF Abstract!Recorded, Known, Record, Present

\* No requested change: what the abstract module sees is the same.
SameStars == UNCHANGED <<links, starred, unstars, pass>>

-----------------------------------------------------------------------------
(* Requests *)

\* A request may save, drop and refile links; each article it leaves on a link
\* or asks to unstar was on a link.
LEMMA OrganiseStep ==
    ASSUME IInv, UNCHANGED <<starred, pass>>, unstars \subseteq unstars',
           unstars' \ unstars \subseteq Known,
           \A u \in Urls : links'[u] # None => links'[u].item \in Known \cup {None}
    PROVE  Abstract!Organise
<1>1. Present' \subseteq Urls
  BY DEF Present
<1>2. ASSUME NEW u \in Urls
      PROVE  Record'[u] \in (IF u \in Present' THEN Abstract!Recorded ELSE {}) \cup {None}
  BY <1>2, KnownIsRecorded DEF Record, Present
<1>3. Shown' = Shown
  BY DEF Shown
<1>4. UnderWay \subseteq UnderWay' /\ UnderWay' \ UnderWay \subseteq Abstract!Recorded
  BY KnownIsRecorded DEF UnderWay
<1> QED
  BY <1>1, <1>2, <1>3, <1>4 DEF Abstract!Organise

LEMMA KnownItems ==
    ASSUME NEW u \in Present
    PROVE  links[u].item \in Known \cup {None}
  BY DEF Known

\* The articles that leave the folder are those of links that are filed.
LEMMA LeavingKnown ==
    ASSUME NEW U \in SUBSET Present, NEW f, NEW t
    PROVE  Leaving(U, f, t) \subseteq Known
  BY DEF Leaving, Known

LEMMA AddLinkMirrors ==
    ASSUME IInv, NEW u \in Urls, NEW f \in Places, AddLink(u, f)
    PROVE  Abstract!Organise
<1>1. links' = [links EXCEPT ![u] = [folder |-> f, item |-> None]]
  BY DEF AddLink
<1>2. \A v \in Urls : links'[v] # None => links'[v].item \in Known \cup {None}
  BY <1>1, KnownItems DEF Present, IInv, TypeOK
<1> QED
  BY <1>2, OrganiseStep DEF AddLink

LEMMA MoveLinksMirrors ==
    ASSUME IInv, NEW U \in SUBSET Urls, NEW f \in Places, MoveLinks(U, f)
    PROVE  Abstract!Organise
<1>1. U \subseteq Present /\ f \in FolderIds \cup {None}
  BY TypeFacts DEF MoveLinks, Places
<1>2. \A v \in U : [links[v] EXCEPT !.folder = f].item = links[v].item
  BY <1>1, TypeFacts, RefiledType
<1>3. \A v \in Urls : links'[v] # None => links'[v].item \in Known \cup {None}
  BY <1>1, <1>2, KnownItems DEF MoveLinks, Present
<1>4. unstars \subseteq unstars' /\ unstars' \ unstars \subseteq Known
  BY <1>1, LeavingKnown DEF MoveLinks
<1> QED
  BY <1>3, <1>4, OrganiseStep DEF MoveLinks

LEMMA EditLinkMirrors ==
    ASSUME IInv, NEW u \in Urls, NEW v \in Urls, NEW f \in Places, EditLink(u, v, f)
    PROVE  Abstract!Organise
<1>1. u \in Present /\ {u} \in SUBSET Present /\ f \in FolderIds \cup {None}
  BY TypeFacts DEF EditLink, Places, Present
<1>2. [links[u] EXCEPT !.folder = f].item = links[u].item
  BY <1>1, TypeFacts, RefiledType
<1>3. links' = [links EXCEPT ![u] = None, ![v] = [links[u] EXCEPT !.folder = f]]
  BY DEF EditLink
<1>4. \A w \in Urls : links'[w] # None => links'[w].item \in Known \cup {None}
  BY <1>1, <1>2, <1>3, KnownItems DEF Present, IInv, TypeOK
<1>5. unstars \subseteq unstars' /\ unstars' \ unstars \subseteq Known
  BY <1>1, LeavingKnown DEF EditLink
<1> QED
  BY <1>4, <1>5, OrganiseStep DEF EditLink

LEMMA DeleteMirrors ==
    ASSUME IInv, \/ \E u \in Urls : DeleteAndUnstar(u)
                 \/ \E U \in SUBSET Urls : DeleteLinks(U)
    PROVE  Abstract!Organise
<1>1. \A w \in Urls : links'[w] # None => links'[w] = links[w]
  BY DEF DeleteAndUnstar, DeleteLinks, IInv, TypeOK
<1>2. \A w \in Urls : links'[w] # None => links'[w].item \in Known \cup {None}
  BY <1>1, KnownItems DEF Present
<1>3. unstars \subseteq unstars' /\ unstars' \ unstars \subseteq Known
  BY DEF DeleteAndUnstar, DeleteLinks, Known, Present
<1> QED
  BY <1>2, <1>3, OrganiseStep DEF DeleteAndUnstar, DeleteLinks

\* Emptying a folder drops links, or refiles them.
LEMMA EmptiedItems ==
    ASSUME IInv, NEW f, NEW drop \in BOOLEAN, NEW u \in Urls, Emptied(f, drop)[u] # None
    PROVE  Emptied(f, drop)[u].item \in Known \cup {None}
<1>1. u \in Present
  BY DEF Emptied, Present
<1>2. links[u] \in Link
  BY <1>1, TypeFacts
<1>3. [links[u] EXCEPT !.folder = None].item = links[u].item
  BY <1>2 DEF Link
<1> QED
  BY <1>1, <1>3, KnownItems DEF Emptied

LEMMA FolderRequestMirrors ==
    ASSUME IInv, \/ \E f \in FolderIds, drop \in BOOLEAN : DeleteFolder(f, drop)
                 \/ PurgeFreshRSS
                 \/ PurgeAll
    PROVE  Abstract!Organise
<1>1. \A u \in Urls : links'[u] # None => links'[u].item \in Known \cup {None}
  <2>1. ASSUME NEW f \in FolderIds, NEW drop \in BOOLEAN, DeleteFolder(f, drop)
        PROVE  \A u \in Urls : links'[u] # None => links'[u].item \in Known \cup {None}
    BY <2>1, EmptiedItems DEF DeleteFolder
  <2>2. CASE PurgeFreshRSS
    <3>1. links' = links \/ \E t : links' = Emptied(t, TRUE)
      BY <2>2 DEF PurgeFreshRSS
    <3> QED
      BY <3>1, EmptiedItems, KnownItems DEF Present
  <2>3. CASE PurgeAll
    BY <2>3 DEF PurgeAll
  <2> QED
    BY <2>1, <2>2, <2>3
<1> QED
  BY <1>1, OrganiseStep DEF DeleteFolder, PurgeFreshRSS, PurgeAll

\* A request of the user, or a hand on the server.
LEMMA UserStepMirrors ==
    ASSUME IInv, UserStep
    PROVE  Abstract!Next \/ SameStars
<1>1. ASSUME NEW i \in Items, Star(i) \/ UnstarByHand(i)
      PROVE  Abstract!ByHand(i)
  BY <1>1 DEF Star, UnstarByHand, Abstract!ByHand, Present, Record, Shown, UnderWay
<1>2. ASSUME \/ \E n \in Names : AddFolder(n) \/ SaveSettings(n)
             \/ \E f \in FolderIds, n \in Names : RenameFolder(f, n)
      PROVE  SameStars
  BY <1>2 DEF AddFolder, SaveSettings, RenameFolder, SameStars
<1> QED
  BY <1>1, <1>2, AddLinkMirrors, MoveLinksMirrors, EditLinkMirrors, DeleteMirrors,
     FolderRequestMirrors DEF UserStep, Abstract!Next

-----------------------------------------------------------------------------
(* Unstar tasks, restarts and passes *)

LEMMA TaskStepMirrors ==
    ASSUME IInv, TaskStep
    PROVE  Abstract!Next
<1>1. ASSUME NEW i \in Items, UnstarDone(i)
      PROVE  Abstract!Unstar(i)
  BY <1>1 DEF UnstarDone, Abstract!Unstar, Present, Record, Shown, UnderWay
<1>2. ASSUME NEW i \in Items, UnstarFailed(i)
      PROVE  Abstract!GiveUp
  BY <1>2 DEF UnstarFailed, Abstract!GiveUp, Present, Record, Shown, UnderWay
<1> QED
  BY <1>1, <1>2 DEF TaskStep, Abstract!Next

LEMMA RestartMirrors ==
    ASSUME IInv, Restart
    PROVE  Abstract!GiveUp
<1>1. Shown' = {} /\ UnderWay' = {}
  BY DEF Restart, Shown, UnderWay, IdlePass
<1> QED
  BY <1>1 DEF Restart, Abstract!GiveUp, Present, Record

\* What one pass changes of what is shown and under way.
LEMMA OnePassMoves ==
    ASSUME IInv, NEW p \in Passes, NEW s, pass' = [pass EXCEPT ![p] = s], UNCHANGED unstars
    PROVE  /\ Shown' \subseteq Shown \cup s.fetched
           /\ UnderWay' \subseteq UnderWay \cup s.orphans
           /\ \A i : i \in UnderWay /\ i \notin pass[p].orphans => i \in UnderWay'
<1>1. /\ pass'[p] = s
      /\ \A q \in Passes : q # p => pass'[q] = pass[q]
  BY DEF IInv, TypeOK
<1>2. Shown' \subseteq Shown \cup s.fetched
  BY <1>1 DEF Shown
<1>3. UnderWay' \subseteq UnderWay \cup s.orphans
  BY <1>1 DEF UnderWay
<1>4. \A i : i \in UnderWay /\ i \notin pass[p].orphans => i \in UnderWay'
  BY <1>1 DEF UnderWay
<1> QED
  BY <1>2, <1>3, <1>4

LEMMA ReleaseGivesUp ==
    ASSUME IInv, NEW p \in Passes, Release(p), UNCHANGED unstars
    PROVE  Shown' \subseteq Shown /\ UnderWay' \subseteq UnderWay
<1>1. pass' = [pass EXCEPT ![p] = IdlePass]
  BY DEF Release
<1>2. IdlePass.fetched = {} /\ IdlePass.orphans = {}
  BY DEF IdlePass
<1> QED
  BY <1>1, <1>2, OnePassMoves

\* The steps of a pass that write nothing.
LEMMA QuietStepMirrors ==
    ASSUME IInv, NEW p \in Passes,
           \/ StartPass(p) \/ Acquire(p) \/ FetchFails(p) \/ NothingStarred(p)
           \/ ImportFails(p) \/ \E i \in Items : OrphanFailed(p, i)
    PROVE  Abstract!GiveUp
<1>1. UNCHANGED <<links, starred, unstars>>
  BY DEF StartPass, Acquire, FetchFails, NothingStarred, ImportFails, OrphanFailed
<1>2. Shown' \subseteq Shown /\ UnderWay' \subseteq UnderWay
  <2>1. pass[p] \in Pass
    BY DEF IInv, TypeOK
  <2>2. CASE StartPass(p)
    <3> DEFINE s == [IdlePass EXCEPT !.pc = "waiting", !.cfg = config]
    <3>1. pass' = [pass EXCEPT ![p] = s] /\ s.fetched = {} /\ s.orphans = {}
      BY <2>2 DEF StartPass, IdlePass
    <3> QED
      BY <1>1, <3>1, OnePassMoves
  <2>3. CASE Acquire(p)
    <3> DEFINE s == [pass[p] EXCEPT !.pc = "fetching", !.cfg = config]
    <3>1. /\ pass' = [pass EXCEPT ![p] = s]
          /\ s.fetched = pass[p].fetched /\ s.orphans = pass[p].orphans
      BY <2>1, <2>3 DEF Acquire, IInv, TypeOK, Pass
    <3> HIDE DEF s
    <3>2. pass[p].fetched \subseteq Shown /\ pass[p].orphans \subseteq UnderWay
      BY DEF Shown, UnderWay
    <3> QED
      BY <1>1, <3>1, <3>2, OnePassMoves
  <2>4. ASSUME NEW i \in Items, OrphanFailed(p, i)
        PROVE  Shown' \subseteq Shown /\ UnderWay' \subseteq UnderWay
    <3> DEFINE s == [pass[p] EXCEPT !.orphans = @ \ {i}]
    <3>1. /\ pass' = [pass EXCEPT ![p] = s]
          /\ s.fetched = pass[p].fetched /\ s.orphans \subseteq pass[p].orphans
      BY <2>1, <2>4 DEF OrphanFailed, IInv, TypeOK, Pass
    <3> HIDE DEF s
    <3>2. pass[p].fetched \subseteq Shown /\ pass[p].orphans \subseteq UnderWay
      BY DEF Shown, UnderWay
    <3> QED
      BY <1>1, <3>1, <3>2, OnePassMoves
  <2>5. CASE FetchFails(p) \/ NothingStarred(p) \/ ImportFails(p)
    BY <1>1, <2>5, ReleaseGivesUp DEF FetchFails, NothingStarred, ImportFails
  <2> QED
    BY <2>2, <2>3, <2>4, <2>5
<1> QED
  BY <1>1, <1>2 DEF Abstract!GiveUp, Present, Record

LEMMA FetchMirrors ==
    ASSUME IInv, NEW p \in Passes, NEW S \in SUBSET Items, Fetch(p, S)
    PROVE  Abstract!Show
<1> DEFINE s == [pass[p] EXCEPT !.pc = "fetched", !.fetched = S]
<1>1. pass[p] \in Pass
  BY DEF IInv, TypeOK
<1>2. pass' = [pass EXCEPT ![p] = s] /\ s.fetched = S /\ s.orphans = pass[p].orphans
  BY <1>1 DEF Fetch, IInv, TypeOK, Pass
<1> HIDE DEF s
<1>3. \A q \in Passes : pass'[q].orphans = pass[q].orphans
  BY <1>2 DEF IInv, TypeOK
<1>4. UnderWay' = UnderWay
  BY <1>3 DEF Fetch, UnderWay
<1>5. Shown' \subseteq Shown \cup S
  BY <1>2, OnePassMoves DEF Fetch
<1> QED
  BY <1>4, <1>5 DEF Fetch, Abstract!Show, Present, Record

LEMMA OrphanDoneMirrors ==
    ASSUME IInv, NEW p \in Passes, NEW i \in Items, OrphanDone(p, i)
    PROVE  Abstract!Unstar(i)
<1> DEFINE s == [pass[p] EXCEPT !.orphans = @ \ {i}]
<1>1. pass[p] \in Pass
  BY DEF IInv, TypeOK
<1>2. /\ pass' = [pass EXCEPT ![p] = s]
      /\ s.fetched = pass[p].fetched /\ s.orphans = pass[p].orphans \ {i}
  BY <1>1 DEF OrphanDone, IInv, TypeOK, Pass
<1> HIDE DEF s
<1>3. /\ \A q \in Passes : pass'[q].fetched = pass[q].fetched
      /\ \A q \in Passes : q # p => pass'[q].orphans = pass[q].orphans
      /\ pass'[p].orphans = pass[p].orphans \ {i}
  BY <1>2 DEF IInv, TypeOK
<1>4. Shown' = Shown
  BY <1>3 DEF Shown
<1>5. i \in UnderWay
  BY DEF OrphanDone, UnderWay
<1>6. UnderWay \ {i} \subseteq UnderWay' /\ UnderWay' \subseteq UnderWay
  BY <1>3 DEF OrphanDone, UnderWay
<1> QED
  BY <1>4, <1>5, <1>6 DEF OrphanDone, Abstract!Unstar, Present, Record

\* A step that only inserts links and fills missing articles, with articles the
\* server has shown for their address, mirrors them.
LEMMA MirrorStep ==
    ASSUME IInv, NEW p \in Passes, NEW g \in ItemChoices(p),
           UNCHANGED starred, Shown' \subseteq Shown, UnderWay' \ UnderWay \subseteq Known,
           \A u \in Urls :
              \/ links'[u] = links[u]
              \/ /\ u \in StarredUrls(p)
                 /\ links'[u] # None /\ links'[u].item = g[u]
                 /\ links[u] # None => links[u].item = None
    PROVE  Abstract!Mirror
<1>1. Present \subseteq Present' /\ Present' \subseteq Urls
  BY DEF Present
<1>2. ASSUME NEW u \in StarredUrls(p)
      PROVE  g[u] \in Shown /\ UrlOf[g[u]] = u
  BY <1>2 DEF ItemChoices, Shown
<1>3. ASSUME NEW u \in Urls
      PROVE  \/ Record'[u] = Record[u] /\ (u \in Present' => u \in Present)
             \/ /\ u \in Present' /\ Record[u] = None
                /\ Record'[u] \in Shown /\ UrlOf[Record'[u]] = u
  <2>1. CASE links'[u] = links[u]
    BY <2>1 DEF Record, Present
  <2>2. CASE /\ u \in StarredUrls(p)
             /\ links'[u] # None /\ links'[u].item = g[u]
             /\ links[u] # None => links[u].item = None
    <3>1. Record[u] = None /\ Record'[u] = g[u] /\ u \in Present'
      BY <2>2 DEF Record, Present
    <3> QED
      BY <1>2, <2>2, <3>1
  <2> QED
    BY <2>1, <2>2
<1> QED
  BY <1>1, <1>3, KnownIsRecorded DEF Abstract!Mirror

LEMMA ImportMirrors ==
    ASSUME IInv, NEW p \in Passes, Import(p)
    PROVE  Abstract!Mirror
<1> DEFINE new == StarredUrls(p) \ pass[p].known
<1>1. PICK g \in ItemChoices(p) : links' = Imported(links, new, pass[p].folder, g)
  BY DEF Import
<1>2. new \cap Present = {} /\ UNCHANGED <<starred, unstars>> /\ Release(p)
  BY DEF Import
<1>3. ASSUME NEW u \in Urls
      PROVE  \/ links'[u] = links[u]
             \/ /\ u \in StarredUrls(p)
                /\ links'[u] # None /\ links'[u].item = g[u]
                /\ links[u] # None => links[u].item = None
  <2>1. CASE u \notin new
    BY <1>1, <2>1 DEF Imported
  <2>2. CASE u \in new
    <3>1. links'[u] = [folder |-> pass[p].folder, item |-> g[u]] /\ links[u] = None
      BY <1>1, <1>2, <2>2 DEF Imported, Present
    <3>2. pass[p].folder \in FolderIds /\ g[u] \in Items
      BY <2>2 DEF Import, Existing, ItemChoices, IInv, TypeOK, Pass
    <3> QED
      BY <2>2, <3>1, <3>2, ConstantsAssumption DEF Link
  <2> QED
    BY <2>1, <2>2
<1>4. Shown' \subseteq Shown /\ UnderWay' \subseteq UnderWay
  BY <1>2, ReleaseGivesUp
<1> HIDE DEF new
<1> QED
  BY <1>2, <1>3, <1>4, MirrorStep

\* What Reconcile(p) writes into the links, for the folder and the articles it
\* chose; the first of them is already filled when the second is computed.
Filled(p, f, g) == Backfilled(f, StarredUrls(p) \cap Present, g)
Created(p, f, g) ==
    Imported(Filled(p, f, g), StarredUrls(p) \ (StarredUrls(p) \cap Present), f, g)

\* Filling the missing articles and inserting the missing links.
LEMMA ReconciledRows ==
    ASSUME IInv, NEW p \in Passes, NEW f \in FolderIds, NEW g \in ItemChoices(p),
           NEW u \in Urls
    PROVE  /\ \/ Filled(p, f, g)[u] = links[u]
              \/ /\ u \in StarredUrls(p)
                 /\ Filled(p, f, g)[u] # None /\ Filled(p, f, g)[u].item = g[u]
                 /\ links[u] # None => links[u].item = None
           /\ \/ Created(p, f, g)[u] = links[u]
              \/ /\ u \in StarredUrls(p)
                 /\ Created(p, f, g)[u] # None /\ Created(p, f, g)[u].item = g[u]
                 /\ links[u] # None => links[u].item = None
<1>1. u \in StarredUrls(p) => g[u] \in Items
  BY DEF ItemChoices, IInv, TypeOK, Pass
<1>2. ASSUME NEW l \in Link, NEW i \in Items
      PROVE  [l EXCEPT !.item = i] \in Link /\ [l EXCEPT !.item = i].item = i
  BY <1>2 DEF Link
<1>3. u \in Present => links[u] \in Link
  BY TypeFacts
<1>4. \/ Filled(p, f, g)[u] = links[u]
      \/ /\ u \in StarredUrls(p) \cap Present
         /\ Filled(p, f, g)[u] \in Link /\ Filled(p, f, g)[u].item = g[u]
         /\ links[u].item = None
  BY <1>1, <1>2, <1>3 DEF Filled, Backfilled
<1>5. u \in StarredUrls(p) \ (StarredUrls(p) \cap Present) =>
        /\ Created(p, f, g)[u] \in Link /\ Created(p, f, g)[u].item = g[u]
        /\ links[u] = None
  BY <1>1 DEF Created, Imported, Link, Present
<1>6. u \notin StarredUrls(p) \ (StarredUrls(p) \cap Present) =>
        Created(p, f, g)[u] = Filled(p, f, g)[u]
  BY DEF Created, Imported
<1> QED
  BY <1>4, <1>5, <1>6, ConstantsAssumption

LEMMA OrphansKnown ==
    ASSUME NEW f, NEW known \in SUBSET Present
    PROVE  OrphansOf(f, known) \subseteq Known
  BY DEF OrphansOf, Known

LEMMA ReconcileMirrors ==
    ASSUME IInv, NEW p \in Passes, Reconcile(p)
    PROVE  Abstract!Mirror
<1> DEFINE known == StarredUrls(p) \cap Present
<1>1. PICK f \in Targets(pass[p].cfg), g \in ItemChoices(p) :
        LET c       == pass[p].cfg
            orphans == OrphansOf(f, known)
            saved   == IF c.folder = f THEN config ELSE [config EXCEPT !.folder = f]
        IN  IF orphans # {}
            THEN /\ links' = Filled(p, f, g)
                 /\ pass' = [pass EXCEPT ![p].pc = "unstarring", ![p].cfg = saved,
                                         ![p].folder = f, ![p].known = known,
                                         ![p].orphans = orphans]
            ELSE links' = Created(p, f, g) /\ Release(p)
  BY DEF Reconcile, Filled, Created
<1>2. f \in FolderIds
  BY TargetsType DEF IInv, TypeOK, Pass
<1>3. UNCHANGED <<starred, unstars>>
  BY DEF Reconcile
<1>4. \A u \in Urls :
        \/ links'[u] = links[u]
        \/ /\ u \in StarredUrls(p)
           /\ links'[u] # None /\ links'[u].item = g[u]
           /\ links[u] # None => links[u].item = None
  BY <1>1, <1>2, ReconciledRows
<1>5. CASE OrphansOf(f, known) = {}
  BY <1>1, <1>3, <1>4, <1>5, ReleaseGivesUp, MirrorStep
<1>6. CASE OrphansOf(f, known) # {}
  <2>1. pass[p] \in Pass
    BY DEF IInv, TypeOK
  <2>2. PICK s : /\ pass' = [pass EXCEPT ![p] = s]
                 /\ s.fetched = pass[p].fetched /\ s.orphans = OrphansOf(f, known)
    <3> DEFINE saved == IF pass[p].cfg.folder = f THEN config
                                                  ELSE [config EXCEPT !.folder = f]
               s == [pass[p] EXCEPT !.pc = "unstarring", !.cfg = saved, !.folder = f,
                                    !.known = known, !.orphans = OrphansOf(f, known)]
    <3>1. s.fetched = pass[p].fetched /\ s.orphans = OrphansOf(f, known)
      BY <2>1 DEF Pass
    <3>2. pass' = [pass EXCEPT ![p] = s]
      BY <1>1, <1>6 DEF IInv, TypeOK
    <3> QED
      BY <3>1, <3>2
  <2>3. pass[p].fetched \subseteq Shown
    BY DEF Shown
  <2>4. Shown' \subseteq Shown /\ UnderWay' \ UnderWay \subseteq Known
    <3>1. Shown' \subseteq Shown \cup s.fetched /\ UnderWay' \subseteq UnderWay \cup s.orphans
      BY <1>3, <2>2, OnePassMoves
    <3>2. s.orphans \subseteq Known
      <4>1. known \in SUBSET Present
        OBVIOUS
      <4> QED
        BY <2>2, <4>1, OrphansKnown
    <3> QED
      BY <2>2, <2>3, <3>1, <3>2
  <2> QED
    BY <1>3, <1>4, <2>4, MirrorStep
<1> QED
  BY <1>5, <1>6

-----------------------------------------------------------------------------
(* The theorem *)

LEMMA PassStepMirrors ==
    ASSUME IInv, NEW p \in Passes, PassStep(p)
    PROVE  Abstract!Next
  BY QuietStepMirrors, FetchMirrors, OrphanDoneMirrors, ImportMirrors, ReconcileMirrors
     DEF PassStep, Abstract!Next

LEMMA InitMirrors == Init => Abstract!Init
<1> SUFFICES ASSUME Init PROVE Abstract!Init
  OBVIOUS
<1>1. Shown = {} /\ UnderWay = {}
  BY DEF Init, Shown, UnderWay, IdlePass
<1> QED
  BY <1>1 DEF Init, Abstract!Init, Present, Record

\* What StarMirror sees is a function of four of the variables.
LEMMA SameStarsStutter ==
    ASSUME SameStars
    PROVE  UNCHANGED Abstract!vars
  BY DEF SameStars, Abstract!vars, Present, Record, Shown, UnderWay

LEMMA StepMirrors == IInv /\ [Next]_vars => [Abstract!Next]_(Abstract!vars)
<1> SUFFICES ASSUME IInv, [Next]_vars
             PROVE  [Abstract!Next]_(Abstract!vars)
  OBVIOUS
<1>1. ASSUME UNCHANGED vars
      PROVE  SameStars
  BY <1>1 DEF vars, SameStars
<1>2. CASE Restart
  BY <1>2, RestartMirrors DEF Abstract!Next
<1> QED
  BY <1>1, <1>2, UserStepMirrors, TaskStepMirrors, PassStepMirrors, SameStarsStutter
     DEF Next

\* For every account, whatever its passes, requests, unstar tasks and restarts
\* interleave: the library and the stars behave as StarMirror says.
THEOREM MirrorHolds == Spec => MirrorsTheStars
<1>1. Spec => [][Abstract!Next]_(Abstract!vars)
  BY StepMirrors, Inductive, PTL DEF Spec
<1>2. Spec => Abstract!Spec
  BY <1>1, InitMirrors, PTL DEF Spec, Abstract!Spec
<1> QED
  BY <1>2 DEF MirrorsTheStars
=============================================================================
