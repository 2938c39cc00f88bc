------------------------- MODULE ProcessMemoryProofs -------------------------
(***************************************************************************)
(* The quotas hold for every set of clients and routes, every quota and    *)
(* period of each route, and every cleanup interval.  The two caches keep  *)
(* their caps for every set of images and hosts, every cap in entries and  *)
(* in bytes, and any number of fetches and lookups at once.                *)
(***************************************************************************)
EXTENDS ProcessMemory, TLAPS, FiniteSetTheorems, SequenceTheorems, WellFoundedInduction

(* The request counter *)

\* Each key is stored with the period of its route, which is the one its
\* limiter prunes with and the one a cleanup caused by another route must use.
PeriodsAgree ==
    \A k \in Keys : calls[k] # None => calls[k].period = Period[k[2]]

\* What is proved by induction.
LimitInv ==
    /\ TypeOK
    /\ PeriodsAgree
    /\ WindowIsExact
    /\ \A q \in Keys \X Limiters : IsFiniteSet(recent[q])
    /\ QuotaHolds

-----------------------------------------------------------------------------

LEMMA KeysRoute == \A k \in Keys : k[2] \in Routes
  BY DEF Keys

\* A route has one limiter or two, and a quota for each.
LEMMA Quotas ==
  ASSUME NEW k \in Keys
  PROVE  /\ Period[k[2]] \in Nat \ {0}
         /\ \A i \in Limiters : i <= Len(Calls[k[2]]) => Calls[k[2]][i] \in Nat \ {0}
  <1> DEFINE quotas == Calls[k[2]]
  <1>1. quotas \in Seq(Nat \ {0}) /\ Period[k[2]] \in Nat \ {0}
    BY KeysRoute, LimitAssumption
  <1> HIDE DEF quotas
  <1>2. \A i \in Limiters : i <= Len(quotas) => quotas[i] \in Nat \ {0}
    BY <1>1 DEF Limiters
  <1> QED
    BY <1>1, <1>2 DEF quotas

\* A cleanup keeps the types and the periods of the table.
LEMMA SweptTyped ==
  ASSUME NEW table \in [Keys -> Entry \cup {None}], NEW k \in Keys
  PROVE  /\ Swept(table, k) \in [Keys -> Entry \cup {None}]
         /\ \A j \in Keys : Swept(table, k)[j] \in {table[j], None}
  BY DEF Swept

\* A cleanup removes no key that has a call in its own last period.
LEMMA SweptKeepsActive ==
  ASSUME NEW table \in [Keys -> Entry \cup {None}], NEW k \in Keys, NEW j \in Keys,
         table[j] # None, NEW s \in table[j].stamps, now < s.time + table[j].period,
         now \in Nat
  PROVE  Swept(table, k)[j] = table[j]
  <1>1. s \in Stamp /\ table[j].period \in Nat
    BY DEF Entry
  <1>2. ~(now >= s.time + table[j].period)
    BY <1>1 DEF Stamp
  <1> QED
    BY <1>2 DEF Swept

LEMMA InitLimitInv == Init => LimitInv
  <1> SUFFICES ASSUME Init PROVE LimitInv
    OBVIOUS
  <1>1. TypeOK
    BY LimitAssumption DEF Init, TypeOK
  <1>2. \A q \in Keys \X Limiters : recent[q] = {}
    BY DEF Init
  <1>3. PeriodsAgree /\ WindowIsExact
    <2>1. \A k \in Keys : Window(k) = {} /\ calls[k] = None
      BY DEF Init, Window
    <2>2. \A k \in Keys : recent[<<k, 1>>] = {} /\ recent[<<k, 2>>] = {}
      BY <1>2 DEF Limiters
    <2> QED
      BY <2>1, <2>2 DEF PeriodsAgree, WindowIsExact, Accepted
  <1>4. \A q \in Keys \X Limiters : IsFiniteSet(recent[q]) /\ Cardinality(recent[q]) = 0
    BY <1>2, FS_EmptySet
  <1>5. QuotaHolds
    <2> SUFFICES ASSUME NEW k \in Keys, NEW i \in Limiters, i <= Len(Calls[k[2]])
                 PROVE  Cardinality(recent[<<k, i>>]) <= Calls[k[2]][i]
      BY DEF QuotaHolds
    <2>1. Calls[k[2]][i] \in Nat \ {0}
      BY Quotas
    <2>2. Cardinality(recent[<<k, i>>]) = 0
      BY <1>4
    <2> QED
      BY <2>1, <2>2
  <1> QED
    BY <1>1, <1>3, <1>4, <1>5 DEF LimitInv

\* A limiter's history, and the window, are of stamps.
LEMMA HistoryType ==
  ASSUME TypeOK, NEW k \in Keys, NEW i \in Limiters
  PROVE  recent[<<k, i>>] \in SUBSET Stamp /\ <<k, i>> \in Keys \X Limiters
  BY DEF TypeOK

LEMMA TickLimitInv ==
  ASSUME LimitInv, Tick
  PROVE  LimitInv'
  <1> USE DEF LimitInv
  <1>a. now \in Nat /\ now' = now + 1
    BY LimitAssumption DEF TypeOK, Tick
  <1>b. \A k \in Keys, i \in Limiters :
           recent'[<<k, i>>] = {s \in recent[<<k, i>>] : now + 1 < s.time + Period[k[2]]}
    BY DEF Tick
  <1>1. TypeOK'
    <2>1. now' \in 0 .. MaxTime
      BY LimitAssumption DEF TypeOK, Tick
    <2>2. recent' \in [Keys \X Limiters -> SUBSET Stamp]
      BY DEF TypeOK, Tick
    <2> QED
      BY <2>1, <2>2 DEF TypeOK, Tick
  <1>2. PeriodsAgree'
    BY DEF PeriodsAgree, Tick
  <1>3. WindowIsExact'
    <2> SUFFICES ASSUME NEW k \in Keys
                 PROVE  /\ Window(k)' = Accepted(k)'
                        /\ recent'[<<k, 1>>] \cap recent'[<<k, 2>>] = {}
      BY DEF WindowIsExact
    <2>1. Accepted(k)' = {s \in Accepted(k) : now + 1 < s.time + Period[k[2]]}
      BY <1>b DEF Accepted, Limiters
    <2>2. Accepted(k) = Window(k) /\ recent[<<k, 1>>] \cap recent[<<k, 2>>] = {}
      BY DEF WindowIsExact
    <2>3. CASE calls[k] = None
      BY <1>b, <2>1, <2>2, <2>3 DEF Window, Tick, Limiters
    <2>4. CASE calls[k] # None
      <3>1. calls[k] \in Entry
        BY <2>4 DEF TypeOK
      <3>2. Accepted(k) = {s \in calls[k].stamps : now < s.time + Period[k[2]]}
        BY <2>2, <2>4 DEF Window, Within
      <3>3. Window(k)' = {s \in calls[k].stamps : now + 1 < s.time + Period[k[2]]}
        BY <2>4 DEF Window, Within, Tick
      <3>4. \A s \in calls[k].stamps :
               now + 1 < s.time + Period[k[2]] => now < s.time + Period[k[2]]
        BY <3>1, <1>a, Quotas DEF Entry, Stamp
      <3>5. Window(k)' = Accepted(k)'
        BY <2>1, <3>2, <3>3, <3>4
      <3> QED
        BY <1>b, <2>2, <3>5 DEF Limiters
    <2> QED
      BY <2>3, <2>4
  <1>4. \A q \in Keys \X Limiters :
           IsFiniteSet(recent'[q]) /\ Cardinality(recent'[q]) <= Cardinality(recent[q])
    <2> SUFFICES ASSUME NEW q \in Keys \X Limiters
                 PROVE  IsFiniteSet(recent'[q]) /\ Cardinality(recent'[q]) <= Cardinality(recent[q])
      OBVIOUS
    <2>1. recent'[q] \subseteq recent[q]
      BY DEF Tick
    <2> QED
      BY <2>1, FS_Subset
  <1>5. QuotaHolds'
    <2> SUFFICES ASSUME NEW k \in Keys, NEW i \in Limiters, i <= Len(Calls[k[2]])
                 PROVE  Cardinality(recent'[<<k, i>>]) <= Calls[k[2]][i]
      BY DEF QuotaHolds
    <2>1. <<k, i>> \in Keys \X Limiters /\ Calls[k[2]][i] \in Nat \ {0}
      BY Quotas
    <2>2. Cardinality(recent[<<k, i>>]) \in Nat /\ Cardinality(recent'[<<k, i>>]) \in Nat
      BY <1>4, <2>1, FS_CardinalityType
    <2>3. Cardinality(recent[<<k, i>>]) <= Calls[k[2]][i]
      BY DEF QuotaHolds
    <2>4. Cardinality(recent'[<<k, i>>]) <= Cardinality(recent[<<k, i>>])
      BY <1>4, <2>1
    <2> QED
      BY <2>1, <2>2, <2>3, <2>4
  <1> QED
    BY <1>1, <1>2, <1>3, <1>4, <1>5

\* A request that ends between two limiters leaves no trace.
LEMMA LeaveLimitInv ==
  ASSUME LimitInv, NEW k \in Keys, Leave(k)
  PROVE  LimitInv'
  <1> USE DEF LimitInv
  <1>1. inside[k] - 1 \in 0 .. MaxInside
    BY LimitAssumption DEF Leave, TypeOK
  <1>2. TypeOK'
    BY <1>1 DEF Leave, TypeOK
  <1> QED
    BY <1>2 DEF Leave, PeriodsAgree, WindowIsExact, Window, Accepted, QuotaHolds

\* The count of the requests between two limiters keeps its type.
LEMMA PassedType ==
  ASSUME TypeOK, NEW k \in Keys, NEW i \in Limiters, Accept(k, i)
  PROVE  inside' \in [Keys -> 0 .. MaxInside]
  <1>1. inside[k] \in 0 .. MaxInside /\ MaxInside \in Nat
    BY LimitAssumption DEF TypeOK
  <1>2. Passed(k, i) \in {inside[k] - 1, inside[k] + 1, inside[k]}
        /\ (Passed(k, i) = inside[k] - 1 => i = 2 \/ inside[k] > 0)
    BY <1>1 DEF Passed
  <1>3. Passed(k, i) \in 0 .. MaxInside
    <2>1. Passed(k, i) <= MaxInside /\ (i = 2 => inside[k] > 0)
      BY DEF Accept
    <2> QED
      BY <1>1, <1>2, <2>1
  <1> QED
    BY <1>3 DEF Accept, TypeOK

\* A call of key k accepted by limiter i.
LEMMA AcceptLimitInv ==
  ASSUME LimitInv, NEW k \in Keys, NEW i \in Limiters, Accept(k, i)
  PROVE  LimitInv'
  <1> USE DEF LimitInv
  <1> DEFINE stampOf(n) == [time |-> now, serial |-> n]
             entryOf(n) == [period |-> Period[k[2]], stamps |-> Window(k) \cup {stampOf(n)}]
             tableOf(n) == [calls EXCEPT ![k] = entryOf(n)]
  <1>1. PICK n \in 1 .. Calls[k[2]][i] :
           /\ IsNextSerial(k, n)
           /\ calls' = IF counter' = 0 THEN Swept(tableOf(n), k) ELSE tableOf(n)
           /\ recent' = [recent EXCEPT ![<<k, i>>] = @ \cup {stampOf(n)}]
    BY DEF Accept
  <1> DEFINE stamp == stampOf(n)
             entry == entryOf(n)
             table == tableOf(n)
  <1>n. stamp \notin Window(k)
    BY <1>1 DEF IsNextSerial
  <1> HIDE DEF stampOf, entryOf, tableOf
  <1>q. i <= Len(Calls[k[2]])
    BY DEF Accept
  <1>a. /\ k[2] \in Routes /\ Calls[k[2]][i] \in Nat \ {0} /\ Period[k[2]] \in Nat \ {0}
        /\ now \in Nat /\ now' = now
    BY <1>q, Quotas, KeysRoute, LimitAssumption DEF TypeOK, Accept
  <1>b. stamp \in Stamp /\ stamp.time = now
    <2>1. n \in Nat
      BY <1>a
    <2> QED
      BY <1>a, <2>1 DEF stampOf, Stamp
  <1>c. Window(k) \subseteq Stamp
    <2>1. Window(k) = Accepted(k)
      BY DEF WindowIsExact
    <2> QED
      BY <2>1, HistoryType DEF Accepted, Limiters
  <1>r. /\ recent'[<<k, i>>] = recent[<<k, i>>] \cup {stamp}
        /\ \A q \in Keys \X Limiters : q # <<k, i>> => recent'[q] = recent[q]
    BY <1>1 DEF TypeOK
  <1>d. entry \in Entry /\ entry.period = Period[k[2]] /\ entry.stamps = Window(k) \cup {stamp}
    BY <1>a, <1>b, <1>c DEF entryOf, Entry
  <1>e. table \in [Keys -> Entry \cup {None}] /\ table[k] = entry
        /\ \A j \in Keys \ {k} : table[j] = calls[j]
    BY <1>d DEF tableOf, TypeOK
  <1>f. entry # None
    BY <1>d, NoneIsNoEntry
  <1>g. calls' \in [Keys -> Entry \cup {None}] /\ \A j \in Keys : calls'[j] \in {table[j], None}
    BY <1>1, <1>e, SweptTyped
  <1>h. calls'[k] = entry
    <2>1. Swept(table, k)[k] = table[k]
      <3>1. now < stamp.time + table[k].period
        BY <1>a, <1>b, <1>d, <1>e
      <3>2. table[k] # None /\ stamp \in table[k].stamps
        BY <1>d, <1>e, <1>f
      <3> QED
        BY <3>1, <3>2, <1>a, <1>e, SweptKeepsActive
    <2> QED
      BY <2>1, <1>1, <1>e
  <1>2. TypeOK'
    <2>1. counter' \in 0 .. CleanupEvery - 1
      BY LimitAssumption DEF TypeOK, Accept, Counted
    <2>2. recent' \in [Keys \X Limiters -> SUBSET Stamp]
      BY <1>1, <1>b DEF TypeOK
    <2> QED
      BY <2>1, <2>2, <1>g, <1>a, PassedType DEF TypeOK
  <1>3. PeriodsAgree'
    <2> SUFFICES ASSUME NEW j \in Keys, calls'[j] # None
                 PROVE  calls'[j].period = Period[j[2]]
      BY DEF PeriodsAgree
    <2>1. CASE j = k
      BY <2>1, <1>h, <1>d
    <2>2. CASE j # k
      <3>1. calls'[j] = calls[j]
        BY <2>2, <1>g, <1>e
      <3> QED
        BY <3>1 DEF PeriodsAgree
    <2> QED
      BY <2>1, <2>2
  <1>4. WindowIsExact'
    <2> SUFFICES ASSUME NEW j \in Keys
                 PROVE  /\ Window(j)' = Accepted(j)'
                        /\ recent'[<<j, 1>>] \cap recent'[<<j, 2>>] = {}
      BY DEF WindowIsExact
    <2>0. Window(j) = Accepted(j) /\ recent[<<j, 1>>] \cap recent[<<j, 2>>] = {}
      BY DEF WindowIsExact
    <2>1. CASE j = k
      <3>1. Window(j)' = {s \in Window(k) \cup {stamp} : now < s.time + Period[k[2]]}
        BY <2>1, <1>h, <1>f, <1>d, <1>a DEF Window, Within
      <3>2. \A s \in Window(k) : now < s.time + Period[k[2]]
        BY DEF Window, Within
      <3>3. now < stamp.time + Period[k[2]]
        BY <1>a, <1>b
      <3>4. Accepted(j)' = Accepted(k) \cup {stamp}
        <4>1. CASE i = 1
          BY <2>1, <4>1, <1>r DEF Accepted, Limiters
        <4>2. CASE i = 2
          BY <2>1, <4>2, <1>r DEF Accepted, Limiters
        <4> QED
          BY <4>1, <4>2 DEF Limiters
      <3>5. Window(j)' = Accepted(j)'
        BY <2>0, <2>1, <3>1, <3>2, <3>3, <3>4
      <3>6. stamp \notin recent[<<k, 1>>] /\ stamp \notin recent[<<k, 2>>]
        BY <1>n, <2>0, <2>1 DEF Accepted
      <3>7. recent'[<<j, 1>>] \cap recent'[<<j, 2>>] = {}
        <4>1. CASE i = 1
          <5>1. /\ recent'[<<k, 1>>] = recent[<<k, 1>>] \cup {stamp}
                /\ recent'[<<k, 2>>] = recent[<<k, 2>>]
            BY <4>1, <1>r DEF Limiters
          <5> QED
            BY <2>0, <2>1, <3>6, <5>1
        <4>2. CASE i = 2
          <5>1. /\ recent'[<<k, 1>>] = recent[<<k, 1>>]
                /\ recent'[<<k, 2>>] = recent[<<k, 2>>] \cup {stamp}
            BY <4>2, <1>r DEF Limiters
          <5> QED
            BY <2>0, <2>1, <3>6, <5>1
        <4> QED
          BY <4>1, <4>2 DEF Limiters
      <3> QED
        BY <3>5, <3>7
    <2>2. CASE j # k
      <3>0. recent'[<<j, 1>>] = recent[<<j, 1>>] /\ recent'[<<j, 2>>] = recent[<<j, 2>>]
        BY <2>2, <1>r DEF Limiters
      <3>1. Accepted(j)' = Accepted(j) /\ recent'[<<j, 1>>] \cap recent'[<<j, 2>>] = {}
        BY <3>0, <2>0 DEF Accepted
      <3>2. CASE calls'[j] = calls[j]
        BY <3>1, <3>2, <2>0, <1>a DEF Window
      <3>3. CASE calls'[j] # calls[j]
        <4>1. calls'[j] = None /\ calls[j] # None /\ table[j] = calls[j]
          BY <3>3, <2>2, <1>g, <1>e
        <4>2. calls' = Swept(table, k)
          BY <4>1, <1>1
        <4>3. Window(j) = {}
          <5> SUFFICES ASSUME NEW s \in Window(j) PROVE FALSE
            OBVIOUS
          <5>1. s \in calls[j].stamps /\ now < s.time + Period[j[2]]
            BY <4>1 DEF Window, Within
          <5>2. now < s.time + table[j].period
            BY <5>1, <4>1 DEF PeriodsAgree
          <5>3. Swept(table, k)[j] = table[j]
            BY <5>1, <5>2, <4>1, <1>a, <1>e, SweptKeepsActive
          <5> QED
            BY <5>3, <4>1, <4>2
        <4> QED
          BY <4>1, <4>3, <3>1, <2>0 DEF Window
      <3> QED
        BY <3>2, <3>3
    <2> QED
      BY <2>1, <2>2
  <1>5. \A q \in Keys \X Limiters : IsFiniteSet(recent'[q])
    <2> SUFFICES ASSUME NEW q \in Keys \X Limiters PROVE IsFiniteSet(recent'[q])
      OBVIOUS
    <2>1. CASE q = <<k, i>>
      BY <2>1, <1>r, FS_AddElement
    <2>2. CASE q # <<k, i>>
      BY <2>2, <1>r
    <2> QED
      BY <2>1, <2>2
  <1>6. QuotaHolds'
    <2> SUFFICES ASSUME NEW j \in Keys, NEW m \in Limiters, m <= Len(Calls[j[2]])
                 PROVE  Cardinality(recent'[<<j, m>>]) <= Calls[j[2]][m]
      BY DEF QuotaHolds
    <2>0. <<j, m>> \in Keys \X Limiters
      OBVIOUS
    <2>1. CASE j = k /\ m = i
      <3>1. recent[<<k, i>>] \subseteq Window(k) /\ IsFiniteSet(Window(k))
        <4>1. Window(k) = recent[<<k, 1>>] \cup recent[<<k, 2>>]
          BY DEF WindowIsExact, Accepted
        <4>2. IsFiniteSet(recent[<<k, 1>>]) /\ IsFiniteSet(recent[<<k, 2>>])
          BY DEF Limiters
        <4>3. IsFiniteSet(Window(k))
          BY <4>1, <4>2, FS_Union
        <4> QED
          BY <4>1, <4>3 DEF Limiters
      <3>2. Cardinality(Window(k)) < Calls[k[2]][i]
        BY DEF Accept
      <3>3. /\ IsFiniteSet(recent[<<k, i>>])
            /\ Cardinality(recent[<<k, i>>]) \in Nat /\ Cardinality(Window(k)) \in Nat
            /\ Cardinality(recent[<<k, i>>]) <= Cardinality(Window(k))
        BY <3>1, FS_Subset, FS_CardinalityType
      <3> DEFINE before == recent[<<k, i>>]
      <3>a. IsFiniteSet(before)
        BY <3>3
      <3> HIDE DEF before
      <3>b. \/ Cardinality(before \cup {stamp}) = Cardinality(before)
            \/ Cardinality(before \cup {stamp}) = Cardinality(before) + 1
        BY <3>a, FS_AddElement
      <3>4. \/ Cardinality(recent[<<k, i>>] \cup {stamp}) = Cardinality(recent[<<k, i>>])
            \/ Cardinality(recent[<<k, i>>] \cup {stamp}) = Cardinality(recent[<<k, i>>]) + 1
        BY <3>b DEF before
      <3>5. Cardinality(recent[<<k, i>>] \cup {stamp}) <= Calls[k[2]][i]
        <4> DEFINE quota == Calls[k[2]][i]
        <4>1. quota \in Nat /\ Cardinality(Window(k)) < quota
          BY <1>a, <3>2
        <4> HIDE DEF quota
        <4>2. Cardinality(recent[<<k, i>>] \cup {stamp}) <= quota
          BY <3>3, <3>4, <4>1
        <4> QED
          BY <4>2 DEF quota
      <3>6. Cardinality(recent'[<<k, i>>]) <= Calls[k[2]][i]
        BY <1>r, <3>5
      <3> QED
        BY <2>1, <3>6
    <2>2. CASE ~(j = k /\ m = i)
      BY <1>r, <2>0, <2>2 DEF QuotaHolds
    <2> QED
      BY <2>1, <2>2
  <1> QED
    BY <1>2, <1>3, <1>4, <1>5, <1>6

LEMMA NextLimitInv == LimitInv /\ [Next]_vars => LimitInv'
  <1> SUFFICES ASSUME LimitInv, [Next]_vars PROVE LimitInv'
    OBVIOUS
  <1>1. CASE \E k \in Keys, i \in Limiters : Accept(k, i)
    BY <1>1, AcceptLimitInv
  <1>4. CASE \E k \in Keys : Leave(k)
    BY <1>4, LeaveLimitInv
  <1>2. CASE Tick
    BY <1>2, TickLimitInv
  <1>3. CASE UNCHANGED vars
    BY <1>3 DEF LimitInv, TypeOK, PeriodsAgree, WindowIsExact, Window, Accepted, QuotaHolds,
                vars
  <1> QED
    BY <1>1, <1>2, <1>3, <1>4 DEF Next

LEMMA LimitInvariance == Spec => []LimitInv
  BY InitLimitInv, NextLimitInv, PTL DEF Spec

\* The counter, the table and the clock keep their types.
THEOREM TypeCorrect == Spec => []TypeOK
  <1>1. LimitInv => TypeOK
    BY DEF LimitInv
  <1> QED
    BY <1>1, LimitInvariance, PTL

\* No limiter lets more calls of a key through in a period than its quota.
THEOREM NoQuotaExceeded == Spec => []QuotaHolds
  <1>1. LimitInv => QuotaHolds
    BY DEF LimitInv
  <1> QED
    BY <1>1, LimitInvariance, PTL

\* What a limiter counts is exactly what the limiters of its route, one or two,
\* accepted in the last period, each acceptance once.
THEOREM CountsExactly == Spec => []WindowIsExact
  <1>1. LimitInv => WindowIsExact
    BY DEF LimitInv
  <1> QED
    BY <1>1, LimitInvariance, PTL

\* A cleanup leaves only keys with a call in their last period.
THEOREM IdleKeysFreed == Spec => SweepFreesIdleKeys
  <1> DEFINE A == (calls' # calls /\ counter' = 0) =>
                     \A k \in Keys : calls'[k] # None => Accepted(k)' # {}
  <1>1. ASSUME LimitInv, LimitInv', [Next]_vars PROVE [A]_vars
    <2> SUFFICES ASSUME calls' # calls, counter' = 0, NEW j \in Keys, calls'[j] # None
                 PROVE  Accepted(j)' # {}
      OBVIOUS
    <2>1. PICK k \in Keys, i \in Limiters : Accept(k, i)
      BY <1>1 DEF Next, Leave, Tick, vars
    <2>2. PICK table : calls' = Swept(table, k)
      BY <2>1 DEF Accept
    <2>3. calls'[j] = table[j] /\ \E s \in table[j].stamps : ~(now >= s.time + table[j].period)
      BY <2>2 DEF Swept
    <2>4. PICK s \in calls'[j].stamps : ~(now >= s.time + calls'[j].period)
      BY <2>3
    <2>a. calls'[j] \in Entry
      BY <1>1 DEF LimitInv, TypeOK
    <2>5. calls'[j] \in Entry /\ now' = now /\ now \in Nat
      BY <1>1, <2>a, <2>1, LimitAssumption DEF LimitInv, TypeOK, Accept
    <2>6. s \in Stamp /\ calls'[j].period \in Nat
      BY <2>5 DEF Entry
    <2>7. now < s.time + calls'[j].period
      BY <2>4, <2>5, <2>6 DEF Stamp
    <2>8. calls'[j].period = Period[j[2]]
      BY <1>1 DEF LimitInv, PeriodsAgree
    <2>9. s \in Window(j)'
      BY <2>5, <2>7, <2>8 DEF Window, Within
    <2> QED
      BY <2>9, <1>1 DEF LimitInv, WindowIsExact
  <1> QED
    BY <1>1, LimitInvariance, PTL DEF Spec, SweepFreesIdleKeys

-----------------------------------------------------------------------------
(* Induction on the natural numbers *)

\* A set of natural numbers that is not empty has a least element.
LEMMA Least ==
    ASSUME NEW S \in SUBSET Nat, S # {}
    PROVE  \E n \in S : \A m \in S : n <= m
<1>1. IsWellFoundedOn(OpToRel(<, Nat), Nat)
    BY NatLessThanWellFounded
<1>2. PICK n \in S : \A m \in S : ~(<<m, n>> \in OpToRel(<, Nat))
    BY <1>1, WFMin
<1>3. ASSUME NEW m \in S
      PROVE  n <= m
    <2>1. m \in Nat /\ n \in Nat
        OBVIOUS
    <2>2. <<m, n>> \notin OpToRel(<, Nat)
        BY <1>2
    <2>3. ~(m < n)
        BY <2>1, <2>2 DEF OpToRel
    <2>4. QED
        BY <2>1, <2>3
<1>4. QED
    BY <1>3

\* A set that has 0, and the successor of each of its numbers, has them all.
LEMMA Induction ==
    ASSUME NEW S, 0 \in S, \A n \in Nat : n \in S => n + 1 \in S
    PROVE  Nat \subseteq S
<1> DEFINE T == {n \in Nat : n \notin S}
<1> SUFFICES ASSUME T # {}
             PROVE  FALSE
    OBVIOUS
<1>1. PICK n \in T : \A m \in T : n <= m
    BY Least
<1>2. n # 0 /\ n \in Nat
    OBVIOUS
<1>3. n - 1 \in Nat /\ n - 1 \notin T
    BY <1>1, <1>2
<1>4. QED
    BY <1>2, <1>3

-----------------------------------------------------------------------------
(* The image cache: sizes *)

\* f counts the bytes of s entry by entry.
Counts(f, s) ==
    /\ f \in [0 .. Len(s) -> Nat]
    /\ f[0] = 0
    /\ \A n \in 1 .. Len(s) : f[n] = f[n - 1] + s[n].size

\* The bytes of any list of entries can be counted,
LEMMA Countable ==
    ASSUME NEW s \in Seq(Images!Entry)
    PROVE  \E f : Counts(f, s)
<1> DEFINE S == {k \in Nat : k <= Len(s) =>
                    \E f \in [0 .. k -> Nat] :
                        f[0] = 0 /\ \A n \in 1 .. k : f[n] = f[n - 1] + s[n].size}
<1>1. 0 \in S
    <2> DEFINE f == [n \in 0 .. 0 |-> 0]
    <2>1. f \in [0 .. 0 -> Nat] /\ f[0] = 0 /\ \A n \in 1 .. 0 : f[n] = f[n - 1] + s[n].size
        OBVIOUS
    <2>2. QED
        BY <2>1
<1>2. ASSUME NEW k \in Nat, k \in S
      PROVE  k + 1 \in S
    <2>0. k + 1 \in Nat
        OBVIOUS
    <2> SUFFICES ASSUME k + 1 <= Len(s)
                 PROVE  \E f \in [0 .. k + 1 -> Nat] :
                            f[0] = 0 /\ \A n \in 1 .. k + 1 : f[n] = f[n - 1] + s[n].size
        BY <2>0
    <2>1. Len(s) \in Nat /\ k <= Len(s)
        OBVIOUS
    <2>2. PICK f \in [0 .. k -> Nat] :
              f[0] = 0 /\ \A n \in 1 .. k : f[n] = f[n - 1] + s[n].size
        BY <1>2, <2>1
    <2>3. s[k + 1] \in Images!Entry
        BY <2>1, ElementOfSeq
    <2>4. s[k + 1].size \in Nat
        BY <2>3, ImagesAssumption DEF Images!Entry, Images!CacheConstants
    <2> DEFINE g == [n \in 0 .. k + 1 |-> IF n = k + 1 THEN f[k] + s[k + 1].size ELSE f[n]]
    <2>5. f[k] \in Nat
        OBVIOUS
    <2>6. g \in [0 .. k + 1 -> Nat] /\ g[0] = 0
        BY <2>2, <2>4, <2>5
    <2>7. ASSUME NEW n \in 1 .. k + 1
          PROVE  g[n] = g[n - 1] + s[n].size
        <3>1. CASE n = k + 1
            BY <3>1
        <3>2. CASE n # k + 1
            BY <2>2, <3>2
        <3>3. QED
            BY <3>1, <3>2
    <2>8. QED
        BY <2>6, <2>7
<1>3. Nat \subseteq S
    <2> HIDE DEF S
    <2> QED
        BY <1>1, <1>2, Induction
<1>4. Len(s) \in Nat /\ Len(s) <= Len(s)
    OBVIOUS
<1>5. QED
    BY <1>3, <1>4 DEF Counts

\* in one way only,
LEMMA CountsOnce ==
    ASSUME NEW s \in Seq(Images!Entry), NEW f, Counts(f, s), NEW g, g = [n \in 0 .. Len(s) |-> g[n]],
           \A n \in 0 .. Len(s) : g[n] = IF n = 0 THEN 0 ELSE g[n - 1] + s[n].size
    PROVE  g = f
<1> DEFINE S == {k \in Nat : k <= Len(s) => g[k] = f[k]}
<1>0. Len(s) \in Nat
    OBVIOUS
<1>1. 0 \in S
    <2>1. 0 \in 0 .. Len(s)
        BY <1>0
    <2>2. QED
        BY <2>1 DEF Counts
<1>2. ASSUME NEW k \in Nat, k \in S
      PROVE  k + 1 \in S
    <2> SUFFICES ASSUME k + 1 <= Len(s)
                 PROVE  g[k + 1] = f[k + 1]
        OBVIOUS
    <2>1. k <= Len(s) /\ k + 1 \in 0 .. Len(s) /\ k + 1 \in 1 .. Len(s) /\ (k + 1) - 1 = k /\ k + 1 # 0
        BY <1>0
    <2>2. f[k + 1] = f[k] + s[k + 1].size
        BY <2>1 DEF Counts
    <2>3. g[k + 1] = g[k] + s[k + 1].size
        BY <2>1
    <2>4. QED
        BY <1>2, <2>1, <2>2, <2>3
<1>3. Nat \subseteq S
    <2> HIDE DEF S
    <2> QED
        BY <1>1, <1>2, Induction
<1>4. \A k \in 0 .. Len(s) : g[k] = f[k]
    BY <1>0, <1>3
<1>5. QED
    BY <1>4 DEF Counts

\* and SizeOf does.
LEMMA SizeIs ==
    ASSUME NEW s \in Seq(Images!Entry), NEW f, Counts(f, s)
    PROVE  Images!SizeOf(s) = f[Len(s)]
<1> DEFINE body(g) == [n \in 0 .. Len(s) |-> IF n = 0 THEN 0 ELSE g[n - 1] + s[n].size]
           sum == CHOOSE g : g = body(g)
<1>0. Len(s) \in Nat
    OBVIOUS
<1>1. f = body(f)
    <2>1. \A n \in 0 .. Len(s) : f[n] = IF n = 0 THEN 0 ELSE f[n - 1] + s[n].size
        BY <1>0 DEF Counts
    <2>2. f = [n \in 0 .. Len(s) |-> f[n]]
        BY DEF Counts
    <2>3. QED
        BY <2>1, <2>2
<1>2. sum = body(sum)
    BY <1>1
<1>3. sum = f
    <2> HIDE DEF sum
    <2>1. sum = [n \in 0 .. Len(s) |-> sum[n]]
        BY <1>2
    <2>2. \A n \in 0 .. Len(s) : sum[n] = IF n = 0 THEN 0 ELSE sum[n - 1] + s[n].size
        BY <1>2
    <2>3. QED
        BY <2>1, <2>2, CountsOnce
<1>4. Images!SizeOf(s) = sum[Len(s)]
    BY DEF Images!SizeOf
<1>5. QED
    BY <1>3, <1>4

LEMMA SizeNat ==
    /\ \A s \in Seq(Images!Entry) : Images!SizeOf(s) \in Nat
    /\ Images!SizeOf(<<>>) = 0
<1>1. ASSUME NEW s \in Seq(Images!Entry)
      PROVE  Images!SizeOf(s) \in Nat /\ (Len(s) = 0 => Images!SizeOf(s) = 0)
    <2>1. PICK f : Counts(f, s)
        BY Countable
    <2>2. Images!SizeOf(s) = f[Len(s)]
        BY <2>1, SizeIs
    <2>3. QED
        BY <2>1, <2>2 DEF Counts
<1>2. <<>> \in Seq(Images!Entry) /\ Len(<<>>) = 0
    OBVIOUS
<1>3. QED
    BY <1>1, <1>2

\* Entries of the same sizes have the same size together.
LEMMA SizeSame ==
    ASSUME NEW s \in Seq(Images!Entry), NEW t \in Seq(Images!Entry), Len(s) = Len(t),
           \A i \in 1 .. Len(s) : s[i].size = t[i].size
    PROVE  Images!SizeOf(s) = Images!SizeOf(t)
<1>1. PICK f : Counts(f, s)
    BY Countable
<1>2. Counts(f, t)
    BY <1>1 DEF Counts
<1>3. QED
    BY <1>1, <1>2, SizeIs

\* The size of two lists, one after the other.
LEMMA SizeConcat ==
    ASSUME NEW s \in Seq(Images!Entry), NEW t \in Seq(Images!Entry)
    PROVE  Images!SizeOf(s \o t) = Images!SizeOf(s) + Images!SizeOf(t)
<1>1. PICK f : Counts(f, s)
    BY Countable
<1>2. PICK g : Counts(g, t)
    BY Countable
<1> DEFINE h == [n \in 0 .. Len(s) + Len(t) |->
                    IF n <= Len(s) THEN f[n] ELSE f[Len(s)] + g[n - Len(s)]]
<1>3. /\ Len(s) \in Nat /\ Len(t) \in Nat
      /\ s \o t \in Seq(Images!Entry) /\ Len(s \o t) = Len(s) + Len(t)
      /\ \A i \in 1 .. Len(s) + Len(t) :
             (s \o t)[i] = IF i <= Len(s) THEN s[i] ELSE t[i - Len(s)]
    BY ConcatProperties
<1>4. \A n \in 0 .. Len(s) : f[n] \in Nat
    BY <1>1 DEF Counts
<1>5. \A n \in 0 .. Len(t) : g[n] \in Nat
    BY <1>2 DEF Counts
<1>6. h \in [0 .. Len(s) + Len(t) -> Nat]
    <2>1. ASSUME NEW n \in 0 .. Len(s) + Len(t)
          PROVE  (IF n <= Len(s) THEN f[n] ELSE f[Len(s)] + g[n - Len(s)]) \in Nat
        <3>1. CASE n <= Len(s)
            BY <1>3, <1>4, <3>1
        <3>2. CASE ~(n <= Len(s))
            <4>1. n - Len(s) \in 0 .. Len(t) /\ Len(s) \in 0 .. Len(s)
                BY <1>3, <3>2
            <4>2. f[Len(s)] \in Nat /\ g[n - Len(s)] \in Nat
                BY <1>4, <1>5, <4>1
            <4>3. QED
                BY <3>2, <4>2
        <3>3. QED
            BY <3>1, <3>2
    <2>2. QED
        BY <2>1
<1>7. h[0] = 0
    BY <1>1, <1>3 DEF Counts
<1>8. ASSUME NEW n \in 1 .. Len(s) + Len(t)
      PROVE  h[n] = h[n - 1] + (s \o t)[n].size
    <2>0. n \in 0 .. Len(s) + Len(t) /\ n - 1 \in 0 .. Len(s) + Len(t)
        BY <1>3
    <2>1. CASE n <= Len(s)
        <3>1. n \in 1 .. Len(s) /\ n - 1 <= Len(s)
            BY <1>3, <2>1
        <3>2. f[n] = f[n - 1] + s[n].size
            BY <1>1, <3>1 DEF Counts
        <3>3. QED
            BY <1>3, <2>0, <2>1, <3>1, <3>2
    <2>2. CASE ~(n <= Len(s))
        <3> DEFINE m == n - Len(s)
        <3>1. m \in 1 .. Len(t) /\ (n - 1) - Len(s) = m - 1
            BY <1>3, <2>2
        <3>2. g[m] = g[m - 1] + t[m].size
            BY <1>2, <3>1 DEF Counts
        <3>3. h[n] = f[Len(s)] + g[m]
            BY <2>0, <2>2
        <3>4. h[n - 1] = f[Len(s)] + g[m - 1]
            <4>1. CASE n - 1 <= Len(s)
                <5>1. n - 1 = Len(s) /\ m - 1 = 0
                    BY <1>3, <2>2, <4>1
                <5>2. g[0] = 0 /\ f[Len(s)] \in Nat /\ h[n - 1] = f[Len(s)]
                    BY <1>2, <1>3, <1>4, <2>0, <5>1 DEF Counts
                <5>3. QED
                    BY <5>1, <5>2
            <4>2. CASE ~(n - 1 <= Len(s))
                BY <2>0, <3>1, <4>2
            <4>3. QED
                BY <4>1, <4>2
        <3>5. (s \o t)[n] = t[m]
            BY <1>3, <2>2
        <3>6. f[Len(s)] \in Nat /\ g[m - 1] \in Nat /\ g[m] \in Nat
            BY <1>3, <1>4, <1>5, <3>1
        <3>7. t[m].size \in Nat
            <4>1. t[m] \in Images!Entry
                BY <3>1, ElementOfSeq
            <4>2. QED
                BY <4>1, ImagesAssumption DEF Images!Entry, Images!CacheConstants
        <3> HIDE DEF h, m
        <3>8. (s \o t)[n].size = t[m].size
            BY <3>5
        <3>9. f[Len(s)] + (g[m - 1] + t[m].size) = (f[Len(s)] + g[m - 1]) + t[m].size
            BY <3>6, <3>7
        <3>10. QED
            BY <3>2, <3>3, <3>4, <3>8, <3>9
    <2>3. QED
        BY <2>1, <2>2
<1>9. Counts(h, s \o t)
    <2> HIDE DEF h
    <2> QED
        BY <1>3, <1>6, <1>7, <1>8 DEF Counts
<1>10. Images!SizeOf(s \o t) = h[Len(s) + Len(t)]
    <2> HIDE DEF h
    <2> QED
        BY <1>3, <1>9, SizeIs
<1>11. Images!SizeOf(s) = f[Len(s)] /\ Images!SizeOf(t) = g[Len(t)]
    BY <1>1, <1>2, SizeIs
<1>12. h[Len(s) + Len(t)] = f[Len(s)] + g[Len(t)]
    <2>1. CASE Len(t) = 0
        BY <1>2, <1>3, <1>4, <2>1 DEF Counts
    <2>2. CASE Len(t) # 0
        BY <1>3, <2>2
    <2>3. QED
        BY <2>1, <2>2
<1>13. QED
    BY <1>10, <1>11, <1>12

\* Part of a list is a list of entries.
LEMMA PartOfList ==
    ASSUME NEW s \in Seq(Images!Entry), NEW m \in 1 .. Len(s) + 1, NEW n \in 0 .. Len(s), m <= n + 1
    PROVE  /\ SubSeq(s, m, n) \in Seq(Images!Entry)
           /\ Len(SubSeq(s, m, n)) = n - m + 1
           /\ \A i \in 1 .. n - m + 1 : SubSeq(s, m, n)[i] = s[m + i - 1]
<1>0. Len(s) \in Nat
    OBVIOUS
<1>1. \A i \in m .. n : s[i] \in Images!Entry
    BY <1>0, ElementOfSeq
<1>2. m \in Int /\ n \in Int
    BY <1>0
<1>3. /\ SubSeq(s, m, n) \in Seq(Images!Entry)
      /\ Len(SubSeq(s, m, n)) = IF m <= n THEN n - m + 1 ELSE 0
      /\ \A i \in 1 .. n - m + 1 : SubSeq(s, m, n)[i] = s[m + i - 1]
    BY <1>1, <1>2, SubSeqProperties
<1>4. QED
    BY <1>2, <1>3

\* The size of a list is that of its first k entries and of the others.
LEMMA SizeSplit ==
    ASSUME NEW s \in Seq(Images!Entry), NEW k \in 0 .. Len(s)
    PROVE  Images!SizeOf(s) = Images!SizeOf(SubSeq(s, 1, k)) + Images!SizeOf(SubSeq(s, k + 1, Len(s)))
<1> DEFINE a == SubSeq(s, 1, k)
           b == SubSeq(s, k + 1, Len(s))
<1>0. Len(s) \in Nat /\ k \in Nat /\ k <= Len(s)
    OBVIOUS
<1>1. a \in Seq(Images!Entry) /\ Len(a) = k /\ \A i \in 1 .. k : a[i] = s[i]
    <2>1. 1 \in 1 .. Len(s) + 1 /\ 1 <= k + 1
        BY <1>0
    <2>2. k - 1 + 1 = k /\ \A i \in 1 .. k : 1 + i - 1 = i
        BY <1>0
    <2>3. QED
        BY <2>1, <2>2, PartOfList
<1>2. /\ b \in Seq(Images!Entry) /\ Len(b) = Len(s) - k
      /\ \A i \in 1 .. Len(s) - k : b[i] = s[k + i]
    <2>1. k + 1 \in 1 .. Len(s) + 1 /\ Len(s) \in 0 .. Len(s) /\ k + 1 <= Len(s) + 1
        BY <1>0
    <2>2. Len(s) - (k + 1) + 1 = Len(s) - k /\ \A i \in 1 .. Len(s) - k : k + 1 + i - 1 = k + i
        BY <1>0
    <2>3. /\ SubSeq(s, k + 1, Len(s)) \in Seq(Images!Entry)
          /\ Len(SubSeq(s, k + 1, Len(s))) = Len(s) - (k + 1) + 1
          /\ \A i \in 1 .. Len(s) - (k + 1) + 1 : SubSeq(s, k + 1, Len(s))[i] = s[k + 1 + i - 1]
        BY <2>1, PartOfList
    <2>4. QED
        BY <2>2, <2>3
<1> HIDE DEF a, b
<1>3. /\ a \o b \in Seq(Images!Entry) /\ Len(a \o b) = Len(s)
      /\ \A i \in 1 .. Len(s) : (a \o b)[i] = IF i <= k THEN a[i] ELSE b[i - k]
    <2>1. Len(a) + Len(b) = Len(s)
        BY <1>0, <1>1, <1>2
    <2>2. QED
        BY <1>1, <1>2, <2>1, ConcatProperties
<1>4. \A i \in 1 .. Len(s) : (a \o b)[i] = s[i]
    BY <1>0, <1>1, <1>2, <1>3
<1>5. Images!SizeOf(a \o b) = Images!SizeOf(s)
    BY <1>3, <1>4, SizeSame
<1>6. QED
    BY <1>1, <1>2, <1>5, SizeConcat DEF a, b

-----------------------------------------------------------------------------
(* The dict of the images *)

\* An image has one entry.
OneEach(s) == \A i, j \in 1 .. Len(s) : s[i].url = s[j].url => i = j

ImgInv == Images!TypeOK /\ Images!BytesAreExact /\ Images!CapsHold

\* pop(url): the entry of u, if any, and the others, are the cache.
LEMMA PopFacts ==
    ASSUME ImgInv, NEW u \in ImageUrls
    PROVE  /\ Images!OthersThan(u) \in Seq(Images!Entry) /\ Images!EntryOf(u) \in Seq(Images!Entry)
           /\ Len(Images!OthersThan(u)) + Len(Images!EntryOf(u)) = Len(cache)
           /\ Images!SizeOf(Images!OthersThan(u)) + Images!Replaced(u) = Images!SizeOf(cache)
           /\ OneEach(Images!OthersThan(u))
           /\ \A i \in 1 .. Len(Images!OthersThan(u)) : Images!OthersThan(u)[i].url # u
           /\ \A i \in 1 .. Len(Images!EntryOf(u)) : Images!EntryOf(u)[i].url = u
           /\ OneEach(Images!EntryOf(u))
<1>0. cache \in Seq(Images!Entry) /\ Len(cache) \in Nat /\ OneEach(cache)
    BY DEF ImgInv, Images!TypeOK, Images!CapsHold, OneEach
<1>1. CASE Images!PlacesOf(u) = {}
    <2>1. Images!OthersThan(u) = cache /\ Images!EntryOf(u) = <<>>
        BY <1>1 DEF Images!OthersThan, Images!EntryOf
    <2>2. <<>> \in Seq(Images!Entry) /\ Len(<<>>) = 0
        OBVIOUS
    <2>3. Images!SizeOf(cache) \in Nat /\ Images!Replaced(u) = 0
        BY <1>0, <2>1, SizeNat DEF Images!Replaced
    <2>4. \A i \in 1 .. Len(cache) : cache[i].url # u
        BY <1>1 DEF Images!PlacesOf
    <2>5. QED
        BY <1>0, <2>1, <2>2, <2>3, <2>4 DEF OneEach
<1>2. CASE Images!PlacesOf(u) # {}
    <2> DEFINE p == CHOOSE i \in Images!PlacesOf(u) : TRUE
    <2>1. p \in 1 .. Len(cache) /\ cache[p].url = u
        BY <1>2 DEF Images!PlacesOf
    <2>2. Images!OthersThan(u) = Images!Without(p) /\ Images!EntryOf(u) = Images!EntryAt(p)
        BY <1>2 DEF Images!OthersThan, Images!EntryOf
    <2> HIDE DEF p
    <2> DEFINE a == SubSeq(cache, 1, p - 1)
               e == SubSeq(cache, p, p)
               b == SubSeq(cache, p + 1, Len(cache))
    <2>3. a \in Seq(Images!Entry) /\ Len(a) = p - 1 /\ \A i \in 1 .. p - 1 : a[i] = cache[i]
        <3>1. 1 \in 1 .. Len(cache) + 1 /\ p - 1 \in 0 .. Len(cache) /\ 1 <= (p - 1) + 1
            BY <1>0, <2>1
        <3>2. (p - 1) - 1 + 1 = p - 1 /\ \A i \in 1 .. p - 1 : 1 + i - 1 = i
            BY <1>0, <2>1
        <3>3. QED
            BY <1>0, <3>1, <3>2, PartOfList
    <2>4. e \in Seq(Images!Entry) /\ Len(e) = 1 /\ e[1] = cache[p]
        <3>1. p \in 1 .. Len(cache) + 1 /\ p \in 0 .. Len(cache) /\ p <= p + 1
            BY <1>0, <2>1
        <3>2. p - p + 1 = 1 /\ p + 1 - 1 = p
            BY <1>0, <2>1
        <3>3. /\ SubSeq(cache, p, p) \in Seq(Images!Entry)
              /\ Len(SubSeq(cache, p, p)) = p - p + 1
              /\ \A i \in 1 .. p - p + 1 : SubSeq(cache, p, p)[i] = cache[p + i - 1]
            BY <1>0, <3>1, PartOfList
        <3>4. SubSeq(cache, p, p)[1] = cache[p + 1 - 1]
            BY <3>2, <3>3
        <3>5. QED
            BY <3>2, <3>3, <3>4
    <2>5. /\ b \in Seq(Images!Entry) /\ Len(b) = Len(cache) - p
          /\ \A i \in 1 .. Len(cache) - p : b[i] = cache[p + i]
        <3>1. p + 1 \in 1 .. Len(cache) + 1 /\ Len(cache) \in 0 .. Len(cache) /\ p + 1 <= Len(cache) + 1
            BY <1>0, <2>1
        <3>2. Len(cache) - (p + 1) + 1 = Len(cache) - p
              /\ \A i \in 1 .. Len(cache) - p : (p + 1) + i - 1 = p + i
            BY <1>0, <2>1
        <3>3. /\ SubSeq(cache, p + 1, Len(cache)) \in Seq(Images!Entry)
              /\ Len(SubSeq(cache, p + 1, Len(cache))) = Len(cache) - (p + 1) + 1
              /\ \A i \in 1 .. Len(cache) - (p + 1) + 1 :
                     SubSeq(cache, p + 1, Len(cache))[i] = cache[(p + 1) + i - 1]
            BY <1>0, <3>1, PartOfList
        <3>4. QED
            BY <3>2, <3>3
    <2>6. Images!SizeOf(cache) = Images!SizeOf(a) + Images!SizeOf(e) + Images!SizeOf(b)
        <3> DEFINE ae == SubSeq(cache, 1, p)
        <3>1. p \in 0 .. Len(cache)
            BY <1>0, <2>1
        <3>2. Images!SizeOf(cache) = Images!SizeOf(ae) + Images!SizeOf(b)
            BY <1>0, <3>1, SizeSplit
        <3>3. ae \in Seq(Images!Entry) /\ Len(ae) = p /\ \A i \in 1 .. p : ae[i] = cache[i]
            <4>1. 1 \in 1 .. Len(cache) + 1 /\ 1 <= p + 1
                BY <1>0, <2>1
            <4>2. p - 1 + 1 = p /\ \A i \in 1 .. p : 1 + i - 1 = i
                BY <1>0, <2>1
            <4>3. QED
                BY <1>0, <3>1, <4>1, <4>2, PartOfList
        <3> HIDE DEF ae, a, e, b
        <3>4. Images!SizeOf(ae) = Images!SizeOf(a \o e)
            <4>1. /\ a \o e \in Seq(Images!Entry) /\ Len(a \o e) = Len(a) + Len(e)
                  /\ \A i \in 1 .. Len(a) + Len(e) :
                         (a \o e)[i] = IF i <= Len(a) THEN a[i] ELSE e[i - Len(a)]
                BY <2>3, <2>4, ConcatProperties
            <4>2. Len(a) + Len(e) = p
                BY <1>0, <2>1, <2>3, <2>4
            <4>3. ASSUME NEW i \in 1 .. p
                  PROVE  (a \o e)[i] = ae[i]
                <5>0. i \in 1 .. Len(a) + Len(e) /\ (i \in 1 .. p - 1 \/ i = p) /\ p \in Nat
                    <6>1. p \in Nat
                        BY <1>0, <2>1
                    <6>2. i \in 1 .. p - 1 \/ i = p
                        BY <6>1
                    <6>3. QED
                        BY <4>2, <6>1, <6>2
                <5>1. CASE i \in 1 .. p - 1
                    <6>1. i <= Len(a)
                        BY <2>3, <5>0, <5>1
                    <6>2. (a \o e)[i] = a[i]
                        BY <4>1, <5>0, <6>1
                    <6>3. QED
                        BY <2>3, <3>3, <5>1, <6>2
                <5>2. CASE i = p
                    <6>1. i - Len(a) = 1 /\ ~(i <= Len(a))
                        BY <2>3, <5>0, <5>2
                    <6>2. (a \o e)[i] = e[1]
                        BY <4>1, <5>0, <6>1
                    <6>3. QED
                        BY <2>4, <3>3, <5>2, <6>2
                <5>3. QED
                    BY <5>0, <5>1, <5>2
            <4>4. QED
                BY <3>3, <4>1, <4>2, <4>3, SizeSame
        <3>5. Images!SizeOf(a \o e) = Images!SizeOf(a) + Images!SizeOf(e)
            BY <2>3, <2>4, SizeConcat
        <3>6. QED
            BY <3>2, <3>4, <3>5
    <2> HIDE DEF a, e, b
    <2>7. /\ a \o b \in Seq(Images!Entry) /\ Len(a \o b) = Len(a) + Len(b)
          /\ \A i \in 1 .. Len(a) + Len(b) :
                 (a \o b)[i] = IF i <= Len(a) THEN a[i] ELSE b[i - Len(a)]
        BY <2>3, <2>5, ConcatProperties
    <2>8. Images!OthersThan(u) = a \o b /\ Images!EntryOf(u) = e
        BY <2>2 DEF Images!Without, Images!EntryAt, a, b, e
    <2>9. Len(a) + Len(b) = Len(cache) - 1
        BY <1>0, <2>1, <2>3, <2>5
    <2>10. \A i \in 1 .. Len(cache) - 1 :
               (a \o b)[i] = cache[IF i <= p - 1 THEN i ELSE i + 1]
        <3>1. ASSUME NEW i \in 1 .. Len(cache) - 1
              PROVE  (a \o b)[i] = cache[IF i <= p - 1 THEN i ELSE i + 1]
            <4>1. CASE i <= p - 1
                BY <1>0, <2>1, <2>3, <2>7, <2>9, <4>1
            <4>2. CASE ~(i <= p - 1)
                <5>1. i - Len(a) \in 1 .. Len(cache) - p /\ p + (i - Len(a)) = i + 1
                    BY <1>0, <2>1, <2>3, <4>2
                <5>2. b[i - Len(a)] = cache[i + 1]
                    BY <2>5, <5>1
                <5>3. QED
                    BY <2>3, <2>7, <2>9, <4>2, <5>2
            <4>3. QED
                BY <4>1, <4>2
        <3>2. QED
            BY <3>1
    <2>11. OneEach(a \o b)
        <3> SUFFICES ASSUME NEW i \in 1 .. Len(cache) - 1, NEW j \in 1 .. Len(cache) - 1,
                            (a \o b)[i].url = (a \o b)[j].url
                     PROVE  i = j
            BY <2>7, <2>9 DEF OneEach
        <3> DEFINE x == IF i <= p - 1 THEN i ELSE i + 1
                   y == IF j <= p - 1 THEN j ELSE j + 1
        <3>1. x \in 1 .. Len(cache) /\ y \in 1 .. Len(cache)
            BY <1>0, <2>1
        <3>2. x = y
            <4>1. (a \o b)[i] = cache[x] /\ (a \o b)[j] = cache[y]
                BY <2>10
            <4> HIDE DEF x, y
            <4>2. QED
                BY <1>0, <3>1, <4>1 DEF OneEach
        <3>3. QED
            BY <1>0, <2>1, <3>2
    <2>12. ASSUME NEW i \in 1 .. Len(a \o b)
           PROVE  (a \o b)[i].url # u
        <3> DEFINE x == IF i <= p - 1 THEN i ELSE i + 1
        <3>1. i \in 1 .. Len(cache) - 1
            BY <2>7, <2>9
        <3>2. x \in 1 .. Len(cache) /\ x # p
            BY <1>0, <2>1, <3>1
        <3>3. (a \o b)[i] = cache[x]
            BY <2>10, <3>1
        <3> HIDE DEF x
        <3>4. QED
            BY <1>0, <2>1, <3>2, <3>3 DEF OneEach
    <2>13. Images!SizeOf(a \o b) = Images!SizeOf(a) + Images!SizeOf(b)
        BY <2>3, <2>5, SizeConcat
    <2>14. Images!SizeOf(a) \in Nat /\ Images!SizeOf(b) \in Nat /\ Images!SizeOf(e) \in Nat
        BY <2>3, <2>4, <2>5, SizeNat
    <2>15. Len(Images!OthersThan(u)) + Len(Images!EntryOf(u)) = Len(cache)
        <3>1. Len(Images!OthersThan(u)) = Len(cache) - 1 /\ Len(Images!EntryOf(u)) = 1
            BY <2>4, <2>7, <2>8, <2>9
        <3>2. QED
            BY <1>0, <3>1
    <2>16. Images!SizeOf(Images!OthersThan(u)) + Images!Replaced(u) = Images!SizeOf(cache)
        BY <2>6, <2>8, <2>13, <2>14 DEF Images!Replaced
    <2>17. OneEach(e) /\ \A i \in 1 .. Len(e) : e[i].url = u
        BY <2>1, <2>4 DEF OneEach
    <2>18. QED
        BY <2>4, <2>7, <2>8, <2>11, <2>12, <2>15, <2>16, <2>17
<1>3. QED
    BY <1>1, <1>2

\* The loop of evictions ends with a cache that fits, and counts what it takes.
LEMMA EvictionFacts ==
    ASSUME NEW s \in Seq(Images!Entry), OneEach(s), NEW k, k = Images!Evictions(s, Images!SizeOf(s))
    PROVE  /\ Images!Kept(s, k) \in Seq(Images!Entry)
           /\ Images!SizeOf(Images!Kept(s, k)) = Images!SizeOf(s) - Images!SizeOf(SubSeq(s, 1, k))
           /\ Len(Images!Kept(s, k)) <= MaxEntries /\ Images!SizeOf(Images!Kept(s, k)) <= MaxBytes
           /\ OneEach(Images!Kept(s, k))
<1> DEFINE Enough(n) == \/ n = Len(s)
                        \/ Images!Fits(SubSeq(s, n + 1, Len(s)), Images!SizeOf(s) - Images!SizeOf(SubSeq(s, 1, n)))
           S == {n \in 0 .. Len(s) : Enough(n)}
<1>0. Len(s) \in Nat
    OBVIOUS
<1>1. \E n \in 0 .. Len(s) : Enough(n) /\ \A m \in 0 .. n - 1 : ~Enough(m)
    <2>1. Len(s) \in S /\ S \in SUBSET Nat
        BY <1>0
    <2> HIDE DEF Enough
    <2>2. PICK n \in S : \A m \in S : n <= m
        BY <2>1, Least
    <2>3. ASSUME NEW m \in 0 .. n - 1
          PROVE  ~Enough(m)
        <3>1. m \in 0 .. Len(s) /\ ~(n <= m)
            BY <1>0, <2>1
        <3>2. QED
            BY <2>2, <3>1
    <2>4. QED
        BY <2>2, <2>3
<1>2. k \in 0 .. Len(s) /\ Enough(k)
    <2>1. k = CHOOSE n \in 0 .. Len(s) : Enough(n) /\ \A m \in 0 .. n - 1 : ~Enough(m)
        BY DEF Images!Evictions
    <2> HIDE DEF Enough
    <2>2. QED
        BY <1>1, <2>1
<1> DEFINE b == SubSeq(s, k + 1, Len(s))
<1>3. Images!Kept(s, k) = b
    BY DEF Images!Kept
<1>4. /\ b \in Seq(Images!Entry) /\ Len(b) = Len(s) - k
      /\ \A i \in 1 .. Len(s) - k : b[i] = s[k + i]
    <2>1. k + 1 \in 1 .. Len(s) + 1 /\ Len(s) \in 0 .. Len(s) /\ k + 1 <= Len(s) + 1
        BY <1>0, <1>2
    <2>2. Len(s) - (k + 1) + 1 = Len(s) - k /\ \A i \in 1 .. Len(s) - k : k + 1 + i - 1 = k + i
        BY <1>0, <1>2
    <2>3. /\ SubSeq(s, k + 1, Len(s)) \in Seq(Images!Entry)
          /\ Len(SubSeq(s, k + 1, Len(s))) = Len(s) - (k + 1) + 1
          /\ \A i \in 1 .. Len(s) - (k + 1) + 1 : SubSeq(s, k + 1, Len(s))[i] = s[k + 1 + i - 1]
        BY <2>1, PartOfList
    <2>4. QED
        BY <2>2, <2>3
<1>5. Images!SizeOf(b) = Images!SizeOf(s) - Images!SizeOf(SubSeq(s, 1, k))
    <2>1. Images!SizeOf(s) = Images!SizeOf(SubSeq(s, 1, k)) + Images!SizeOf(b)
        BY <1>2, SizeSplit
    <2>2. SubSeq(s, 1, k) \in Seq(Images!Entry)
        <3>1. 1 \in 1 .. Len(s) + 1 /\ 1 <= k + 1
            BY <1>0, <1>2
        <3>2. QED
            BY <1>2, <3>1, PartOfList
    <2> HIDE DEF b
    <2>3. Images!SizeOf(b) \in Nat /\ Images!SizeOf(SubSeq(s, 1, k)) \in Nat
        BY <1>4, <2>2, SizeNat
    <2>4. QED
        BY <2>1, <2>3
<1>6. Len(b) <= MaxEntries /\ Images!SizeOf(b) <= MaxBytes
    <2>1. CASE k = Len(s)
        <3>1. Len(b) = 0
            BY <1>0, <1>4, <2>1
        <3> HIDE DEF b
        <3>2. b = <<>>
            BY <1>4, <3>1
        <3>3. QED
            BY <3>1, <3>2, SizeNat, ImagesAssumption DEF Images!CacheConstants
    <2>2. CASE k # Len(s)
        BY <1>2, <1>5, <2>2 DEF Images!Fits
    <2>3. QED
        BY <2>1, <2>2
<1>7. OneEach(b)
    <2> HIDE DEF b
    <2> SUFFICES ASSUME NEW i \in 1 .. Len(s) - k, NEW j \in 1 .. Len(s) - k, b[i].url = b[j].url
                 PROVE  i = j
        BY <1>4 DEF OneEach
    <2>1. b[i] = s[k + i] /\ b[j] = s[k + j]
        BY <1>4
    <2>2. k + i \in 1 .. Len(s) /\ k + j \in 1 .. Len(s)
        BY <1>0, <1>2
    <2>3. k + i = k + j
        BY <2>1, <2>2 DEF OneEach
    <2>4. QED
        BY <1>0, <1>2, <2>3
<1>8. QED
    <2> HIDE DEF b
    <2> QED
        BY <1>3, <1>4, <1>5, <1>6, <1>7

\* What is true of the dict: it is within its caps and counted.
ImgDict(c, b) ==
    /\ c \in Seq(Images!Entry) /\ OneEach(c)
    /\ Len(c) <= MaxEntries /\ Images!SizeOf(c) <= MaxBytes
    /\ b = Images!SizeOf(c)

LEMMA DictIs ==
    ASSUME NEW c, NEW b, ImgDict(c, b)
    PROVE  b \in 0 .. MaxBytes
<1>1. Images!SizeOf(c) \in Nat /\ MaxBytes \in Nat
    BY SizeNat, ImagesAssumption DEF ImgDict, Images!CacheConstants
<1>2. QED
    BY <1>1 DEF ImgDict

LEMMA StoreDict ==
    ASSUME ImgInv, NEW u \in ImageUrls, NEW size \in 0 .. MaxImage, Images!CacheStore(u, size)
    PROVE  ImgDict(cache', bytes')
<1> DEFINE new == [url |-> u, size |-> size, fresh |-> TRUE]
           entries == Append(Images!OthersThan(u), new)
           total == bytes - Images!Replaced(u) + size
           k == Images!Evictions(entries, total)
<1>1. /\ Images!OthersThan(u) \in Seq(Images!Entry) /\ OneEach(Images!OthersThan(u))
      /\ \A i \in 1 .. Len(Images!OthersThan(u)) : Images!OthersThan(u)[i].url # u
      /\ Images!SizeOf(Images!OthersThan(u)) + Images!Replaced(u) = Images!SizeOf(cache)
      /\ Images!EntryOf(u) \in Seq(Images!Entry)
    BY PopFacts
<1>2. bytes = Images!SizeOf(cache)
    BY DEF ImgInv, Images!BytesAreExact
<1>3. new \in Images!Entry /\ new.size = size /\ new.url = u
    BY DEF Images!Entry
<1> HIDE DEF new
<1>4. entries \in Seq(Images!Entry) /\ OneEach(entries) /\ Images!SizeOf(entries) = total
    <2> DEFINE o == Images!OthersThan(u)
    <2>1. o \in Seq(Images!Entry) /\ Len(o) \in Nat
        BY <1>1
    <2> HIDE DEF o
    <2>2. /\ Append(o, new) \in Seq(Images!Entry) /\ Len(Append(o, new)) = Len(o) + 1
          /\ \A i \in 1 .. Len(o) + 1 : Append(o, new)[i] = IF i <= Len(o) THEN o[i] ELSE new
        BY <1>3, <2>1
    <2>3. OneEach(Append(o, new))
        <3> SUFFICES ASSUME NEW i \in 1 .. Len(o) + 1, NEW j \in 1 .. Len(o) + 1,
                            Append(o, new)[i].url = Append(o, new)[j].url
                     PROVE  i = j
            BY <2>2 DEF OneEach
        <3>1. \A n \in 1 .. Len(o) : o[n].url # u
            BY <1>1 DEF o
        <3>2. \A m, n \in 1 .. Len(o) : o[m].url = o[n].url => m = n
            BY <1>1 DEF o, OneEach
        <3>3. (i \in 1 .. Len(o) \/ i = Len(o) + 1) /\ (j \in 1 .. Len(o) \/ j = Len(o) + 1)
            BY <2>1
        <3>4. ASSUME NEW n \in 1 .. Len(o)
              PROVE  Append(o, new)[n] = o[n]
            BY <2>1, <2>2
        <3>5. Append(o, new)[Len(o) + 1] = new
            BY <2>1, <2>2
        <3>6. QED
            BY <1>3, <3>1, <3>2, <3>3, <3>4, <3>5
    <2>4. Images!SizeOf(Append(o, new)) = Images!SizeOf(o) + size
        <3>1. <<new>> \in Seq(Images!Entry) /\ Len(<<new>>) = 1 /\ <<new>>[1] = new
            BY <1>3
        <3>2. Append(o, new) = o \o <<new>>
            BY <2>1, <1>3
        <3>3. Images!SizeOf(<<new>>) = size
            <4> DEFINE f == [n \in 0 .. 1 |-> IF n = 0 THEN 0 ELSE size]
            <4>1. size \in Nat
                BY ImagesAssumption DEF Images!CacheConstants
            <4>2. f \in [0 .. 1 -> Nat] /\ f[0] = 0 /\ f[1] = f[0] + size
                BY <4>1
            <4> HIDE DEF f
            <4>3. \A n \in 1 .. 1 : f[n] = f[n - 1] + <<new>>[n].size
                BY <1>3, <4>2
            <4>4. Counts(f, <<new>>)
                BY <3>1, <4>2, <4>3 DEF Counts
            <4>5. Images!SizeOf(<<new>>) = f[1]
                BY <3>1, <4>4, SizeIs
            <4>6. QED
                BY <4>1, <4>2, <4>5
        <3>4. QED
            BY <2>1, <3>1, <3>2, <3>3, SizeConcat
    <2>5. total = Images!SizeOf(o) + size
        <3>1. Images!SizeOf(o) \in Nat /\ Images!Replaced(u) \in Nat
            BY <1>1, SizeNat DEF o, Images!Replaced
        <3>2. Images!SizeOf(o) + Images!Replaced(u) = bytes
            BY <1>1, <1>2 DEF o
        <3>3. size \in Nat
            BY ImagesAssumption DEF Images!CacheConstants
        <3>4. QED
            BY <3>1, <3>2, <3>3
    <2>6. QED
        BY <2>2, <2>3, <2>4, <2>5 DEF o
<1>5. cache' = Images!Kept(entries, k) /\ bytes' = total - Images!SizeOf(SubSeq(entries, 1, k))
    BY DEF Images!CacheStore, new
<1> HIDE DEF entries, total
<1>6. QED
    BY <1>4, <1>5, EvictionFacts DEF ImgDict

LEMMA DropDict ==
    ASSUME ImgInv, NEW u \in ImageUrls, Images!CacheDrop(u)
    PROVE  ImgDict(cache', bytes')
<1>1. /\ Images!OthersThan(u) \in Seq(Images!Entry) /\ Images!EntryOf(u) \in Seq(Images!Entry)
      /\ Len(Images!OthersThan(u)) + Len(Images!EntryOf(u)) = Len(cache)
      /\ Images!SizeOf(Images!OthersThan(u)) + Images!Replaced(u) = Images!SizeOf(cache)
      /\ OneEach(Images!OthersThan(u))
    BY PopFacts
<1>2. Images!SizeOf(Images!OthersThan(u)) \in Nat /\ Images!Replaced(u) \in Nat
    BY <1>1, SizeNat DEF Images!Replaced
<1>3. bytes = Images!SizeOf(cache) /\ Images!SizeOf(cache) <= MaxBytes /\ Len(cache) <= MaxEntries
    BY DEF ImgInv, Images!BytesAreExact, Images!CapsHold
<1>4. cache' = Images!OthersThan(u) /\ bytes' = bytes - Images!Replaced(u)
    BY DEF Images!CacheDrop
<1>5. MaxBytes \in Nat /\ MaxEntries \in Nat
    BY ImagesAssumption DEF Images!CacheConstants
<1>6. Len(Images!OthersThan(u)) \in Nat /\ Len(Images!EntryOf(u)) \in Nat
    BY <1>1
<1>7. Len(Images!OthersThan(u)) <= MaxEntries
    BY <1>1, <1>3, <1>5, <1>6
<1>8. Images!SizeOf(Images!OthersThan(u)) <= MaxBytes
            /\ bytes - Images!Replaced(u) = Images!SizeOf(Images!OthersThan(u))
    BY <1>1, <1>2, <1>3, <1>5
<1>9. QED
    BY <1>1, <1>4, <1>7, <1>8 DEF ImgDict

LEMMA HitDict ==
    ASSUME ImgInv, NEW u \in ImageUrls, Images!ProxyHit(u)
    PROVE  ImgDict(cache', bytes')
<1> DEFINE o == Images!OthersThan(u)
           e == Images!EntryOf(u)
<1>1. /\ o \in Seq(Images!Entry) /\ e \in Seq(Images!Entry)
      /\ Len(o) + Len(e) = Len(cache)
      /\ Images!SizeOf(o) + Images!SizeOf(e) = Images!SizeOf(cache)
      /\ OneEach(o) /\ OneEach(e)
      /\ \A i \in 1 .. Len(o) : o[i].url # u
      /\ \A i \in 1 .. Len(e) : e[i].url = u
    BY PopFacts DEF Images!Replaced
<1>2. cache' = o \o e /\ bytes' = bytes
    BY DEF Images!ProxyHit
<1> HIDE DEF o, e
<1>3. /\ o \o e \in Seq(Images!Entry) /\ Len(o \o e) = Len(o) + Len(e)
      /\ \A i \in 1 .. Len(o) + Len(e) :
             (o \o e)[i] = IF i <= Len(o) THEN o[i] ELSE e[i - Len(o)]
    BY <1>1, ConcatProperties
<1>4. Images!SizeOf(o \o e) = Images!SizeOf(cache)
    BY <1>1, SizeConcat
<1>5. OneEach(o \o e)
    <2> SUFFICES ASSUME NEW i \in 1 .. Len(o) + Len(e), NEW j \in 1 .. Len(o) + Len(e),
                        (o \o e)[i].url = (o \o e)[j].url
                 PROVE  i = j
        BY <1>3 DEF OneEach
    <2>0. Len(o) \in Nat /\ Len(e) \in Nat
        BY <1>1
    <2>1. ASSUME NEW n \in 1 .. Len(o) + Len(e)
          PROVE  \/ n \in 1 .. Len(o) /\ (o \o e)[n] = o[n]
                 \/ n - Len(o) \in 1 .. Len(e) /\ (o \o e)[n] = e[n - Len(o)]
        BY <1>3, <2>0
    <2>2. \/ i \in 1 .. Len(o) /\ (o \o e)[i] = o[i]
          \/ i - Len(o) \in 1 .. Len(e) /\ (o \o e)[i] = e[i - Len(o)]
        BY <2>1
    <2>3. \/ j \in 1 .. Len(o) /\ (o \o e)[j] = o[j]
          \/ j - Len(o) \in 1 .. Len(e) /\ (o \o e)[j] = e[j - Len(o)]
        BY <2>1
    <2>4. CASE i \in 1 .. Len(o) /\ j \in 1 .. Len(o) /\ (o \o e)[i] = o[i] /\ (o \o e)[j] = o[j]
        BY <1>1, <2>4 DEF OneEach
    <2>5. CASE /\ i - Len(o) \in 1 .. Len(e) /\ (o \o e)[i] = e[i - Len(o)]
               /\ j - Len(o) \in 1 .. Len(e) /\ (o \o e)[j] = e[j - Len(o)]
        <3>1. i - Len(o) = j - Len(o)
            BY <1>1, <2>5 DEF OneEach
        <3>2. QED
            BY <2>0, <3>1
    <2>6. QED
        BY <1>1, <2>2, <2>3, <2>4, <2>5
<1>6. bytes = Images!SizeOf(cache) /\ Images!SizeOf(cache) <= MaxBytes /\ Len(cache) <= MaxEntries
    BY DEF ImgInv, Images!BytesAreExact, Images!CapsHold
<1>7. QED
    BY <1>1, <1>2, <1>3, <1>4, <1>5, <1>6 DEF ImgDict

LEMMA ExpireDict ==
    ASSUME ImgInv, NEW i \in DOMAIN cache, Images!Expire(i)
    PROVE  ImgDict(cache', bytes')
<1>0. cache \in Seq(Images!Entry) /\ Len(cache) \in Nat /\ i \in 1 .. Len(cache)
    BY DEF ImgInv, Images!TypeOK
<1>1. cache[i] \in Images!Entry
    BY <1>0, ElementOfSeq
<1> DEFINE e == [cache[i] EXCEPT !.fresh = FALSE]
<1>2. e \in Images!Entry /\ e.url = cache[i].url /\ e.size = cache[i].size
    BY <1>1 DEF Images!Entry
<1>3. cache' = [cache EXCEPT ![i] = e] /\ bytes' = bytes
    BY DEF Images!Expire
<1> HIDE DEF e
<1>4. /\ cache' \in Seq(Images!Entry) /\ Len(cache') = Len(cache)
      /\ \A j \in 1 .. Len(cache) : cache'[j] = IF j = i THEN e ELSE cache[j]
    BY <1>0, <1>2, <1>3, ExceptSeq
<1>5. \A j \in 1 .. Len(cache) : cache'[j].size = cache[j].size /\ cache'[j].url = cache[j].url
    BY <1>2, <1>4
<1>6. Images!SizeOf(cache') = Images!SizeOf(cache)
    BY <1>0, <1>4, <1>5, SizeSame
<1>7. OneEach(cache')
    BY <1>4, <1>5 DEF OneEach, ImgInv, Images!CapsHold
<1>8. QED
    BY <1>3, <1>4, <1>6, <1>7 DEF ImgDict, ImgInv, Images!CapsHold, Images!BytesAreExact

LEMMA ImgNext == ImgInv /\ [Images!Next]_Images!vars => ImgInv'
<1> SUFFICES ASSUME ImgInv, [Images!Next]_Images!vars
             PROVE  ImgInv'
    OBVIOUS
<1> DEFINE F == fetching \in [ImageUrls \X Images!Fetcher -> 0 .. MaxFetches]
<1>0. F /\ MaxFetches \in Nat
    BY ImagesAssumption DEF ImgInv, Images!TypeOK, Images!CacheConstants
<1>1. ASSUME NEW u \in ImageUrls, NEW by \in Images!Fetcher, Images!Fetch(u, by)
      PROVE  F'
    BY <1>0, <1>1 DEF Images!Fetch
<1>2. ASSUME NEW u \in ImageUrls, NEW by \in Images!Fetcher, Images!Fetched(u, by)
      PROVE  F'
    BY <1>0, <1>2 DEF Images!Fetched
<1>3. ImgDict(cache, bytes)
    BY DEF ImgInv, Images!TypeOK, Images!BytesAreExact, Images!CapsHold, ImgDict, OneEach
<1>4. ImgDict(cache', bytes') /\ F'
    <2>1. ASSUME NEW u \in ImageUrls, Images!ProxyHit(u)
          PROVE  ImgDict(cache', bytes') /\ F'
        BY <1>0, <2>1, HitDict DEF Images!ProxyHit
    <2>2. ASSUME NEW u \in ImageUrls, Images!ProxyMiss(u)
          PROVE  ImgDict(cache', bytes') /\ F'
        BY <1>1, <2>2, DropDict DEF Images!ProxyMiss, Images!Fetcher
    <2>3. ASSUME NEW u \in ImageUrls, Images!WarmMiss(u)
          PROVE  ImgDict(cache', bytes') /\ F'
        BY <1>1, <1>3, <2>3 DEF Images!WarmMiss, Images!Fetcher
    <2>4. ASSUME NEW u \in ImageUrls, NEW by \in Images!Fetcher, NEW size \in 0 .. MaxImage,
                 Images!FetchStores(u, by, size)
          PROVE  ImgDict(cache', bytes') /\ F'
        BY <1>2, <2>4, StoreDict DEF Images!FetchStores
    <2>5. ASSUME NEW u \in ImageUrls, Images!FetchRefused(u)
          PROVE  ImgDict(cache', bytes') /\ F'
        <3>1. 0 \in 0 .. MaxImage
            BY ImagesAssumption DEF Images!CacheConstants
        <3>2. QED
            BY <1>2, <2>5, <3>1, StoreDict DEF Images!FetchRefused, Images!Fetcher
    <2>6. ASSUME NEW u \in ImageUrls, NEW by \in Images!Fetcher, Images!FetchFails(u, by)
          PROVE  ImgDict(cache', bytes') /\ F'
        BY <1>2, <1>3, <2>6 DEF Images!FetchFails
    <2>7. ASSUME NEW i \in DOMAIN cache, Images!Expire(i)
          PROVE  ImgDict(cache', bytes') /\ F'
        BY <1>0, <2>7, ExpireDict DEF Images!Expire
    <2>8. CASE UNCHANGED Images!vars
        BY <1>0, <1>3, <2>8 DEF Images!vars
    <2> HIDE DEF F
    <2>9. QED
        BY <2>1, <2>2, <2>3, <2>4, <2>5, <2>6, <2>7, <2>8 DEF Images!Next
<1>5. bytes' \in 0 .. MaxBytes
    BY <1>4, DictIs
<1>6. QED
    BY <1>4, <1>5
       DEF ImgInv, Images!TypeOK, Images!BytesAreExact, Images!CapsHold, ImgDict, OneEach

LEMMA ImgInit == Images!Init => ImgInv
<1> SUFFICES ASSUME Images!Init
             PROVE  ImgInv
    OBVIOUS
<1>1. cache = <<>> /\ bytes = 0 /\ fetching \in [ImageUrls \X Images!Fetcher -> 0 .. MaxFetches]
    BY ImagesAssumption DEF Images!Init, Images!CacheConstants
<1>2. cache \in Seq(Images!Entry) /\ Len(cache) = 0 /\ Images!SizeOf(cache) = 0
    BY <1>1, SizeNat
<1>3. ImgDict(cache, bytes)
    BY <1>1, <1>2, ImagesAssumption DEF ImgDict, OneEach, Images!CacheConstants
<1>4. QED
    BY <1>1, <1>3, DictIs
       DEF ImgInv, Images!TypeOK, Images!BytesAreExact, Images!CapsHold, ImgDict, OneEach

LEMMA ImgInvariance == Images!Spec => []ImgInv
    BY ImgInit, ImgNext, PTL DEF Images!Spec

-----------------------------------------------------------------------------
(* The resolver cache: making room *)

\* A host has one entry.
OneEntry(s) == \A i, j \in 1 .. Len(s) : s[i].host = s[j].host => i = j

\* f filters s entry by entry.
Filters(f, s, spent) ==
    /\ f \in [0 .. Len(s) -> Seq(Resolver!Entry)]
    /\ f[0] = <<>>
    /\ \A n \in 1 .. Len(s) :
           f[n] = IF s[n].left + spent > 0 THEN Append(f[n - 1], s[n]) ELSE f[n - 1]

\* Any list of entries can be filtered,
LEMMA Filterable ==
    ASSUME NEW s \in Seq(Resolver!Entry), NEW spent
    PROVE  \E f : Filters(f, s, spent)
<1> DEFINE Step(f, n) == f[n] = IF s[n].left + spent > 0 THEN Append(f[n - 1], s[n]) ELSE f[n - 1]
           S == {k \in Nat : k <= Len(s) =>
                    \E f \in [0 .. k -> Seq(Resolver!Entry)] : f[0] = <<>>
                                /\ \A n \in 1 .. k : Step(f, n)}
<1>1. 0 \in S
    <2> DEFINE f == [n \in 0 .. 0 |-> <<>>]
    <2>0. <<>> \in Seq(Resolver!Entry)
        OBVIOUS
    <2>1. f \in [0 .. 0 -> Seq(Resolver!Entry)] /\ f[0] = <<>>
        BY <2>0
    <2> HIDE DEF f
    <2>2. \A n \in 1 .. 0 : Step(f, n)
        OBVIOUS
    <2>3. QED
        BY <2>1, <2>2
<1>2. ASSUME NEW k \in Nat, k \in S
      PROVE  k + 1 \in S
    <2>0. k + 1 \in Nat
        OBVIOUS
    <2> SUFFICES ASSUME k + 1 <= Len(s)
                 PROVE  \E f \in [0 .. k + 1 -> Seq(Resolver!Entry)] :
                            f[0] = <<>> /\ \A n \in 1 .. k + 1 : Step(f, n)
        BY <2>0
    <2>1. Len(s) \in Nat /\ k <= Len(s)
        OBVIOUS
    <2>2. PICK f \in [0 .. k -> Seq(Resolver!Entry)] : f[0] = <<>> /\ \A n \in 1 .. k : Step(f, n)
        BY <1>2, <2>1
    <2>3. s[k + 1] \in Resolver!Entry
        BY <2>1, ElementOfSeq
    <2> DEFINE next == IF s[k + 1].left + spent > 0 THEN Append(f[k], s[k + 1]) ELSE f[k]
               g == [n \in 0 .. k + 1 |-> IF n = k + 1 THEN next ELSE f[n]]
    <2>4. f[k] \in Seq(Resolver!Entry)
        OBVIOUS
    <2>5. next \in Seq(Resolver!Entry)
        BY <2>3, <2>4, AppendProperties
    <2>6. g[k + 1] = next /\ g[k] = f[k] /\ \A n \in 0 .. k : g[n] = f[n]
        OBVIOUS
    <2>7. g \in [0 .. k + 1 -> Seq(Resolver!Entry)] /\ g[0] = <<>>
        <3> HIDE DEF next
        <3> QED
            BY <2>2, <2>5
    <2>8. ASSUME NEW n \in 1 .. k + 1
          PROVE  Step(g, n)
        <3>1. CASE n = k + 1
            <4>1. n - 1 = k
                BY <3>1
            <4> HIDE DEF g
            <4>2. QED
                BY <2>6, <3>1, <4>1
        <3>2. CASE n # k + 1
            <4>1. n \in 1 .. k /\ n \in 0 .. k /\ n - 1 \in 0 .. k
                BY <3>2
            <4>2. Step(f, n)
                BY <2>2, <4>1
            <4> HIDE DEF g
            <4>3. g[n] = f[n] /\ g[n - 1] = f[n - 1]
                BY <2>6, <4>1
            <4>4. QED
                BY <4>2, <4>3
        <3>3. QED
            BY <3>1, <3>2
    <2> HIDE DEF Step, g
    <2>9. QED
        BY <2>7, <2>8
<1>3. Nat \subseteq S
    <2> HIDE DEF S
    <2> QED
        BY <1>1, <1>2, Induction
<1>4. Len(s) \in Nat /\ Len(s) <= Len(s)
    OBVIOUS
<1>5. QED
    BY <1>3, <1>4 DEF Filters

\* in one way only,
LEMMA FiltersOnce ==
    ASSUME NEW s \in Seq(Resolver!Entry), NEW spent, NEW f, Filters(f, s, spent),
           NEW g, g = [n \in 0 .. Len(s) |-> g[n]],
           \A n \in 0 .. Len(s) :
               g[n] = IF n = 0 THEN <<>>
                      ELSE IF s[n].left + spent > 0 THEN Append(g[n - 1], s[n]) ELSE g[n - 1]
    PROVE  g = f
<1> DEFINE S == {k \in Nat : k <= Len(s) => g[k] = f[k]}
<1>0. Len(s) \in Nat
    OBVIOUS
<1>1. 0 \in S
    <2>1. 0 \in 0 .. Len(s)
        BY <1>0
    <2>2. QED
        BY <2>1 DEF Filters
<1>2. ASSUME NEW k \in Nat, k \in S
      PROVE  k + 1 \in S
    <2> SUFFICES ASSUME k + 1 <= Len(s)
                 PROVE  g[k + 1] = f[k + 1]
        OBVIOUS
    <2>1. k <= Len(s) /\ k + 1 \in 0 .. Len(s) /\ k + 1 \in 1 .. Len(s) /\ (k + 1) - 1 = k /\ k + 1 # 0
        BY <1>0
    <2>2. f[k + 1] = IF s[k + 1].left + spent > 0 THEN Append(f[k], s[k + 1]) ELSE f[k]
        BY <2>1 DEF Filters
    <2>3. g[k + 1] = IF s[k + 1].left + spent > 0 THEN Append(g[k], s[k + 1]) ELSE g[k]
        BY <2>1
    <2>4. QED
        BY <1>2, <2>1, <2>2, <2>3
<1>3. Nat \subseteq S
    <2> HIDE DEF S
    <2> QED
        BY <1>1, <1>2, Induction
<1>4. \A k \in 0 .. Len(s) : g[k] = f[k]
    BY <1>0, <1>3
<1>5. QED
    BY <1>4 DEF Filters

\* and Unexpired does.
LEMMA UnexpiredIs ==
    ASSUME NEW s \in Seq(Resolver!Entry), NEW spent, NEW f, Filters(f, s, spent)
    PROVE  Resolver!Unexpired(s, spent) = f[Len(s)]
<1> DEFINE body(g) == [n \in 0 .. Len(s) |->
               IF n = 0 THEN <<>>
               ELSE IF s[n].left + spent > 0 THEN Append(g[n - 1], s[n]) ELSE g[n - 1]]
           kept == CHOOSE g : g = body(g)
<1>0. Len(s) \in Nat
    OBVIOUS
<1>1. f = body(f)
    <2>1. \A n \in 0 .. Len(s) :
              f[n] = IF n = 0 THEN <<>>
                     ELSE IF s[n].left + spent > 0 THEN Append(f[n - 1], s[n]) ELSE f[n - 1]
        <3> SUFFICES ASSUME NEW n \in 0 .. Len(s)
                     PROVE  f[n] = IF n = 0 THEN <<>>
                                   ELSE IF s[n].left + spent > 0 THEN Append(f[n - 1], s[n])
                                        ELSE f[n - 1]
            OBVIOUS
        <3>1. n = 0 \/ n \in 1 .. Len(s)
            BY <1>0
        <3>2. CASE n = 0
            BY <3>2 DEF Filters
        <3>3. CASE n \in 1 .. Len(s)
            <4>1. n # 0
                BY <3>3
            <4>2. QED
                BY <3>3, <4>1 DEF Filters
        <3>4. QED
            BY <3>1, <3>2, <3>3
    <2>2. f = [n \in 0 .. Len(s) |-> f[n]]
        BY DEF Filters
    <2>3. QED
        BY <2>1, <2>2
<1>2. kept = body(kept)
    BY <1>1
<1>3. kept = f
    <2> HIDE DEF kept
    <2>1. kept = [n \in 0 .. Len(s) |-> kept[n]]
        BY <1>2
    <2>2. \A n \in 0 .. Len(s) :
              kept[n] = IF n = 0 THEN <<>>
                        ELSE IF s[n].left + spent > 0 THEN Append(kept[n - 1], s[n]) ELSE kept[n - 1]
        BY <1>2
    <2>3. QED
        BY <2>1, <2>2, FiltersOnce
<1>4. Resolver!Unexpired(s, spent) = kept[Len(s)]
    BY DEF Resolver!Unexpired
<1>5. QED
    BY <1>3, <1>4

\* t has entries of s only, and one for a host when s has.
PartOf(t, s) ==
    /\ t \in Seq(Resolver!Entry)
    /\ \A j \in 1 .. Len(t) : \E i \in 1 .. Len(s) : t[j] = s[i]
    /\ OneEntry(t)

\* What has not expired is part of the list.
LEMMA UnexpiredFacts ==
    ASSUME NEW s \in Seq(Resolver!Entry), OneEntry(s), NEW spent
    PROVE  PartOf(Resolver!Unexpired(s, spent), s)
<1>0. Len(s) \in Nat
    OBVIOUS
<1>1. PICK f : Filters(f, s, spent)
    BY Filterable
<1> DEFINE From(t, k) == \A j \in 1 .. Len(t) : \E i \in 1 .. k : t[j] = s[i]
           S == {k \in Nat : k <= Len(s) => From(f[k], k) /\ OneEntry(f[k])}
<1>2. 0 \in S
    <2>1. f[0] = <<>> /\ Len(<<>>) = 0
        BY <1>1 DEF Filters
    <2>2. QED
        BY <2>1 DEF OneEntry
<1>3. ASSUME NEW k \in Nat, k \in S
      PROVE  k + 1 \in S
    <2>0. k + 1 \in Nat
        OBVIOUS
    <2> SUFFICES ASSUME k + 1 <= Len(s)
                 PROVE  From(f[k + 1], k + 1) /\ OneEntry(f[k + 1])
        BY <2>0
    <2>1. k <= Len(s) /\ k \in 0 .. Len(s) /\ k + 1 \in 1 .. Len(s) /\ (k + 1) - 1 = k
        BY <1>0
    <2>2. From(f[k], k) /\ OneEntry(f[k])
        BY <1>3, <2>1
    <2>3. f[k + 1] = IF s[k + 1].left + spent > 0 THEN Append(f[k], s[k + 1]) ELSE f[k]
        BY <1>1, <2>1 DEF Filters
    <2>4. CASE f[k + 1] = f[k]
        <3>1. ASSUME NEW j \in 1 .. Len(f[k])
              PROVE  \E i \in 1 .. k + 1 : f[k][j] = s[i]
            <4>1. PICK i \in 1 .. k : f[k][j] = s[i]
                BY <2>2
            <4>2. i \in 1 .. k + 1
                OBVIOUS
            <4>3. QED
                BY <4>1, <4>2
        <3>2. QED
            BY <2>2, <2>4, <3>1
    <2>5. CASE f[k + 1] = Append(f[k], s[k + 1])
        <3> DEFINE t == f[k]
                   e == s[k + 1]
        <3>1. t \in Seq(Resolver!Entry) /\ e \in Resolver!Entry
            BY <1>1, <2>1, ElementOfSeq DEF Filters
        <3>2. From(t, k) /\ OneEntry(t) /\ f[k + 1] = Append(t, e)
            BY <2>2, <2>5
        <3>3. \A i \in 1 .. k : s[i].host # e.host
            <4> SUFFICES ASSUME NEW i \in 1 .. k, s[i].host = s[k + 1].host
                         PROVE  FALSE
                OBVIOUS
            <4>1. i \in 1 .. Len(s)
                BY <1>0, <2>1
            <4>2. i = k + 1
                BY <2>1, <4>1 DEF OneEntry
            <4>3. QED
                BY <4>2
        <3>4. \E i \in 1 .. k + 1 : e = s[i]
            <4>1. k + 1 \in 1 .. k + 1
                OBVIOUS
            <4>2. QED
                BY <4>1
        <3> HIDE DEF t, e
        <3>5. /\ Len(Append(t, e)) = Len(t) + 1 /\ Len(t) \in Nat
              /\ \A j \in 1 .. Len(t) : Append(t, e)[j] = t[j]
              /\ Append(t, e)[Len(t) + 1] = e
            BY <3>1, AppendProperties
        <3>6. \A j \in 1 .. Len(t) + 1 : j \in 1 .. Len(t) \/ j = Len(t) + 1
            BY <3>5
        <3>7. ASSUME NEW j \in 1 .. Len(t) + 1
              PROVE  \E i \in 1 .. k + 1 : Append(t, e)[j] = s[i]
            <4>1. CASE j = Len(t) + 1
                BY <3>4, <3>5, <4>1
            <4>2. CASE j \in 1 .. Len(t)
                <5>1. PICK i \in 1 .. k : t[j] = s[i]
                    BY <3>2, <4>2
                <5>2. i \in 1 .. k + 1
                    OBVIOUS
                <5>3. QED
                    BY <3>5, <4>2, <5>1, <5>2
            <4>3. QED
                BY <3>6, <4>1, <4>2
        <3>8. \A j \in 1 .. Len(t) : t[j].host # e.host
            BY <3>2, <3>3
        <3>9. OneEntry(Append(t, e))
            <4> SUFFICES ASSUME NEW i \in 1 .. Len(t) + 1, NEW j \in 1 .. Len(t) + 1,
                                Append(t, e)[i].host = Append(t, e)[j].host
                         PROVE  i = j
                BY <3>5 DEF OneEntry
            <4>1. CASE i = Len(t) + 1
                BY <3>5, <3>6, <3>8, <4>1
            <4>2. CASE j = Len(t) + 1
                BY <3>5, <3>6, <3>8, <4>2
            <4>3. CASE i \in 1 .. Len(t) /\ j \in 1 .. Len(t)
                BY <3>2, <3>5, <4>3 DEF OneEntry
            <4>4. QED
                BY <3>6, <4>1, <4>2, <4>3
        <3>10. QED
            BY <3>2, <3>5, <3>7, <3>9
    <2>6. QED
        BY <2>3, <2>4, <2>5
<1>4. Nat \subseteq S
    <2> HIDE DEF S
    <2> QED
        BY <1>2, <1>3, Induction
<1>5. From(f[Len(s)], Len(s)) /\ OneEntry(f[Len(s)])
    BY <1>0, <1>4
<1>6. f[Len(s)] \in Seq(Resolver!Entry)
    BY <1>0, <1>1 DEF Filters
<1>7. QED
    BY <1>1, <1>5, <1>6, UnexpiredIs DEF PartOf

\* MakeRoom leaves part of the dict, and room for one.
LEMMA RoomFacts ==
    ASSUME NEW s \in Seq(Resolver!Entry), OneEntry(s), NEW spent
    PROVE  PartOf(Resolver!MakeRoom(s, spent), s) /\ Len(Resolver!MakeRoom(s, spent)) < MaxNames
<1>0. MaxNames \in Nat \ {0} /\ Len(s) \in Nat
    BY ResolverAssumption DEF Resolver!DnsConstants
<1>1. CASE Len(s) < MaxNames
    <2>1. Resolver!MakeRoom(s, spent) = s
        BY <1>1 DEF Resolver!MakeRoom
    <2>2. QED
        BY <1>1, <2>1 DEF PartOf
<1>2. CASE ~(Len(s) < MaxNames)
    <2> DEFINE live == Resolver!Unexpired(s, spent)
               m == Len(live) - MaxNames + 2
    <2>1. PartOf(live, s)
        BY UnexpiredFacts
    <2>2. Resolver!MakeRoom(s, spent) = IF Len(live) < MaxNames THEN live
                ELSE SubSeq(live, m, Len(live))
        BY <1>2 DEF Resolver!MakeRoom
    <2> HIDE DEF live
    <2>3. live \in Seq(Resolver!Entry) /\ Len(live) \in Nat
        BY <2>1 DEF PartOf
    <2>4. CASE Len(live) < MaxNames
        BY <2>1, <2>2, <2>4
    <2>5. CASE ~(Len(live) < MaxNames)
        <3> DEFINE t == SubSeq(live, m, Len(live))
        <3>1. m \in 1 .. Len(live) + 1 /\ m \in Int /\ Len(live) \in Int
            BY <1>0, <2>3, <2>5
        <3>2. \A i \in m .. Len(live) : live[i] \in Resolver!Entry
            BY <2>3, <3>1, ElementOfSeq
        <3> HIDE DEF m
        <3>3. /\ t \in Seq(Resolver!Entry)
              /\ Len(t) = IF m <= Len(live) THEN Len(live) - m + 1 ELSE 0
              /\ \A i \in 1 .. Len(live) - m + 1 : t[i] = live[m + i - 1]
            BY <3>1, <3>2, SubSeqProperties
        <3> HIDE DEF t
        <3>4. Len(t) = Len(live) - m + 1
            BY <3>1, <3>3
        <3>5. Len(t) < MaxNames
            BY <1>0, <2>3, <3>4 DEF m
        <3>6. ASSUME NEW i \in 1 .. Len(t)
              PROVE  t[i] = live[m + i - 1] /\ m + i - 1 \in 1 .. Len(live)
            BY <2>3, <3>1, <3>3, <3>4
        <3>7. ASSUME NEW j \in 1 .. Len(t)
              PROVE  \E i \in 1 .. Len(s) : t[j] = s[i]
            BY <2>1, <3>6 DEF PartOf
        <3>8. OneEntry(t)
            <4> SUFFICES ASSUME NEW i \in 1 .. Len(t), NEW j \in 1 .. Len(t), t[i].host = t[j].host
                         PROVE  i = j
                BY DEF OneEntry
            <4> DEFINE a == m + i - 1
                       b == m + j - 1
            <4>0. a \in 1 .. Len(live) /\ b \in 1 .. Len(live) /\ live[a].host = live[b].host
                BY <3>6
            <4>1. a = b
                <5> HIDE DEF a, b
                <5> QED
                    BY <2>1, <4>0 DEF PartOf, OneEntry
            <4>2. i \in Int /\ j \in Int
                OBVIOUS
            <4>3. QED
                BY <3>1, <4>1, <4>2
        <3>9. Resolver!MakeRoom(s, spent) = t
            BY <2>2, <2>5 DEF t
        <3>10. QED
            BY <3>3, <3>5, <3>7, <3>8, <3>9 DEF PartOf
    <2>6. QED
        BY <2>4, <2>5
<1>3. QED
    BY <1>1, <1>2

-----------------------------------------------------------------------------
(* The dict of the names *)

DnsInv == Resolver!TypeOK /\ Resolver!NamesAreCapped /\ Resolver!VerdictsAreRecent

\* An answer is that of a host not asked for long.
LEMMA Numbers ==
    /\ TTL \in Nat \ {0} /\ MaxWait \in Nat /\ MaxNames \in Nat \ {0}
    /\ Nobody \notin Hosts
    BY ResolverAssumption DEF Resolver!DnsConstants

\* What is true of the dict, given since when the verdicts are.
DnsDict(n) ==
    /\ n \in Seq(Resolver!Entry) /\ Len(n) <= MaxNames /\ OneEntry(n)
    /\ \A i \in 1 .. Len(n) :
           n[i].left > 0 => since[<<n[i].host, n[i].verdict>>] <= TTL - n[i].left

LEMMA InvIsDict ==
    DnsInv <=> /\ DnsDict(names)
               /\ lookup \in [Lookups -> Resolver!Lookup]
               /\ public \in [Hosts -> BOOLEAN]
               /\ since \in [Hosts \X BOOLEAN -> 0 .. TTL + 1]
<1>1. names \in Seq(Resolver!Entry) => DOMAIN names = 1 .. Len(names)
    OBVIOUS
<1>2. QED
    BY <1>1
       DEF DnsInv, DnsDict, Resolver!TypeOK, Resolver!NamesAreCapped, Resolver!VerdictsAreRecent,
           OneEntry, Resolver!IsFresh

\* Storing the answer of a lookup keeps the dict as it must be.
LEMMA StoredDict ==
    ASSUME DnsInv, NEW h \in Hosts, NEW verdict \in BOOLEAN, NEW spent \in 0 .. MaxWait,
           since[<<h, verdict>>] <= spent
    PROVE  DnsDict(Resolver!Stored(h, verdict, spent))
<1> DEFINE e == [host |-> h, verdict |-> verdict, left |-> TTL - spent]
<1>0. DnsDict(names)
    BY InvIsDict
<1>1. e \in Resolver!Entry
    BY Numbers DEF Resolver!Entry
<1>2. e.host = h /\ e.left > 0 => since[<<e.host, e.verdict>>] <= TTL - e.left
    BY Numbers
<1>3. e.host = h
    OBVIOUS
<1>4. Resolver!Stored(h, verdict, spent) =
          IF Resolver!Known(h) THEN [i \in DOMAIN names |-> IF names[i].host = h THEN e ELSE names[i]]
          ELSE Append(Resolver!MakeRoom(names, spent), e)
    BY DEF Resolver!Stored
<1> HIDE DEF e
<1>5. CASE Resolver!Known(h)
    <2> DEFINE n == [i \in DOMAIN names |-> IF names[i].host = h THEN e ELSE names[i]]
    <2>1. names \in Seq(Resolver!Entry) /\ Len(names) \in Nat /\ DOMAIN names = 1 .. Len(names)
        BY <1>0 DEF DnsDict
    <2>2. \A i \in 1 .. Len(names) : names[i] \in Resolver!Entry
        BY <2>1, ElementOfSeq
    <2>3. n \in [1 .. Len(names) -> Resolver!Entry]
        BY <1>1, <2>1, <2>2
    <2>4. n \in Seq(Resolver!Entry) /\ Len(n) = Len(names)
        BY <2>1, <2>3
    <2>5. \A i \in 1 .. Len(names) :
              n[i] = (IF names[i].host = h THEN e ELSE names[i]) /\ n[i].host = names[i].host
        BY <1>3, <2>1
    <2> HIDE DEF n
    <2>6. OneEntry(n)
        BY <1>0, <2>4, <2>5 DEF OneEntry, DnsDict
    <2>7. ASSUME NEW i \in 1 .. Len(n), n[i].left > 0
          PROVE  since[<<n[i].host, n[i].verdict>>] <= TTL - n[i].left
        BY <1>0, <1>2, <2>4, <2>5, <2>7 DEF DnsDict
    <2>8. DnsDict(n)
        BY <1>0, <2>4, <2>6, <2>7 DEF DnsDict
    <2>9. QED
        BY <1>4, <1>5, <2>8 DEF n
<1>6. CASE ~Resolver!Known(h)
    <2> DEFINE t == Resolver!MakeRoom(names, spent)
               n == Append(t, e)
    <2>1. names \in Seq(Resolver!Entry) /\ OneEntry(names) /\ DOMAIN names = 1 .. Len(names)
        BY <1>0 DEF DnsDict
    <2>2. PartOf(t, names) /\ Len(t) < MaxNames
        BY <2>1, RoomFacts
    <2>3. \A i \in 1 .. Len(names) : names[i].host # h
        BY <1>6, <2>1 DEF Resolver!Known
    <2>4. Resolver!Stored(h, verdict, spent) = n
        BY <1>4, <1>6
    <2> HIDE DEF t
    <2>5. t \in Seq(Resolver!Entry) /\ OneEntry(t) /\ Len(t) \in Nat
        BY <2>2 DEF PartOf
    <2>6. /\ n \in Seq(Resolver!Entry) /\ Len(n) = Len(t) + 1 /\ n[Len(t) + 1] = e
          /\ \A i \in 1 .. Len(t) : n[i] = t[i]
        BY <1>1, <2>5, AppendProperties
    <2> HIDE DEF n
    <2>7. \A i \in 1 .. Len(n) : i \in 1 .. Len(t) \/ i = Len(t) + 1
        BY <2>5, <2>6
    <2>8. ASSUME NEW i \in 1 .. Len(t)
          PROVE  /\ t[i].host # h
                 /\ t[i].left > 0 => since[<<t[i].host, t[i].verdict>>] <= TTL - t[i].left
        <3>1. PICK j \in 1 .. Len(names) : t[i] = names[j]
            BY <2>2 DEF PartOf
        <3>2. QED
            BY <1>0, <2>3, <3>1 DEF DnsDict
    <2>9. OneEntry(n)
        <3> SUFFICES ASSUME NEW i \in 1 .. Len(n), NEW j \in 1 .. Len(n), n[i].host = n[j].host
                     PROVE  i = j
            BY DEF OneEntry
        <3>1. CASE i = Len(t) + 1
            BY <1>3, <2>6, <2>7, <2>8, <3>1
        <3>2. CASE j = Len(t) + 1
            BY <1>3, <2>6, <2>7, <2>8, <3>2
        <3>3. CASE i \in 1 .. Len(t) /\ j \in 1 .. Len(t)
            BY <2>5, <2>6, <3>3 DEF OneEntry
        <3>4. QED
            BY <2>7, <3>1, <3>2, <3>3
    <2>10. ASSUME NEW i \in 1 .. Len(n), n[i].left > 0
           PROVE  since[<<n[i].host, n[i].verdict>>] <= TTL - n[i].left
        <3>1. CASE i = Len(t) + 1
            BY <1>2, <1>3, <2>6, <2>10, <3>1
        <3>2. CASE i \in 1 .. Len(t)
            BY <2>6, <2>8, <2>10, <3>2
        <3>3. QED
            BY <2>7, <3>1, <3>2
    <2>11. Len(n) <= MaxNames
        BY Numbers, <2>2, <2>5, <2>6
    <2>12. QED
        BY <2>4, <2>6, <2>9, <2>10, <2>11 DEF DnsDict
<1>7. QED
    BY <1>5, <1>6

LEMMA AnswerInv ==
    ASSUME DnsInv, NEW l \in Lookups, NEW verdict \in BOOLEAN, Resolver!Answer(l, verdict)
    PROVE  DnsInv'
<1> DEFINE h == lookup[l].host
           spent == lookup[l].spent
<1>1. lookup[l] \in Resolver!Lookup
    BY DEF DnsInv, Resolver!TypeOK
<1>2. h \in Hosts /\ spent \in 0 .. MaxWait /\ since[<<h, verdict>>] <= spent
    BY <1>1 DEF Resolver!Lookup, Resolver!Answer
<1>3. names' = Resolver!Stored(h, verdict, spent) /\ since' = since /\ public' = public
      /\ lookup' = [lookup EXCEPT ![l] = Resolver!Idle]
    BY DEF Resolver!Answer
<1> HIDE DEF h, spent
<1>4. DnsDict(Resolver!Stored(h, verdict, spent))
    BY <1>2, StoredDict
<1>5. Resolver!Idle \in Resolver!Lookup
    BY Numbers DEF Resolver!Idle, Resolver!Lookup
<1>6. lookup' \in [Lookups -> Resolver!Lookup]
    BY <1>3, <1>5 DEF DnsInv, Resolver!TypeOK
<1>7. DnsDict(names)'
    BY <1>3, <1>4 DEF DnsDict
<1>8. DOMAIN names' = 1 .. Len(names')
    BY <1>7 DEF DnsDict
<1>9. QED
    BY <1>3, <1>6, <1>7, <1>8
       DEF DnsInv, Resolver!TypeOK, DnsDict, Resolver!NamesAreCapped, Resolver!VerdictsAreRecent,
           OneEntry, Resolver!IsFresh

LEMMA TickInv ==
    ASSUME DnsInv, Resolver!Tick
    PROVE  DnsInv'
<1>0. /\ DnsDict(names) /\ lookup \in [Lookups -> Resolver!Lookup] /\ public \in [Hosts -> BOOLEAN]
      /\ since \in [Hosts \X BOOLEAN -> 0 .. TTL + 1]
    BY InvIsDict
<1>1. names \in Seq(Resolver!Entry) /\ Len(names) \in Nat /\ DOMAIN names = 1 .. Len(names)
    BY <1>0 DEF DnsDict
<1>2. /\ names' = [i \in 1 .. Len(names) |->
                      [names[i] EXCEPT !.left = IF @ > -MaxWait THEN @ - 1 ELSE @]]
      /\ public' = public
    BY <1>1 DEF Resolver!Tick
<1>3. ASSUME NEW i \in 1 .. Len(names)
      PROVE  /\ names'[i] \in Resolver!Entry
             /\ names'[i].host = names[i].host /\ names'[i].verdict = names[i].verdict
             /\ names'[i].left = IF names[i].left > -MaxWait THEN names[i].left - 1 ELSE names[i].left
    <2>1. names[i] \in Resolver!Entry
        BY <1>1, ElementOfSeq
    <2>2. names[i].left \in -MaxWait .. TTL
        BY <2>1 DEF Resolver!Entry
    <2> DEFINE left == IF names[i].left > -MaxWait THEN names[i].left - 1 ELSE names[i].left
    <2>3. left \in -MaxWait .. TTL
        BY Numbers, <2>2
    <2>4. names'[i] = [names[i] EXCEPT !.left = left]
        BY <1>2
    <2> HIDE DEF left
    <2>5. /\ names'[i] \in Resolver!Entry /\ names'[i].left = left
          /\ names'[i].host = names[i].host /\ names'[i].verdict = names[i].verdict
        BY <2>1, <2>3, <2>4 DEF Resolver!Entry
    <2>6. QED
        BY <2>5 DEF left
<1>4. names' \in Seq(Resolver!Entry) /\ Len(names') = Len(names)
    <2>1. names' \in [1 .. Len(names) -> Resolver!Entry]
        BY <1>2, <1>3
    <2>2. QED
        BY <1>1, <2>1
<1>5. ASSUME NEW v \in Hosts \X BOOLEAN
      PROVE  since'[v] \in 0 .. TTL + 1 /\ (since[v] <= TTL => since'[v] <= since[v] + 1)
    <2>1. since[v] \in 0 .. TTL + 1
        BY <1>0
    <2>2. since'[v] = IF v[2] = public[v[1]] THEN 0
                      ELSE IF since[v] <= TTL THEN since[v] + 1 ELSE since[v]
        BY DEF Resolver!Tick
    <2>3. QED
        BY Numbers, <2>1, <2>2
<1>6. since' \in [Hosts \X BOOLEAN -> 0 .. TTL + 1]
    BY <1>5 DEF Resolver!Tick
<1>7. lookup' \in [Lookups -> Resolver!Lookup]
    <2>1. ASSUME NEW l \in Lookups
          PROVE  (IF lookup[l].host = Nobody THEN Resolver!Idle
                  ELSE [lookup[l] EXCEPT !.spent = @ + 1]) \in Resolver!Lookup
        <3>1. lookup[l] \in Resolver!Lookup
            BY <1>0
        <3>2. CASE lookup[l].host = Nobody
            BY <3>2, Numbers DEF Resolver!Idle, Resolver!Lookup
        <3>3. CASE lookup[l].host # Nobody
            <4>1. lookup[l].spent < MaxWait /\ lookup[l].spent \in 0 .. MaxWait
                BY <3>1, <3>3 DEF Resolver!Tick, Resolver!Lookup
            <4>2. lookup[l].spent + 1 \in 0 .. MaxWait
                BY Numbers, <4>1
            <4>3. QED
                BY <3>1, <3>3, <4>2 DEF Resolver!Lookup
        <3>4. QED
            BY <3>2, <3>3
    <2>2. QED
        BY <2>1 DEF Resolver!Tick
<1>8. OneEntry(names')
    BY <1>0, <1>3, <1>4 DEF OneEntry, DnsDict
<1>9. ASSUME NEW i \in 1 .. Len(names'), names'[i].left > 0
      PROVE  since'[<<names'[i].host, names'[i].verdict>>] <= TTL - names'[i].left
    <2>1. i \in 1 .. Len(names) /\ names[i] \in Resolver!Entry
        BY <1>1, <1>4, ElementOfSeq
    <2> DEFINE v == <<names[i].host, names[i].verdict>>
    <2>2. names[i].left \in -MaxWait .. TTL /\ v \in Hosts \X BOOLEAN
        BY <2>1 DEF Resolver!Entry
    <2>3. names'[i].left = names[i].left - 1 /\ names[i].left > 0
        BY Numbers, <1>3, <1>9, <2>1, <2>2
    <2>4. since[v] <= TTL - names[i].left
        BY <1>0, <2>1, <2>3 DEF DnsDict
    <2>5. since[v] \in 0 .. TTL + 1 /\ since'[v] \in 0 .. TTL + 1
        BY <1>0, <1>5, <2>2
    <2>6. <<names'[i].host, names'[i].verdict>> = v
        BY <1>3, <2>1
    <2> HIDE DEF v
    <2>7. since[v] <= TTL
        BY Numbers, <2>2, <2>3, <2>4, <2>5
    <2>8. since'[v] <= since[v] + 1
        BY <1>5, <2>2, <2>7
    <2>9. since'[v] <= TTL - names'[i].left
        BY SMTT(30), Numbers, <2>2, <2>3, <2>4, <2>5, <2>8
    <2>10. QED
        BY <2>6, <2>9
<1>10. Len(names') <= MaxNames
    BY <1>0, <1>4 DEF DnsDict
<1>11. public' \in [Hosts -> BOOLEAN]
    BY <1>0, <1>2
<1>12. DOMAIN names' = 1 .. Len(names')
    BY <1>4
<1>13. QED
    BY <1>4, <1>6, <1>7, <1>8, <1>9, <1>10, <1>11, <1>12
       DEF DnsInv, Resolver!TypeOK, Resolver!NamesAreCapped, Resolver!VerdictsAreRecent,
           OneEntry, Resolver!IsFresh

LEMMA ChangeInv ==
    ASSUME DnsInv, NEW h \in Hosts, Resolver!Change(h)
    PROVE  DnsInv'
<1>0. /\ DnsDict(names) /\ lookup \in [Lookups -> Resolver!Lookup] /\ public \in [Hosts -> BOOLEAN]
      /\ since \in [Hosts \X BOOLEAN -> 0 .. TTL + 1]
    BY InvIsDict
<1>1. names' = names /\ lookup' = lookup
    BY DEF Resolver!Change
<1>2. public' \in [Hosts -> BOOLEAN] /\ (~public[h]) \in BOOLEAN
    BY <1>0 DEF Resolver!Change
<1>3. /\ since' \in [Hosts \X BOOLEAN -> 0 .. TTL + 1]
      /\ \A v \in Hosts \X BOOLEAN : since'[v] = since[v] \/ since'[v] = 0
    <2> DEFINE v == <<h, ~public[h]>>
    <2>1. v \in Hosts \X BOOLEAN
        BY <1>2
    <2>2. since' = [since EXCEPT ![v] = 0]
        BY DEF Resolver!Change
    <2> HIDE DEF v
    <2>3. QED
        BY <1>0, <2>1, <2>2, Numbers
<1>4. ASSUME NEW i \in 1 .. Len(names), names[i].left > 0
      PROVE  since'[<<names[i].host, names[i].verdict>>] <= TTL - names[i].left
    <2>1. names[i] \in Resolver!Entry
        BY <1>0, ElementOfSeq DEF DnsDict
    <2>2. names[i].left \in -MaxWait .. TTL /\ <<names[i].host, names[i].verdict>> \in Hosts \X BOOLEAN
        BY <2>1 DEF Resolver!Entry
    <2>3. since[<<names[i].host, names[i].verdict>>] <= TTL - names[i].left
        BY <1>0, <1>4 DEF DnsDict
    <2>4. QED
        BY Numbers, <1>3, <2>2, <2>3
<1>5. DnsDict(names)'
    BY <1>0, <1>1, <1>4 DEF DnsDict
<1>6. QED
    BY <1>0, <1>1, <1>2, <1>3, <1>5
       DEF DnsInv, Resolver!TypeOK, DnsDict, Resolver!NamesAreCapped, Resolver!VerdictsAreRecent,
           OneEntry, Resolver!IsFresh

LEMMA DnsNext == DnsInv /\ [Resolver!Next]_Resolver!vars => DnsInv'
<1> SUFFICES ASSUME DnsInv, [Resolver!Next]_Resolver!vars
             PROVE  DnsInv'
    OBVIOUS
<1> DEFINE Same == names' = names /\ public' = public /\ since' = since
<1>1. ASSUME Same, lookup' \in [Lookups -> Resolver!Lookup]
      PROVE  DnsInv'
    BY <1>1
       DEF DnsInv, Resolver!TypeOK, Resolver!NamesAreCapped, Resolver!VerdictsAreRecent,
           Resolver!IsFresh
<1>2. lookup \in [Lookups -> Resolver!Lookup] /\ Resolver!Idle \in Resolver!Lookup
    BY Numbers DEF DnsInv, Resolver!TypeOK, Resolver!Idle, Resolver!Lookup
<1>3. ASSUME NEW h \in Hosts, Resolver!Change(h)
      PROVE  DnsInv'
    BY <1>3, ChangeInv
<1>4. CASE Resolver!Tick
    BY <1>4, TickInv
<1>5. ASSUME NEW h \in Hosts, Resolver!Hit(h)
      PROVE  DnsInv'
    BY <1>1, <1>2, <1>5 DEF Resolver!Hit, Resolver!vars
<1>6. ASSUME NEW l \in Lookups, NEW h \in Hosts, Resolver!Ask(l, h)
      PROVE  DnsInv'
    <2>1. [Resolver!Idle EXCEPT !.host = h] \in Resolver!Lookup
        BY <1>2 DEF Resolver!Lookup
    <2>2. QED
        BY <1>1, <1>2, <1>6, <2>1 DEF Resolver!Ask
<1>7. ASSUME NEW l \in Lookups, NEW verdict \in BOOLEAN, Resolver!Answer(l, verdict)
      PROVE  DnsInv'
    BY <1>7, AnswerInv
<1>8. ASSUME NEW l \in Lookups, Resolver!Retry(l)
      PROVE  DnsInv'
    <2>1. [lookup[l] EXCEPT !.tries = 1] \in Resolver!Lookup
        BY <1>2 DEF Resolver!Lookup
    <2>2. QED
        BY <1>1, <1>2, <1>8, <2>1 DEF Resolver!Retry
<1>9. ASSUME NEW l \in Lookups, Resolver!Fail(l)
      PROVE  DnsInv'
    BY <1>1, <1>2, <1>9 DEF Resolver!Fail
<1>10. CASE UNCHANGED Resolver!vars
    BY <1>1, <1>2, <1>10 DEF Resolver!vars
<1>11. QED
    BY <1>3, <1>4, <1>5, <1>6, <1>7, <1>8, <1>9, <1>10 DEF Resolver!Next

LEMMA DnsInit == Resolver!Init => DnsInv
<1> SUFFICES ASSUME Resolver!Init
             PROVE  DnsInv
    OBVIOUS
<1>1. names = <<>> /\ names \in Seq(Resolver!Entry) /\ Len(names) = 0 /\ DOMAIN names = {}
    BY DEF Resolver!Init
<1>2. lookup \in [Lookups -> Resolver!Lookup] /\ public \in [Hosts -> BOOLEAN]
    BY Numbers DEF Resolver!Init, Resolver!Idle, Resolver!Lookup
<1>3. since \in [Hosts \X BOOLEAN -> 0 .. TTL + 1]
    BY Numbers DEF Resolver!Init
<1>4. QED
    BY Numbers, <1>1, <1>2, <1>3
       DEF DnsInv, Resolver!TypeOK, Resolver!NamesAreCapped, Resolver!VerdictsAreRecent

LEMMA DnsInvariance == Resolver!Spec => []DnsInv
    BY DnsInit, DnsNext, PTL DEF Resolver!Spec
-----------------------------------------------------------------------------
(* Both caches *)

\* Neither cache grows past its caps, and the bytes counted for the images are
\* those of the entries kept, however many fetches and lookups end at once.
THEOREM CachesStayCapped == Images!Spec /\ Resolver!Spec => []CachesAreCapped
<1>1. ImgInv /\ DnsInv => CachesAreCapped
    BY DEF ImgInv, DnsInv, CachesAreCapped
<1>2. QED
    BY <1>1, ImgInvariance, DnsInvariance, PTL

\* A verdict the resolver's cache may give was the true one at most TTL ago.
THEOREM VerdictsStayRecent == Resolver!Spec => []VerdictsAreRecent
<1>1. DnsInv => VerdictsAreRecent
    BY DEF DnsInv, VerdictsAreRecent
<1>2. QED
    BY <1>1, DnsInvariance, PTL
=============================================================================
