-------------------------- MODULE ControllerProofs --------------------------
(* Proofs about three parts of the controller that share no state: the      *)
(* middleware, for all keys, roles, rates and periods that the assumptions  *)
(* of Admission allow; HealthChecker, for every set of dependencies, every  *)
(* number of endpoints, and all intervals and timeouts that                 *)
(* HealthAssumption allows; and ExportService, for every data source, size  *)
(* of a chunk, set of requests, number of jobs and second of the clock.     *)
EXTENDS Admission, Health, Exports, DataLemmas, SequenceTheorems, TLAPS

-----------------------------------------------------------------------------
(* The middleware (Admission). *)

LEMMA ConfigTypes ==
    /\ BurstSize \in Nat \ {0} /\ CleanupPeriod \in Nat \ {0}
    /\ Minute \in Nat \ {0} /\ MaxTime \in Nat
BY ConfigAssumption

LEMMA RateType ==
    ASSUME NEW k, NEW r
    PROVE  RPS(k, r) \in Nat \ {0} /\ RPS(k, r) * 2 * CleanupPeriod >= BurstSize
<1>1. RPS(k, r) \in Rates
  BY DEF RPS, Rates
<1>2. QED
  BY <1>1, ConfigAssumption, IdleRefillsAssumption

LEMMA MinOfTwo ==
    ASSUME NEW m \in Nat, NEW n \in Nat
    PROVE  Min({m, n}) = IF m <= n THEN m ELSE n
<1>1. Min({m, n}) = CHOOSE x \in {m, n} : \A y \in {m, n} : x <= y
  BY DEF Min
<1>2. \E x \in {m, n} : \A y \in {m, n} : x <= y
  OBVIOUS
<1>3. QED
  BY <1>1, <1>2

\* Products: time that passes refills the bucket, never empties it.
LEMMA Refill ==
    ASSUME NEW rps \in Nat, NEW m \in Nat, NEW n \in Nat, m <= n
    PROVE  /\ rps * (n - m) \in Nat
           /\ rps * ((n + 1) - m) = rps * (n - m) + rps
           /\ rps * (m - m) = 0
OBVIOUS

\* A minute begins no later than any of its instants.
LEMMA MinuteBegins ==
    ASSUME NEW t \in Nat
    PROVE  t \div Minute \in Nat /\ Minute * (t \div Minute) <= t
BY ConfigTypes

LEMMA TokensType ==
    ASSUME NEW b \in Bucket, NEW rps \in Nat, b.last <= now, now \in 0..MaxTime
    PROVE  /\ Tokens(b, rps) \in 0..BurstSize
           /\ Tokens(b, rps) <= b.tokens + rps * (now - b.last)
           /\ b.tokens + rps * (now - b.last) >= BurstSize => Tokens(b, rps) = BurstSize
           /\ b.tokens + rps * (now - b.last) \in Nat
<1>1. b.tokens \in 0..BurstSize /\ b.last \in Nat /\ now \in Nat /\ BurstSize \in Nat
  BY ConfigTypes DEF Bucket
<1>2. rps * (now - b.last) \in Nat
  BY <1>1, Refill
<1> DEFINE all == b.tokens + rps * (now - b.last)
<1>3. all \in Nat
  BY <1>1, <1>2
<1>4. Tokens(b, rps) = IF BurstSize <= all THEN BurstSize ELSE all
  BY <1>1, <1>3, MinOfTwo DEF Tokens
<1>5. QED
  BY <1>1, <1>3, <1>4

----------------------------------------------------------------------------
(* Types.  A bucket is never ahead of the clock, so a refill adds tokens.   *)

BucketsInTime ==
    \A p \in DOMAIN limiters :
        limiters[p].last <= limiters[p].lastSeen /\ limiters[p].lastSeen <= now

TypeInv == AdmissionTypeOK /\ BucketsInTime

\* What a pair could get through at this moment.
Available(p) ==
    IF p \in DOMAIN limiters THEN Tokens(limiters[p], RPS(p[1], p[2])) ELSE BurstSize

LEMMA GetLimiterType ==
    ASSUME TypeInv, NEW k \in Keys, NEW r \in Roles
    PROVE  /\ GetLimiter(k, r) \in Bucket
           /\ GetLimiter(k, r).last <= now /\ GetLimiter(k, r).lastSeen = now
           /\ Tokens(GetLimiter(k, r), RPS(k, r)) \in 0..BurstSize
           /\ Tokens(GetLimiter(k, r), RPS(k, r)) = Available(<<k, r>>)
<1> DEFINE p == <<k, r>>
           b == GetLimiter(k, r)
<1>1. now \in 0..MaxTime /\ now \in Nat
  BY ConfigTypes DEF TypeInv, AdmissionTypeOK
<1>2. RPS(k, r) \in Nat
  BY RateType
<1>3. CASE p \in DOMAIN limiters
  <2>1. limiters[p] \in Bucket
    BY <1>3 DEF TypeInv, AdmissionTypeOK
  <2>2. limiters[p].last <= limiters[p].lastSeen /\ limiters[p].lastSeen <= now
    BY <1>3 DEF TypeInv, BucketsInTime
  <2>3. limiters[p].last \in Nat /\ limiters[p].lastSeen \in Nat
    BY <2>1, ConfigTypes DEF Bucket
  <2>4. b = [limiters[p] EXCEPT !.lastSeen = now]
    BY <1>3 DEF GetLimiter
  <2>5. /\ b \in Bucket /\ b.lastSeen = now
        /\ b.last = limiters[p].last /\ b.tokens = limiters[p].tokens
    BY <2>1, <2>4, <1>1 DEF Bucket
  <2>6. b.last <= now
    BY <1>1, <2>2, <2>3, <2>5
  <2>7. Tokens(b, RPS(k, r)) = Tokens(limiters[p], RPS(k, r))
    BY <2>5 DEF Tokens
  <2>8. Tokens(b, RPS(k, r)) = Available(p)
    BY <1>3, <2>7 DEF Available
  <2>9. QED
    BY <1>1, <1>2, <2>5, <2>6, <2>8, TokensType
<1>4. CASE p \notin DOMAIN limiters
  <2>1. b = [tokens |-> BurstSize, last |-> now, lastSeen |-> now]
    BY <1>4 DEF GetLimiter
  <2>2. b \in Bucket /\ b.last = now /\ b.lastSeen = now /\ b.tokens = BurstSize
    BY <1>1, <2>1, ConfigTypes DEF Bucket
  <2>3. b.tokens + RPS(k, r) * (now - b.last) = BurstSize
    BY <1>1, <1>2, <2>2, Refill, ConfigTypes
  <2>4. Tokens(b, RPS(k, r)) = BurstSize
    BY <1>1, <1>2, <2>2, <2>3, TokensType, ConfigTypes
  <2>5. QED
    BY <1>1, <1>4, <2>2, <2>4, ConfigTypes DEF Available
<1>5. QED
  BY <1>3, <1>4

\* A bucket that is stored has its type and is not ahead of the clock.
LEMMA StoreType ==
    ASSUME TypeInv, NEW p \in Pairs, NEW b \in Bucket, Store(p, b), now' = now,
           b.last <= b.lastSeen, b.lastSeen <= now
    PROVE  /\ DOMAIN limiters' \subseteq Pairs
           /\ \A q \in DOMAIN limiters' : limiters'[q] \in Bucket
           /\ BucketsInTime'
<1>1. /\ DOMAIN limiters' = DOMAIN limiters \cup {p}
      /\ limiters'[p] = b
      /\ \A q \in DOMAIN limiters \ {p} : limiters'[q] = limiters[q]
  BY DEF Store
<1>2. QED
  BY <1>1 DEF TypeInv, AdmissionTypeOK, BucketsInTime

LEMMA AllowType ==
    ASSUME TypeInv, NEW k \in Keys, NEW r \in Roles, Allow(k, r), now' = now
    PROVE  /\ DOMAIN limiters' \subseteq Pairs
           /\ \A q \in DOMAIN limiters' : limiters'[q] \in Bucket
           /\ BucketsInTime'
           /\ admitted' \in [Pairs -> Seq(0..MaxTime)]
<1> DEFINE b == GetLimiter(k, r)
           n == Tokens(b, RPS(k, r))
<1>1. /\ n >= 1
      /\ Store(<<k, r>>, [b EXCEPT !.tokens = n - 1, !.last = now])
      /\ admitted' = [admitted EXCEPT ![<<k, r>>] = Append(@, now)]
  BY DEF Allow
<1>2. b \in Bucket /\ b.lastSeen = now /\ n \in 0..BurstSize
  BY GetLimiterType
<1>3. now \in 0..MaxTime /\ admitted \in [Pairs -> Seq(0..MaxTime)]
  BY DEF TypeInv, AdmissionTypeOK
<1>4. n - 1 \in 0..BurstSize
  BY <1>1, <1>2, ConfigTypes
<1> HIDE DEF b, n
<1>5. /\ [b EXCEPT !.tokens = n - 1, !.last = now] \in Bucket
      /\ [b EXCEPT !.tokens = n - 1, !.last = now].last = now
      /\ [b EXCEPT !.tokens = n - 1, !.last = now].lastSeen = now
  BY <1>2, <1>3, <1>4 DEF Bucket
<1>6. <<k, r>> \in Pairs
  BY DEF Pairs
<1>7. now <= now
  BY <1>3, ConfigTypes
<1>8. admitted' \in [Pairs -> Seq(0..MaxTime)]
  BY <1>1, <1>3, <1>6
<1>9. QED
  BY <1>1, <1>5, <1>6, <1>7, <1>8, StoreType
LEMMA InitTypeInv == AdmissionInit => TypeInv
BY ConfigTypes DEF AdmissionInit, TypeInv, AdmissionTypeOK, BucketsInTime

LEMMA NextTypeInv == TypeInv /\ [AdmissionNext]_admissionVars => TypeInv'
<1> SUFFICES ASSUME TypeInv, [AdmissionNext]_admissionVars PROVE TypeInv'
  OBVIOUS
<1> DEFINE Views == [etag : Nat, asked : 0..MaxTime, list : Seq(0..MaxTime)]
<1>1. /\ now \in 0..MaxTime /\ experimentList \in Seq(0..MaxTime)
      /\ view \in [Keys -> Views]
  BY DEF TypeInv, AdmissionTypeOK
<1>2. ASSUME NEW k \in Keys, NEW r \in Roles, StartExperiment(k, r)
      PROVE  TypeInv'
  <2>1. experimentList' \in Seq(0..MaxTime) /\ now' = now /\ view' = view
    BY <1>1, <1>2 DEF StartExperiment
  <2>2. QED
    BY <1>1, <1>2, <2>1, AllowType DEF StartExperiment, TypeInv, AdmissionTypeOK
<1>3. ASSUME NEW k \in Keys, NEW r \in Roles, GetExperiments(k, r)
      PROVE  TypeInv'
  <2>1. now' = now /\ experimentList' = experimentList
    BY <1>3 DEF GetExperiments
  <2>2. ETag \in Nat
    <3>1. now \in Nat
      BY <1>1, ConfigTypes
    <3>2. now \div Minute \in Nat
      BY <3>1, MinuteBegins
    <3>3. QED
      BY <3>2 DEF ETag
  <2>3. view' \in [Keys -> Views]
    <3>1. [view[k] EXCEPT !.asked = now] \in Views
      BY <1>1
    <3>2. [etag |-> ETag, asked |-> now, list |-> experimentList] \in Views
      BY <1>1, <2>2
    <3> DEFINE new == IF view[k].etag = ETag
                      THEN [view[k] EXCEPT !.asked = now]
                      ELSE [etag |-> ETag, asked |-> now, list |-> experimentList]
    <3>3. new \in Views
      BY <3>1, <3>2
    <3>4. view' = [view EXCEPT ![k] = new]
      BY <1>3 DEF GetExperiments
    <3> HIDE DEF new, Views
    <3>5. QED
      BY <1>1, <3>3, <3>4
  <2>4. QED
    BY <1>1, <1>3, <2>1, <2>3, AllowType DEF GetExperiments, TypeInv, AdmissionTypeOK
<1>4. ASSUME NEW k \in Keys, NEW r \in Roles, Refuse(k, r)
      PROVE  TypeInv'
  <2>1. <<k, r>> \in Pairs
    BY DEF Pairs
  <2>2. now <= now
    BY <1>1, ConfigTypes
  <2>3. QED
    BY <1>4, <2>1, <2>2, GetLimiterType, StoreType DEF Refuse, TypeInv, AdmissionTypeOK
<1>5. CASE Cleanup
  <2>1. /\ DOMAIN limiters' \subseteq DOMAIN limiters
        /\ \A q \in DOMAIN limiters' : limiters'[q] = limiters[q]
    BY <1>5 DEF Cleanup
  <2>2. QED
    BY <1>5, <2>1 DEF Cleanup, TypeInv, AdmissionTypeOK, BucketsInTime
<1>6. CASE Restart
  BY <1>6 DEF Restart, TypeInv, AdmissionTypeOK, BucketsInTime
<1>7. CASE Tick
  <2>1. now' \in 0..MaxTime /\ now <= now' /\ now \in Nat /\ now' \in Nat
    BY <1>1, <1>7, ConfigTypes DEF Tick
  <2>2. \A q \in DOMAIN limiters : limiters[q].lastSeen \in Nat
    BY ConfigTypes DEF TypeInv, AdmissionTypeOK, Bucket
  <2>3. QED
    BY <1>7, <2>1, <2>2 DEF Tick, TypeInv, AdmissionTypeOK, BucketsInTime
<1>8. CASE UNCHANGED admissionVars
  BY <1>8 DEF admissionVars, TypeInv, AdmissionTypeOK, BucketsInTime
<1>9. QED
  BY <1>2, <1>3, <1>4, <1>5, <1>6, <1>7, <1>8 DEF AdmissionNext

LEMMA Typed == AdmissionSpec => []TypeInv
BY InitTypeInv, NextTypeInv, PTL DEF AdmissionSpec

\* Every variable of the middleware has its type: no bucket is overfull.
THEOREM AdmissionTypes == AdmissionSpec => []AdmissionTypeOK
<1>1. TypeInv => AdmissionTypeOK
  BY DEF TypeInv
<1>2. QED
  BY <1>1, Typed, PTL

----------------------------------------------------------------------------
(* The list of experiments.  A cached list is as old as the minute of its   *)
(* ETag, whatever was listed or lost since.                                 *)

ViewsDated ==
    \A k \in Keys :
        /\ view[k].asked <= now
        /\ IF view[k].etag = 0 THEN view[k].asked = 0
           ELSE view[k].etag = 1 + view[k].asked \div Minute

ListInv == ViewsDated /\ ListLagBelowMinute

LEMMA InitListInv == AdmissionInit => ListInv
BY DEF AdmissionInit, ListInv, ViewsDated, ListLagBelowMinute

LEMMA NextListInv ==
    TypeInv /\ ListInv /\ [AdmissionNext]_admissionVars => ListInv'
<1> SUFFICES ASSUME TypeInv, ListInv, [AdmissionNext]_admissionVars PROVE ListInv'
  OBVIOUS
<1>1. /\ now \in Nat /\ experimentList \in Seq(0..MaxTime)
      /\ view \in [Keys -> [etag : Nat, asked : 0..MaxTime, list : Seq(0..MaxTime)]]
      /\ \A k \in Keys : view[k].asked \in Nat
  BY ConfigTypes DEF TypeInv, AdmissionTypeOK
<1>2. CASE UNCHANGED <<now, experimentList, view>>
  BY <1>2 DEF ListInv, ViewsDated, ListLagBelowMinute
<1>3. ASSUME NEW k \in Keys, NEW r \in Roles, StartExperiment(k, r)
      PROVE  ListInv'
  <2>1. experimentList' = Append(experimentList, now) /\ now' = now /\ view' = view
    BY <1>3 DEF StartExperiment
  <2>2. ViewsDated'
    BY <2>1 DEF ListInv, ViewsDated
  <2>3. ASSUME NEW l \in Keys, NEW m \in DOMAIN experimentList',
               experimentList'[m] < Minute * (view[l].asked \div Minute)
        PROVE  m \in DOMAIN experimentList /\ experimentList'[m] = experimentList[m]
    <3>1. CASE m = Len(experimentList) + 1
      <4>1. experimentList'[m] = now
        BY <1>1, <2>1, <3>1
      <4>2. Minute * (view[l].asked \div Minute) <= view[l].asked
        BY <1>1, MinuteBegins
      <4>3. view[l].asked <= now
        BY DEF ListInv, ViewsDated
      <4>4. Minute * (view[l].asked \div Minute) \in Nat
        BY <1>1, MinuteBegins, ConfigTypes
      <4>5. QED
        BY <1>1, <2>3, <4>1, <4>2, <4>3, <4>4
    <3>2. CASE m # Len(experimentList) + 1
      BY <1>1, <2>1, <3>2
    <3>3. QED
      BY <3>1, <3>2
  <2>4. ListLagBelowMinute'
    BY <2>1, <2>3 DEF ListInv, ListLagBelowMinute
  <2>5. QED
    BY <2>2, <2>4 DEF ListInv
<1>4. ASSUME NEW k \in Keys, NEW r \in Roles, GetExperiments(k, r)
      PROVE  ListInv'
  <2>1. /\ now' = now /\ experimentList' = experimentList
        /\ view' = [view EXCEPT ![k] =
             IF view[k].etag = ETag
             THEN [view[k] EXCEPT !.asked = now]
             ELSE [etag |-> ETag, asked |-> now, list |-> experimentList]]
    BY <1>4 DEF GetExperiments
  <2>2. \A l \in Keys \ {k} : view'[l] = view[l]
    BY <1>1, <2>1
  <2>3. view'[k].etag = ETag /\ view'[k].asked = now
    BY <1>1, <2>1
  <2>4. ETag = 1 + now \div Minute /\ ETag # 0 /\ now \div Minute \in Nat
    <3>1. now \div Minute \in Nat
      BY <1>1, MinuteBegins
    <3>2. \A t \in Nat : 1 + t # 0
      OBVIOUS
    <3>3. QED
      BY <3>1, <3>2 DEF ETag
  <2>5. ViewsDated'
    <3> SUFFICES ASSUME NEW l \in Keys
                 PROVE  /\ view'[l].asked <= now'
                        /\ IF view'[l].etag = 0 THEN view'[l].asked = 0
                           ELSE view'[l].etag = 1 + view'[l].asked \div Minute
      BY DEF ViewsDated
    <3>1. CASE l = k
      BY <1>1, <2>1, <2>3, <2>4, <3>1
    <3>2. CASE l # k
      <4>1. view'[l] = view[l]
        BY <2>2, <3>2
      <4>2. QED
        BY <2>1, <4>1 DEF ListInv, ViewsDated
    <3>3. QED
      BY <3>1, <3>2
  <2>6. ASSUME NEW m \in DOMAIN experimentList,
               experimentList[m] < Minute * (now \div Minute)
        PROVE  m \in DOMAIN view'[k].list /\ view'[k].list[m] = experimentList[m]
    <3>1. CASE view[k].etag = ETag
      <4>1. view'[k].list = view[k].list
        BY <1>1, <2>1, <3>1
      <4>2. view[k].etag = 1 + view[k].asked \div Minute
        BY <2>4, <3>1 DEF ListInv, ViewsDated
      <4>3. view[k].asked \div Minute \in Nat
        BY <1>1, MinuteBegins
      <4>4. view[k].asked \div Minute = now \div Minute
        BY <2>4, <3>1, <4>2, <4>3
      <4>5. QED
        BY <2>6, <4>1, <4>4 DEF ListInv, ListLagBelowMinute
    <3>2. CASE view[k].etag # ETag
      BY <1>1, <2>1, <3>2
    <3>3. QED
      BY <3>1, <3>2
  <2>7. ListLagBelowMinute'
    <3> SUFFICES ASSUME NEW l \in Keys, NEW m \in DOMAIN experimentList,
                        experimentList[m] < Minute * (view'[l].asked \div Minute)
                 PROVE  m \in DOMAIN view'[l].list /\ view'[l].list[m] = experimentList[m]
      BY <2>1 DEF ListLagBelowMinute
    <3>1. CASE l = k
      BY <2>3, <2>6, <3>1
    <3>2. CASE l # k
      <4>1. view'[l] = view[l]
        BY <2>2, <3>2
      <4>2. QED
        BY <4>1 DEF ListInv, ListLagBelowMinute
    <3>3. QED
      BY <3>1, <3>2
  <2>8. QED
    BY <2>5, <2>7 DEF ListInv
<1>5. ASSUME NEW k \in Keys, NEW r \in Roles, Refuse(k, r)
      PROVE  ListInv'
  BY <1>2, <1>5 DEF Refuse
<1>6. CASE Cleanup
  BY <1>2, <1>6 DEF Cleanup
<1>7. CASE Restart
  BY <1>7 DEF Restart, ListInv, ViewsDated, ListLagBelowMinute
<1>8. CASE Tick
  <2>1. now' = now + 1 /\ experimentList' = experimentList /\ view' = view
    BY <1>8 DEF Tick
  <2>2. QED
    BY <1>1, <2>1 DEF ListInv, ViewsDated, ListLagBelowMinute
<1>9. CASE UNCHANGED admissionVars
  BY <1>2, <1>9 DEF admissionVars
<1>10. QED
  BY <1>3, <1>4, <1>5, <1>6, <1>7, <1>8, <1>9 DEF AdmissionNext

\* A client that revalidates misses nothing listed before the minute of its
\* last request, through restarts of the controller
\* (ConditionalGetMiddleware).
THEOREM ListIsCurrent == AdmissionSpec => []ListLagBelowMinute
<1>1. ListInv => ListLagBelowMinute
  BY DEF ListInv
<1>2. QED
  BY <1>1, Typed, InitListInv, NextListInv, PTL DEF AdmissionSpec
----------------------------------------------------------------------------
(* The rate.  What a pair got through since one of its requests, and could  *)
(* get through now, is paid for by the burst and by the time since then.    *)

Paid ==
    \A p \in Pairs : \A i \in DOMAIN admitted[p] :
        /\ admitted[p][i] <= now
        /\ Len(admitted[p]) - i + 1 + Available(p)
             <= BurstSize + RPS(p[1], p[2]) * (now - admitted[p][i])

RateInv == Paid /\ RateBound

LEMMA PairTypes ==
    ASSUME TypeInv, NEW p \in Pairs
    PROVE  /\ RPS(p[1], p[2]) \in Nat
           /\ now \in Nat
           /\ Available(p) \in 0..BurstSize /\ Available(p) \in Nat
           /\ Len(admitted[p]) \in Nat
           /\ \A i \in DOMAIN admitted[p] :
                i \in 1..Len(admitted[p]) /\ admitted[p][i] \in Nat
<1>1. RPS(p[1], p[2]) \in Nat
  BY RateType
<1>2. now \in 0..MaxTime /\ now \in Nat
  BY ConfigTypes DEF TypeInv, AdmissionTypeOK
<1>3. Available(p) \in 0..BurstSize
  <2>1. CASE p \in DOMAIN limiters
    <3>1. limiters[p] \in Bucket
      BY <2>1 DEF TypeInv, AdmissionTypeOK
    <3>2. limiters[p].last <= now
      BY <1>2, <2>1, <3>1, ConfigTypes DEF TypeInv, BucketsInTime, Bucket
    <3>3. QED
      BY <1>1, <1>2, <2>1, <3>1, <3>2, TokensType DEF Available
  <2>2. CASE p \notin DOMAIN limiters
    BY <2>2, ConfigTypes DEF Available
  <2>3. QED
    BY <2>1, <2>2
<1>4. admitted[p] \in Seq(0..MaxTime)
  BY DEF TypeInv, AdmissionTypeOK
<1>5. QED
  BY <1>1, <1>2, <1>3, <1>4, ConfigTypes

LEMMA NextPairTypes ==
    (TypeInv => now \in Nat /\ \A p \in Pairs : Available(p) \in Nat)'
<1>1. TypeInv => now \in Nat /\ \A p \in Pairs : Available(p) \in Nat
  <2> SUFFICES ASSUME TypeInv
               PROVE  now \in Nat /\ \A p \in Pairs : Available(p) \in Nat
    OBVIOUS
  <2>1. now \in Nat
    BY ConfigTypes DEF TypeInv, AdmissionTypeOK
  <2>2. QED
    BY <2>1, PairTypes
<1>2. QED
  BY <1>1, PTL

\* What is paid for stays so while nothing is admitted, and no bucket gets
\* more than the time that passes gives it.
LEMMA RateKept ==
    ASSUME TypeInv, TypeInv', RateInv, admitted' = admitted, now <= now',
           \A p \in Pairs :
               Available(p)' <= Available(p) + RPS(p[1], p[2]) * (now' - now)
    PROVE  RateInv'
<1>1. RateBound'
  BY DEF RateInv, RateBound
<1>2. Paid'
  <2> SUFFICES ASSUME NEW p \in Pairs, NEW i \in DOMAIN admitted[p]
               PROVE  /\ admitted[p][i] <= now'
                      /\ Len(admitted[p]) - i + 1 + Available(p)'
                           <= BurstSize + RPS(p[1], p[2]) * (now' - admitted[p][i])
    BY DEF Paid
  <2> DEFINE t == admitted[p][i]
             rps == RPS(p[1], p[2])
  <2>1. /\ t \in Nat /\ rps \in Nat /\ now \in Nat /\ Available(p) \in Nat
        /\ i \in 1..Len(admitted[p]) /\ Len(admitted[p]) \in Nat
    BY PairTypes
  <2>2. now' \in Nat /\ Available(p)' \in Nat
    BY NextPairTypes
  <2>3. /\ t <= now
        /\ Len(admitted[p]) - i + 1 + Available(p) <= BurstSize + rps * (now - t)
    BY DEF RateInv, Paid
  <2>4. Available(p)' <= Available(p) + rps * (now' - now)
    OBVIOUS
  <2> HIDE DEF t, rps
  <2>5. t <= now'
    BY <2>1, <2>2, <2>3
  <2>6. Len(admitted[p]) - i + 1 \in Int /\ BurstSize \in Nat
    BY <2>1, ConfigTypes
  <2>7. Len(admitted[p]) - i + 1 + Available(p)' <= BurstSize + rps * (now' - t)
    <3> DEFINE x == rps * (now - t)
               y == rps * (now' - now)
               passed == Len(admitted[p]) - i + 1
               before == Available(p)
               after == Available(p)'
    <3>1. rps * (now' - t) = x + y
      BY <2>1, <2>2
    <3>2. x \in Nat /\ y \in Nat
      BY <2>1, <2>2, <2>3, Refill
    <3>3. passed + before <= BurstSize + x /\ after <= before + y
      BY <2>3, <2>4
    <3>4. passed \in Int /\ before \in Nat /\ after \in Nat
      BY <2>1, <2>2, <2>6
    <3> HIDE DEF x, y, passed, before, after
    <3>5. passed + after <= BurstSize + (x + y)
      BY <2>6, <3>2, <3>3, <3>4
    <3>6. QED
      BY <3>1, <3>5 DEF passed, after
  <2>8. QED
    BY <2>5, <2>7 DEF t, rps
<1>3. QED
  BY <1>1, <1>2 DEF RateInv
\* A bucket that is removed was full.
LEMMA CleanupGivesNothing ==
    ASSUME TypeInv, Cleanup, NEW p \in Pairs
    PROVE  Available(p)' = Available(p)
<1>1. /\ limiters' = [q \in {q \in DOMAIN limiters :
                         limiters[q].lastSeen + 2 * CleanupPeriod >= now} |-> limiters[q]]
      /\ now' = now
  BY DEF Cleanup
<1>2. CASE p \in DOMAIN limiters'
  BY <1>1, <1>2 DEF Available, Tokens
<1>3. CASE p \notin DOMAIN limiters' /\ p \notin DOMAIN limiters
  BY <1>3 DEF Available
<1>4. CASE p \notin DOMAIN limiters' /\ p \in DOMAIN limiters
  <2> DEFINE b == limiters[p]
             rps == RPS(p[1], p[2])
  <2>1. b \in Bucket /\ b.last <= b.lastSeen /\ b.lastSeen <= now
    BY <1>4 DEF TypeInv, AdmissionTypeOK, BucketsInTime
  <2>2. /\ b.last \in Nat /\ b.lastSeen \in Nat /\ b.tokens \in Nat
        /\ now \in Nat /\ now \in 0..MaxTime /\ BurstSize \in Nat /\ CleanupPeriod \in Nat
    BY <2>1, ConfigTypes DEF TypeInv, AdmissionTypeOK, Bucket
  <2>3. ~(b.lastSeen + 2 * CleanupPeriod >= now)
    BY <1>1, <1>4
  <2>4. rps \in Nat /\ rps * 2 * CleanupPeriod >= BurstSize
    BY RateType
  <2> DEFINE left == (now - b.last) - 2 * CleanupPeriod
  <2>5. left \in Nat /\ b.last <= now
    BY <2>1, <2>2, <2>3
  <2>6. now - b.last = 2 * CleanupPeriod + left
    BY <2>2
  <2> HIDE DEF b, rps, left
  <2>7. rps * (2 * CleanupPeriod + left) = rps * 2 * CleanupPeriod + rps * left
    BY <2>2, <2>4, <2>5
  <2>8. rps * left \in Nat /\ rps * 2 * CleanupPeriod \in Nat
    BY <2>2, <2>4, <2>5
  <2>9. b.tokens + rps * (now - b.last) >= BurstSize
    BY <2>2, <2>4, <2>6, <2>7, <2>8
  <2>10. Tokens(b, rps) = BurstSize
    BY <2>1, <2>2, <2>4, <2>5, <2>9, TokensType
  <2>11. QED
    BY <1>4, <2>10 DEF Available, b, rps
<1>5. QED
  BY <1>2, <1>3, <1>4

\* Between two ticks a bucket gets what one unit of time gives it.
LEMMA TickRefills ==
    ASSUME TypeInv, Tick, NEW p \in Pairs
    PROVE  Available(p)' <= Available(p) + RPS(p[1], p[2]) * (now' - now)
<1>1. now' = now + 1 /\ limiters' = limiters /\ now' \in 0..MaxTime
  BY ConfigTypes DEF Tick, TypeInv, AdmissionTypeOK
<1>2. now \in Nat /\ now \in 0..MaxTime /\ BurstSize \in Nat /\ RPS(p[1], p[2]) \in Nat
  BY RateType, ConfigTypes DEF TypeInv, AdmissionTypeOK
<1>3. RPS(p[1], p[2]) * (now' - now) = RPS(p[1], p[2])
  BY <1>1, <1>2
<1>4. CASE p \notin DOMAIN limiters
  BY <1>1, <1>2, <1>3, <1>4 DEF Available
<1>5. CASE p \in DOMAIN limiters
  <2> DEFINE b == limiters[p]
             rps == RPS(p[1], p[2])
             x == b.tokens + rps * (now - b.last)
  <2>1. b \in Bucket /\ b.last <= b.lastSeen /\ b.lastSeen <= now
    BY <1>5 DEF TypeInv, AdmissionTypeOK, BucketsInTime
  <2>2. b.last \in Nat /\ b.lastSeen \in Nat /\ b.tokens \in Nat /\ b.last <= now
    BY <1>2, <2>1, ConfigTypes DEF Bucket
  <2>3. rps * (now - b.last) \in Nat /\ rps * ((now + 1) - b.last) = rps * (now - b.last) + rps
    BY <1>2, <2>2, Refill
  <2>4. Available(p) = Min({BurstSize, x})
    BY <1>5 DEF Available, Tokens
  <2>5. Available(p)' = Min({BurstSize, b.tokens + rps * ((now + 1) - b.last)})
    BY <1>1, <1>5 DEF Available, Tokens
  <2>6. x \in Nat /\ rps \in Nat /\ b.tokens + rps * ((now + 1) - b.last) = x + rps
    BY <1>2, <2>2, <2>3
  <2> HIDE DEF x, rps, b
  <2>7. x + rps \in Nat
    BY <2>6
  <2>8. Available(p)' = IF BurstSize <= x + rps THEN BurstSize ELSE x + rps
    BY <1>2, <2>5, <2>6, <2>7, MinOfTwo
  <2>9. Available(p) = IF BurstSize <= x THEN BurstSize ELSE x
    BY <1>2, <2>4, <2>6, MinOfTwo
  <2>10. Available(p)' <= Available(p) + rps
    BY <1>2, <2>6, <2>8, <2>9
  <2>11. QED
    BY <1>3, <2>10 DEF rps
<1>6. QED
  BY <1>4, <1>5
\* A request that is let through has been paid for, the burst included.
LEMMA AllowKeepsRate ==
    ASSUME TypeInv, RateInv, NEW k \in Keys, NEW r \in Roles, Allow(k, r), now' = now
    PROVE  RateInv'
<1> DEFINE p == <<k, r>>
           b == GetLimiter(k, r)
           rps == RPS(k, r)
           n == Tokens(b, rps)
           c == [b EXCEPT !.tokens = n - 1, !.last = now]
<1>1. p \in Pairs /\ p[1] = k /\ p[2] = r
  BY DEF Pairs
<1>2. /\ n >= 1
      /\ limiters' = [q \in DOMAIN limiters \cup {p} |->
                        IF q = p THEN c ELSE limiters[q]]
      /\ admitted' = [admitted EXCEPT ![p] = Append(admitted[p], now)]
  BY DEF Allow, Store
<1>3. /\ b \in Bucket /\ n \in 0..BurstSize /\ n = Available(p)
  BY GetLimiterType
<1>4. /\ now \in Nat /\ now \in 0..MaxTime /\ rps \in Nat /\ BurstSize \in Nat
      /\ admitted \in [Pairs -> Seq(0..MaxTime)]
  BY RateType, ConfigTypes DEF TypeInv, AdmissionTypeOK
<1>5. n - 1 \in Nat /\ n - 1 <= BurstSize
  BY <1>2, <1>3, <1>4
<1>6. c.tokens = n - 1 /\ c.last = now
  BY <1>3 DEF Bucket
<1> HIDE DEF n, c, b
<1>7. Available(p)' = n - 1
  <2>1. Available(p)' = Min({BurstSize, c.tokens + rps * (now - c.last)})
    BY <1>1, <1>2 DEF Available, Tokens
  <2>2. rps * (now - now) = 0
    BY <1>4, Refill
  <2>3. c.tokens + rps * (now - c.last) = n - 1
    BY <1>5, <1>6, <2>2
  <2>4. Min({BurstSize, n - 1}) = n - 1
    BY <1>4, <1>5, MinOfTwo
  <2>5. QED
    BY <2>1, <2>3, <2>4
<1>8. /\ Len(admitted'[p]) = Len(admitted[p]) + 1
      /\ admitted'[p][Len(admitted[p]) + 1] = now
      /\ \A i \in 1..Len(admitted[p]) : admitted'[p][i] = admitted[p][i]
      /\ DOMAIN admitted'[p] = 1..(Len(admitted[p]) + 1)
      /\ Len(admitted[p]) \in Nat
  BY <1>1, <1>2, <1>4
<1>9. ASSUME NEW q \in Pairs, q # p
      PROVE  admitted'[q] = admitted[q] /\ Available(q)' = Available(q)
  <2>1. admitted'[q] = admitted[q]
    BY <1>2, <1>4, <1>9
  <2>2. q \in DOMAIN limiters' <=> q \in DOMAIN limiters
    BY <1>2, <1>9
  <2>3. q \in DOMAIN limiters => limiters'[q] = limiters[q]
    BY <1>2, <1>9
  <2>4. QED
    BY <2>1, <2>2, <2>3 DEF Available, Tokens
<1>10. ASSUME NEW i \in 1..Len(admitted[p])
       PROVE  /\ admitted[p][i] <= now
              /\ Len(admitted[p]) - i + 1 + n <= BurstSize + rps * (now - admitted[p][i])
  <2>1. i \in DOMAIN admitted[p]
    BY <1>1, <1>4
  <2>2. QED
    BY <1>1, <1>3, <2>1 DEF RateInv, Paid
<1>11. Paid'
  <2> SUFFICES ASSUME NEW q \in Pairs, NEW i \in DOMAIN admitted'[q]
               PROVE  /\ admitted'[q][i] <= now
                      /\ Len(admitted'[q]) - i + 1 + Available(q)'
                           <= BurstSize + RPS(q[1], q[2]) * (now - admitted'[q][i])
    BY DEF Paid
  <2>1. CASE q # p
    BY <1>9, <2>1 DEF RateInv, Paid
  <2>2. CASE q = p /\ i \in 1..Len(admitted[p])
    <3> DEFINE x == rps * (now - admitted[p][i])
    <3>1. admitted'[p][i] = admitted[p][i] /\ admitted[p][i] <= now
      BY <1>8, <1>10, <2>2
    <3>2. admitted[p][i] \in Nat
      BY <1>1, <1>4, <2>2, ConfigTypes
    <3>3. Len(admitted[p]) - i + 1 + n <= BurstSize + x /\ x \in Nat
      BY <1>4, <1>10, <2>2, <3>1, <3>2, Refill
    <3> HIDE DEF x
    <3>4. (Len(admitted[p]) + 1) - i + 1 + (n - 1) <= BurstSize + x
      BY <1>3, <1>4, <1>8, <2>2, <3>3
    <3>5. Len(admitted'[p]) - i + 1 + Available(p)' <= BurstSize + x
      BY <1>7, <1>8, <3>4
    <3>6. QED
      BY <1>1, <2>2, <3>1, <3>5 DEF x, rps
  <2>3. CASE q = p /\ i = Len(admitted[p]) + 1
    <3>1. admitted'[q][i] = now /\ now <= now
      BY <1>4, <1>8, <2>3
    <3>2. rps * (now - now) = 0
      BY <1>4, Refill
    <3>3. Len(admitted'[q]) - i + 1 + Available(q)' = n
      <4>1. Len(admitted'[q]) = i /\ i \in Nat /\ n \in Nat
        BY <1>3, <1>4, <1>8, <2>3
      <4>2. Available(q)' = n - 1
        BY <1>7, <2>3
      <4>3. i - i + 1 + (n - 1) = n
        BY <4>1
      <4>4. QED
        BY <4>1, <4>2, <4>3
    <3>4. n <= BurstSize + 0
      BY <1>3, <1>4
    <3>5. QED
      BY <1>1, <2>3, <3>1, <3>2, <3>3, <3>4 DEF rps
  <2>4. i \in DOMAIN admitted'[p] => i \in 1..Len(admitted[p]) \/ i = Len(admitted[p]) + 1
    BY <1>8
  <2>5. QED
    BY <2>1, <2>2, <2>3, <2>4
<1>12. RateBound'
  <2> SUFFICES ASSUME NEW q \in Pairs, NEW i \in DOMAIN admitted'[q],
                      NEW j \in DOMAIN admitted'[q], i <= j
               PROVE  j - i + 1 <= BurstSize
                        + RPS(q[1], q[2]) * (admitted'[q][j] - admitted'[q][i])
    BY DEF RateBound
  <2>1. CASE q # p
    BY <1>9, <2>1 DEF RateInv, RateBound
  <2>2. CASE q = p /\ j \in 1..Len(admitted[p])
    <3>1. i \in 1..Len(admitted[p]) /\ DOMAIN admitted[p] = 1..Len(admitted[p])
      BY <1>1, <1>4, <1>8, <2>2
    <3>2. admitted'[p][i] = admitted[p][i] /\ admitted'[p][j] = admitted[p][j]
      BY <1>8, <2>2, <3>1
    <3>3. QED
      BY <2>2, <3>1, <3>2 DEF RateInv, RateBound
  <2>3. CASE q = p /\ j = Len(admitted[p]) + 1 /\ i \in 1..Len(admitted[p])
    <3> DEFINE x == rps * (now - admitted[p][i])
    <3>1. admitted'[p][i] = admitted[p][i] /\ admitted'[p][j] = now
      BY <1>8, <2>3
    <3>2. Len(admitted[p]) - i + 1 + n <= BurstSize + x
      BY <1>10, <2>3
    <3>3. admitted[p][i] \in Nat /\ admitted[p][i] <= now
      <4>1. admitted[p][i] \in Nat
        BY <1>1, <1>4, <2>3, ConfigTypes
      <4>2. QED
        BY <1>10, <2>3, <4>1
    <3>4. x \in Nat
      BY <1>4, <3>3, Refill
    <3> HIDE DEF x
    <3>5. j - i + 1 <= BurstSize + x
      BY <1>2, <1>3, <1>4, <1>8, <2>3, <3>2, <3>4
    <3>6. QED
      BY <1>1, <2>3, <3>1, <3>5 DEF x, rps
  <2>4. CASE q = p /\ i = Len(admitted[p]) + 1
    <3>1. j = i /\ j \in Nat /\ admitted'[q][j] = now /\ admitted'[q][i] = now
      BY <1>8, <2>4
    <3>2. rps * (now - now) = 0
      BY <1>4, Refill
    <3>3. j - i + 1 <= BurstSize + 0
      <4>1. j - i + 1 = 1
        BY <3>1
      <4>2. 1 <= BurstSize
        BY <1>2, <1>3, <1>4
      <4>3. QED
        BY <1>4, <4>1, <4>2
    <3>4. QED
      BY <1>1, <2>4, <3>1, <3>2, <3>3 DEF rps
  <2>5. ASSUME q = p
        PROVE  /\ i \in 1..Len(admitted[p]) \/ i = Len(admitted[p]) + 1
               /\ j \in 1..Len(admitted[p]) \/ j = Len(admitted[p]) + 1
    <3>1. i \in DOMAIN admitted'[p] /\ j \in DOMAIN admitted'[p]
      BY <2>5
    <3>2. \A l \in Nat : \A m \in 1..(l + 1) : m \in 1..l \/ m = l + 1
      OBVIOUS
    <3>3. QED
      BY <1>8, <3>1, <3>2
  <2>6. QED
    BY <2>1, <2>2, <2>3, <2>4, <2>5
<1>13. QED
  BY <1>11, <1>12 DEF RateInv

LEMMA InitRateInv == AdmissionInit => RateInv
BY DEF AdmissionInit, RateInv, Paid, RateBound

LEMMA NextRateInv ==
    TypeInv /\ TypeInv' /\ RateInv /\ [AdmissionNext]_admissionVars => RateInv'
<1> SUFFICES ASSUME TypeInv, TypeInv', RateInv, [AdmissionNext]_admissionVars
             PROVE  RateInv'
  OBVIOUS
<1>1. now \in Nat
  BY ConfigTypes DEF TypeInv, AdmissionTypeOK
<1>2. \A p \in Pairs : RPS(p[1], p[2]) * (now - now) = 0
  BY <1>1, RateType, Refill
<1>3. ASSUME now' = now, admitted' = admitted,
             \A p \in Pairs : Available(p)' = Available(p)
      PROVE  RateInv'
  <2>1. \A p \in Pairs : Available(p)' <= Available(p) + RPS(p[1], p[2]) * (now' - now)
    BY <1>2, <1>3, PairTypes
  <2>2. now <= now'
    BY <1>1, <1>3
  <2>3. QED
    BY <1>3, <2>1, <2>2, RateKept
<1>4. ASSUME NEW k \in Keys, NEW r \in Roles, StartExperiment(k, r)
      PROVE  RateInv'
  BY <1>4, AllowKeepsRate DEF StartExperiment
<1>5. ASSUME NEW k \in Keys, NEW r \in Roles, GetExperiments(k, r)
      PROVE  RateInv'
  BY <1>5, AllowKeepsRate DEF GetExperiments
<1>6. ASSUME NEW k \in Keys, NEW r \in Roles, Refuse(k, r)
      PROVE  RateInv'
  <2>1. /\ limiters' = [q \in DOMAIN limiters \cup {<<k, r>>} |->
              IF q = <<k, r>> THEN GetLimiter(k, r) ELSE limiters[q]]
        /\ now' = now /\ admitted' = admitted
    BY <1>6 DEF Refuse, Store
  <2>2. Available(<<k, r>>)' = Available(<<k, r>>)
    <3>1. Available(<<k, r>>)' = Tokens(GetLimiter(k, r), RPS(k, r))
      BY <2>1 DEF Available, Tokens
    <3>2. QED
      BY <3>1, GetLimiterType
  <2>3. ASSUME NEW p \in Pairs, p # <<k, r>>
        PROVE  Available(p)' = Available(p)
    BY <2>1, <2>3 DEF Available, Tokens
  <2>4. QED
    BY <1>3, <2>1, <2>2, <2>3
<1>7. CASE Cleanup
  BY <1>3, <1>7, CleanupGivesNothing DEF Cleanup
<1>8. CASE Restart
  BY <1>8 DEF Restart, RateInv, Paid, RateBound
<1>9. CASE Tick
  <2>1. now <= now' /\ admitted' = admitted
    BY <1>1, <1>9 DEF Tick
  <2>2. QED
    BY <1>9, <2>1, TickRefills, RateKept
<1>10. CASE UNCHANGED admissionVars
  BY <1>3, <1>10 DEF admissionVars, Available, Tokens
<1>11. QED
  BY <1>4, <1>5, <1>6, <1>7, <1>8, <1>9, <1>10 DEF AdmissionNext

\* Removing idle limiters and creating them again gives nobody more than a
\* burst and the rate (GetLimiter, cleanup).
THEOREM RateIsBounded == AdmissionSpec => []RateBound
<1>1. RateInv => RateBound
  BY DEF RateInv
<1>2. QED
  BY <1>1, Typed, InitRateInv, NextRateInv, PTL DEF AdmissionSpec

-----------------------------------------------------------------------------
(* HealthChecker (Health). *)

----------------------------------------------------------------------------
(* The inductive invariant. *)

\* A running check is as old as the tick that began it.
InStep == \A d \in Dependencies : check[d].running => check[d].elapsed = phase

\* How old the status of a dependency can be, and what it says then.
AgeBounded ==
    \A d \in Dependencies :
        deps[d].age <= CheckInterval[d]
            + IF check[d].running THEN TickerPeriod + check[d].elapsed ELSE phase

UpSinceChecked ==
    \A d \in Dependencies :
        /\ Up(d, answers) => sinceUp[d] = 0
        /\ deps[d].status = "healthy" => sinceUp[d] <= deps[d].age

\* A check that cannot fail is over at once, and after the first one the
\* status never changes.
NeverUnhealthy ==
    \A d \in Dependencies : Endpoints[d] = <<>> =>
        /\ check[d].running => check[d].elapsed = 0
        /\ deps[d].status # "healthy" => deps[d].age = uptime

HealthInv ==
    HealthTypeOK /\ InStep /\ AgeBounded /\ UpSinceChecked /\ NeverUnhealthy

----------------------------------------------------------------------------
(* What the assumptions say of a dependency, and what the invariant says    *)
(* when the ticker fires.                                                   *)

LEMMA Config ==
    ASSUME NEW d \in Dependencies
    PROVE  /\ CheckInterval[d] \in Nat
           /\ CheckTimeout[d] \in Nat /\ CheckTimeout[d] >= 1
           /\ CheckTimeout[d] < TickerPeriod
           /\ Len(Endpoints[d]) \in Nat
           /\ DOMAIN Endpoints[d] = 1..Len(Endpoints[d])
           /\ Endpoints[d] = <<>> => Len(Endpoints[d]) = 0
           /\ StaleAfter(d) = CheckInterval[d] + TickerPeriod + CheckTimeout[d]
           /\ StaleAfter(d) < Horizon
           /\ TickerPeriod \in Nat /\ ProbeTimeout \in Nat \ {0} /\ Horizon \in Nat
<1>1. /\ CheckInterval[d] \in Nat /\ CheckTimeout[d] \in 1..(TickerPeriod - 1)
      /\ Endpoints[d] \in Seq(STRING) /\ StaleAfter(d) < Horizon
      /\ TickerPeriod \in Nat \ {0} /\ ProbeTimeout \in Nat \ {0} /\ Horizon \in Nat
  BY HealthAssumption
<1>2. QED
  BY <1>1 DEF StaleAfter

LEMMA Types ==
    ASSUME HealthTypeOK, NEW d \in Dependencies
    PROVE  /\ check[d].running \in BOOLEAN
           /\ check[d].elapsed \in Nat /\ check[d].elapsed <= CheckTimeout[d]
           /\ check[d].endpoint \in Nat \ {0}
           /\ check[d].endpoint <= Len(Endpoints[d]) + 1
           /\ check[d].spent \in 0..ProbeTimeout
           /\ deps[d].status \in {"unknown", "healthy", "unhealthy"}
           /\ deps[d].age \in 0..Horizon /\ deps[d].age \in Nat
           /\ sinceUp[d] \in 0..Horizon /\ sinceUp[d] \in Nat
           /\ phase \in 0..TickerPeriod /\ phase \in Nat
           /\ uptime \in 0..Horizon /\ uptime \in Nat
<1>1. check[d] \in [running : BOOLEAN, elapsed : Nat, endpoint : Nat \ {0},
                    spent : 0..ProbeTimeout]
  BY DEF HealthTypeOK
<1>2. deps[d] \in [status : {"unknown", "healthy", "unhealthy"}, age : 0..Horizon]
  BY DEF HealthTypeOK
<1>3. QED
  BY <1>1, <1>2, HealthAssumption DEF HealthTypeOK

CheckRecord ==
    [running : BOOLEAN, elapsed : Nat, endpoint : Nat \ {0}, spent : 0..ProbeTimeout]

LEMMA NewChecks ==
    /\ NoCheck \in CheckRecord /\ NewCheck \in CheckRecord
    /\ ~NoCheck.running /\ NoCheck.elapsed = 0 /\ NoCheck.endpoint = 1
    /\ NewCheck.running /\ NewCheck.elapsed = 0 /\ NewCheck.endpoint = 1
<1>1. 0 \in 0..ProbeTimeout /\ 1 \in Nat \ {0}
  BY HealthAssumption
<1>2. QED
  BY <1>1 DEF NoCheck, NewCheck, CheckRecord

LEMMA NoneRunningAtTick ==
    ASSUME HealthInv, phase = TickerPeriod, NEW d \in Dependencies
    PROVE  ~check[d].running
<1> SUFFICES ASSUME check[d].running PROVE FALSE
  OBVIOUS
<1>1. check[d].elapsed = phase
  BY DEF HealthInv, InStep
<1>2. check[d].elapsed <= CheckTimeout[d]
  BY DEF HealthInv, HealthTypeOK
<1>3. QED
  BY <1>1, <1>2, Config

LEMMA OlderIsMonotone ==
    ASSUME NEW m \in 0..Horizon, NEW n \in 0..Horizon
    PROVE  /\ Older(m) \in 0..Horizon
           /\ Older(m) <= m + 1
           /\ m <= n => Older(m) <= Older(n)
BY HealthAssumption DEF Older

----------------------------------------------------------------------------
(* The steps. *)

LEMMA InitHealth == HealthInit => HealthInv
<1> SUFFICES ASSUME HealthInit PROVE HealthInv
  OBVIOUS
<1> USE HealthAssumption
<1>1. HealthTypeOK
  BY Config DEF HealthInit, HealthTypeOK, NoCheck
<1>2. InStep /\ AgeBounded /\ UpSinceChecked /\ NeverUnhealthy
  BY Config DEF HealthInit, InStep, AgeBounded, UpSinceChecked, NeverUnhealthy, NoCheck
<1>3. QED
  BY <1>1, <1>2 DEF HealthInv

LEMMA TickKeepsInv ==
    ASSUME HealthInv, PeriodicChecks
    PROVE  HealthInv'
<1> USE DEF HealthInv
<1>1. PICK started \in SUBSET {d \in Dependencies : MayStart(d)} :
        /\ {d \in Dependencies : MustStart(d)} \subseteq started
        /\ check' = [d \in Dependencies |->
             IF d \in started THEN NewCheck ELSE check[d]]
        /\ steady' = [d \in Dependencies |-> d \in started \/ steady[d]]
  BY DEF PeriodicChecks
<1>2. /\ phase = TickerPeriod /\ phase' = 0
      /\ UNCHANGED <<deps, answers, sinceUp, uptime>>
  BY DEF PeriodicChecks
<1>3. \A d \in Dependencies : ~check[d].running
  BY <1>2, NoneRunningAtTick
<1>4. \A d \in Dependencies :
        check'[d] = IF d \in started THEN NewCheck ELSE check[d]
  BY <1>1
<1>5. HealthTypeOK'
  <2>1. check' \in [Dependencies -> CheckRecord]
    BY <1>1, NewChecks DEF HealthTypeOK, CheckRecord
  <2>2. ASSUME NEW d \in Dependencies
        PROVE  check'[d].elapsed <= CheckTimeout[d] /\ check'[d].endpoint <= Len(Endpoints[d]) + 1
    <3>1. CheckTimeout[d] >= 0 /\ Len(Endpoints[d]) \in Nat
      BY Config
    <3>2. CASE d \in started
      <4>1. check'[d].elapsed = 0 /\ check'[d].endpoint = 1
        BY <1>4, <3>2, NewChecks
      <4>2. QED
        BY <3>1, <4>1
    <3>3. CASE d \notin started
      BY <1>4, <3>3, Types
    <3>4. QED
      BY <3>2, <3>3
  <2>3. steady' \in [Dependencies -> BOOLEAN]
    BY <1>1 DEF HealthTypeOK
  <2>4. QED
    BY <1>2, <2>1, <2>2, <2>3, HealthAssumption DEF HealthTypeOK, CheckRecord
<1>6. InStep'
  BY <1>2, <1>3, <1>4, NewChecks DEF InStep
<1>7. AgeBounded'
  <2> SUFFICES ASSUME NEW d \in Dependencies
               PROVE  deps'[d].age <= CheckInterval[d]
                        + IF check'[d].running THEN TickerPeriod + check'[d].elapsed
                                               ELSE phase'
    BY DEF AgeBounded
  <2>1. deps[d].age <= CheckInterval[d] + TickerPeriod /\ deps[d].age \in Nat
    BY <1>2, <1>3 DEF AgeBounded, HealthTypeOK
  <2>2. CASE d \in started
    BY <1>2, <1>4, <2>1, <2>2, Config, NewChecks
  <2>3. CASE d \notin started
    <3>1. ~(deps[d].age > CheckInterval[d])
      BY <1>1, <2>3 DEF MustStart
    <3>2. QED
      BY <1>2, <1>3, <1>4, <2>1, <2>3, <3>1, Config
  <2>4. QED
    BY <2>2, <2>3
<1>8. UpSinceChecked'
  BY <1>2 DEF UpSinceChecked, Up
<1>9. NeverUnhealthy'
  BY <1>2, <1>3, <1>4, NewChecks DEF NeverUnhealthy
<1>10. QED
  BY <1>5, <1>6, <1>7, <1>8, <1>9

\* A check ends with a status that the endpoints justify.
LEMMA FinishKeepsInv ==
    ASSUME HealthInv, NEW d \in Dependencies, NEW status \in {"healthy", "unhealthy"},
           Finish(d, status),
           status = "healthy" => Up(d, answers),
           Endpoints[d] = <<>> => status = "healthy"
    PROVE  HealthInv'
<1> USE DEF HealthInv
<1>1. /\ deps' = [deps EXCEPT ![d] = [status |-> status, age |-> 0]]
      /\ check' = [check EXCEPT ![d] = NoCheck]
      /\ UNCHANGED <<phase, answers, steady, sinceUp, uptime>>
  BY DEF Finish
<1>2. \A e \in Dependencies :
        /\ check'[e] = IF e = d THEN NoCheck ELSE check[e]
        /\ deps'[e] = IF e = d THEN [status |-> status, age |-> 0] ELSE deps[e]
  BY <1>1 DEF HealthTypeOK
<1>3. HealthTypeOK'
  <2>1. /\ deps' \in [Dependencies ->
                        [status : {"unknown", "healthy", "unhealthy"}, age : 0..Horizon]]
        /\ check' \in [Dependencies -> CheckRecord]
    BY <1>1, HealthAssumption, NewChecks DEF HealthTypeOK, CheckRecord
  <2>2. ASSUME NEW e \in Dependencies
        PROVE  check'[e].elapsed <= CheckTimeout[e] /\ check'[e].endpoint <= Len(Endpoints[e]) + 1
    <3>1. CheckTimeout[e] >= 0 /\ Len(Endpoints[e]) \in Nat
      BY Config
    <3>2. CASE e = d
      <4>1. check'[e].elapsed = 0 /\ check'[e].endpoint = 1
        BY <1>2, <3>2, NewChecks
      <4>2. QED
        BY <3>1, <4>1
    <3>3. CASE e # d
      BY <1>2, <3>3, Types
    <3>4. QED
      BY <3>2, <3>3
  <2>3. QED
    BY <1>1, <2>1, <2>2 DEF HealthTypeOK, CheckRecord
<1>4. InStep'
  BY <1>1, <1>2, NewChecks DEF InStep
<1>5. AgeBounded'
  BY <1>1, <1>2, Config, NewChecks, Types DEF AgeBounded
<1>6. UpSinceChecked'
  BY <1>1, <1>2, Types DEF UpSinceChecked, Up
<1>7. NeverUnhealthy'
  BY <1>1, <1>2, NewChecks DEF NeverUnhealthy
<1>8. QED
  BY <1>3, <1>4, <1>5, <1>6, <1>7

LEMMA ProbeFailsKeepsInv ==
    ASSUME HealthInv, NEW d \in Dependencies, ProbeFails(d)
    PROVE  HealthInv'
<1> USE DEF HealthInv
<1>1. /\ Probing(d)
      /\ check' = [check EXCEPT ![d].endpoint = @ + 1, ![d].spent = 0]
      /\ UNCHANGED <<phase, deps, answers, steady, sinceUp, uptime>>
  BY DEF ProbeFails
<1>2. /\ check' \in [Dependencies -> CheckRecord]
      /\ check'[d].endpoint = check[d].endpoint + 1
      /\ check'[d].running = check[d].running
      /\ check'[d].elapsed = check[d].elapsed
      /\ \A e \in Dependencies \ {d} : check'[e] = check[e]
  <2> DEFINE new == [check[d] EXCEPT !.endpoint = check[d].endpoint + 1, !.spent = 0]
  <2>1. check \in [Dependencies -> CheckRecord] /\ check[d] \in CheckRecord
    BY DEF HealthTypeOK, CheckRecord
  <2>2. check' = [check EXCEPT ![d] = new]
    BY <1>1, <2>1
  <2>3. 0 \in 0..ProbeTimeout /\ check[d].endpoint + 1 \in Nat \ {0}
    BY Types, HealthAssumption
  <2>4. /\ new \in CheckRecord /\ new.endpoint = check[d].endpoint + 1
        /\ new.running = check[d].running /\ new.elapsed = check[d].elapsed
    BY <2>1, <2>3 DEF CheckRecord
  <2> HIDE DEF new
  <2>5. QED
    BY <2>1, <2>2, <2>4
<1>3. \A e \in Dependencies : /\ check'[e].running = check[e].running
                              /\ check'[e].elapsed = check[e].elapsed
  BY <1>2
<1>4. HealthTypeOK'
  <2>1. \A e \in Dependencies : check'[e].endpoint <= Len(Endpoints[e]) + 1
    <3>1. check'[d].endpoint <= Len(Endpoints[d]) + 1
      BY <1>1, <1>2, Config, Types DEF Probing
    <3>2. QED
      BY <1>2, <3>1 DEF HealthTypeOK
  <2>2. QED
    BY <1>1, <1>2, <1>3, <2>1 DEF HealthTypeOK, CheckRecord
<1>5. InStep' /\ AgeBounded' /\ UpSinceChecked' /\ NeverUnhealthy'
  BY <1>1, <1>3 DEF InStep, AgeBounded, UpSinceChecked, NeverUnhealthy, Up
<1>6. QED
  BY <1>4, <1>5

\* Nothing that is due is left behind when time goes on.
LEMMA TimeKeepsInv ==
    ASSUME HealthInv, TimePasses
    PROVE  HealthInv'
<1> USE DEF HealthInv
<1> DEFINE Later(d) == [check[d] EXCEPT !.elapsed = check[d].elapsed + 1,
                                       !.spent = check[d].spent + 1]
           Aged(d)  == [deps[d] EXCEPT !.age = Older(deps[d].age)]
<1>1. /\ phase < TickerPeriod /\ phase' = phase + 1
      /\ \A d \in Dependencies : Waiting(d)
      /\ deps' = [d \in Dependencies |-> Aged(d)]
      /\ check' = [d \in Dependencies |->
           IF check[d].running THEN Later(d) ELSE check[d]]
      /\ sinceUp' = [d \in Dependencies |->
           IF Up(d, answers) THEN 0 ELSE Older(sinceUp[d])]
      /\ uptime' = Older(uptime)
      /\ UNCHANGED <<answers, steady>>
  BY DEF TimePasses
<1>2. ASSUME NEW d \in Dependencies
      PROVE  /\ Aged(d) \in [status : {"unknown", "healthy", "unhealthy"}, age : 0..Horizon]
             /\ Aged(d).status = deps[d].status /\ Aged(d).age = Older(deps[d].age)
  <2>1. deps[d] \in [status : {"unknown", "healthy", "unhealthy"}, age : 0..Horizon]
    BY DEF HealthTypeOK
  <2>2. Older(deps[d].age) \in 0..Horizon
    BY <2>1, OlderIsMonotone
  <2>3. QED
    BY <2>1, <2>2
<1>3. ASSUME NEW d \in Dependencies, check[d].running
      PROVE  /\ Later(d) \in CheckRecord
             /\ Later(d).running /\ Later(d).endpoint = check[d].endpoint
             /\ Later(d).elapsed = check[d].elapsed + 1
             /\ Later(d).elapsed <= CheckTimeout[d]
  <2>1. check[d] \in CheckRecord
    BY DEF HealthTypeOK, CheckRecord
  <2>2. check[d].elapsed < CheckTimeout[d] /\ check[d].spent < ProbeTimeout
    BY <1>1, <1>3 DEF Waiting
  <2>3. check[d].spent + 1 \in 0..ProbeTimeout
    BY <2>2, Types, HealthAssumption
  <2>4. check[d].elapsed + 1 \in Nat /\ check[d].elapsed + 1 <= CheckTimeout[d]
    BY <2>2, Types, Config
  <2>5. QED
    BY <1>3, <2>1, <2>3, <2>4 DEF CheckRecord
<1> HIDE DEF Later, Aged
<1>4. \A d \in Dependencies :
        /\ deps'[d] = Aged(d)
        /\ check'[d] = IF check[d].running THEN Later(d) ELSE check[d]
        /\ sinceUp'[d] = IF Up(d, answers) THEN 0 ELSE Older(sinceUp[d])
  BY <1>1
<1>5. HealthTypeOK'
  <2>1. deps' \in [Dependencies ->
                     [status : {"unknown", "healthy", "unhealthy"}, age : 0..Horizon]]
    BY <1>1, <1>2
  <2>2. check' \in [Dependencies -> CheckRecord]
    BY <1>1, <1>3 DEF HealthTypeOK, CheckRecord
  <2>3. sinceUp' \in [Dependencies -> 0..Horizon] /\ uptime' \in 0..Horizon
    BY <1>1, OlderIsMonotone, HealthAssumption DEF HealthTypeOK
  <2>4. \A d \in Dependencies :
          check'[d].elapsed <= CheckTimeout[d] /\ check'[d].endpoint <= Len(Endpoints[d]) + 1
    BY <1>3, <1>4, Types
  <2>5. phase' \in 0..TickerPeriod
    BY <1>1, HealthAssumption DEF HealthTypeOK
  <2>6. QED
    BY <1>1, <2>1, <2>2, <2>3, <2>4, <2>5 DEF HealthTypeOK, CheckRecord
<1>6. InStep'
  BY <1>1, <1>3, <1>4 DEF InStep
<1>7. AgeBounded'
  <2> SUFFICES ASSUME NEW d \in Dependencies
               PROVE  deps'[d].age <= CheckInterval[d]
                        + IF check'[d].running THEN TickerPeriod + check'[d].elapsed
                                               ELSE phase'
    BY DEF AgeBounded
  <2>1. deps'[d].age <= deps[d].age + 1 /\ deps'[d].age \in Nat
    BY <1>2, <1>4, Types, OlderIsMonotone
  <2>2. deps[d].age <= CheckInterval[d]
          + IF check[d].running THEN TickerPeriod + check[d].elapsed ELSE phase
    BY DEF AgeBounded
  <2>3. CASE check[d].running
    <3>1. check'[d].running /\ check'[d].elapsed = check[d].elapsed + 1
      BY <1>3, <1>4, <2>3
    <3>2. /\ deps[d].age \in Nat /\ check[d].elapsed \in Nat
          /\ CheckInterval[d] \in Nat /\ TickerPeriod \in Nat
      BY Types, Config
    <3>3. deps[d].age <= CheckInterval[d] + (TickerPeriod + check[d].elapsed)
      BY <2>2, <2>3
    <3>4. deps'[d].age <= CheckInterval[d] + (TickerPeriod + (check[d].elapsed + 1))
      BY <2>1, <3>2, <3>3
    <3>5. QED
      BY <3>1, <3>4
  <2>4. CASE ~check[d].running
    <3>1. ~check'[d].running /\ phase' = phase + 1
      BY <1>1, <1>4, <2>4
    <3>2. deps[d].age \in Nat /\ CheckInterval[d] \in Nat /\ phase \in Nat
      BY Types, Config
    <3>3. deps[d].age <= CheckInterval[d] + phase
      BY <2>2, <2>4
    <3>4. deps'[d].age <= CheckInterval[d] + (phase + 1)
      BY <2>1, <3>2, <3>3
    <3>5. QED
      BY <3>1, <3>4
  <2>5. QED
    BY <2>3, <2>4
<1>8. UpSinceChecked'
  <2> SUFFICES ASSUME NEW d \in Dependencies
               PROVE  /\ Up(d, answers') => sinceUp'[d] = 0
                      /\ deps'[d].status = "healthy" => sinceUp'[d] <= deps'[d].age
    BY DEF UpSinceChecked
  <2>1. Up(d, answers') <=> Up(d, answers)
    BY <1>1 DEF Up
  <2>2. deps'[d].age = Older(deps[d].age) /\ deps'[d].status = deps[d].status
    BY <1>2, <1>4
  <2>3. deps[d].status = "healthy" => sinceUp[d] <= deps[d].age
    BY DEF UpSinceChecked
  <2>4. Older(deps[d].age) >= 0 /\ (sinceUp[d] <= deps[d].age
                                      => Older(sinceUp[d]) <= Older(deps[d].age))
    BY Types, OlderIsMonotone
  <2>5. QED
    BY <1>4, <2>1, <2>2, <2>3, <2>4
<1>9. NeverUnhealthy'
  <2> SUFFICES ASSUME NEW d \in Dependencies, Endpoints[d] = <<>>
               PROVE  /\ check'[d].running => check'[d].elapsed = 0
                      /\ deps'[d].status # "healthy" => deps'[d].age = uptime'
    BY DEF NeverUnhealthy
  <2>1. ~check[d].running
    <3>1. ~Probing(d)
      BY Types, Config DEF Probing
    <3>2. QED
      BY <1>1, <3>1 DEF Waiting
  <2>2. deps[d].status # "healthy" => deps[d].age = uptime
    BY DEF NeverUnhealthy
  <2>3. QED
    BY <1>1, <1>2, <1>4, <2>1, <2>2
<1>10. QED
  BY <1>5, <1>6, <1>7, <1>8, <1>9

LEMMA EndpointKeepsInv ==
    ASSUME HealthInv, NEW d \in Dependencies, NEW i \in DOMAIN Endpoints[d],
           NEW answer \in {"up", "refuses", "hangs"}, EndpointChanges(d, i, answer)
    PROVE  HealthInv'
<1> USE DEF HealthInv
<1>1. /\ answers' = [answers EXCEPT ![d] = [answers[d] EXCEPT ![i] = answer]]
      /\ steady' = [steady EXCEPT ![d] = FALSE]
      /\ sinceUp' = [sinceUp EXCEPT ![d] =
                        IF Up(d, answers) \/ Up(d, answers') THEN 0 ELSE sinceUp[d]]
      /\ UNCHANGED <<phase, deps, check, uptime>>
  BY DEF EndpointChanges
<1>2. /\ DOMAIN answers' = Dependencies
      /\ answers'[d] = [answers[d] EXCEPT ![i] = answer]
      /\ \A e \in Dependencies \ {d} : answers'[e] = answers[e]
  BY <1>1 DEF HealthTypeOK
<1>3. \A e \in Dependencies :
        answers'[e] \in [DOMAIN Endpoints[e] -> {"up", "refuses", "hangs"}]
  <2>1. \A e \in Dependencies :
          answers[e] \in [DOMAIN Endpoints[e] -> {"up", "refuses", "hangs"}]
    BY DEF HealthTypeOK
  <2>2. answers[d] \in [DOMAIN Endpoints[d] -> {"up", "refuses", "hangs"}]
    BY <2>1
  <2>3. [answers[d] EXCEPT ![i] = answer]
          \in [DOMAIN Endpoints[d] -> {"up", "refuses", "hangs"}]
    BY <2>2
  <2>4. answers'[d] \in [DOMAIN Endpoints[d] -> {"up", "refuses", "hangs"}]
    BY <1>2, <2>3
  <2>5. TAKE e \in Dependencies
  <2>6. CASE e = d
    BY <2>4, <2>6
  <2>7. CASE e # d
    <3>1. answers'[e] = answers[e]
      BY <1>2, <2>7
    <3>2. QED
      BY <2>1, <3>1
  <2>8. QED
    BY <2>6, <2>7
<1>4. /\ sinceUp' \in [Dependencies -> 0..Horizon]
      /\ steady' \in [Dependencies -> BOOLEAN]
  BY <1>1, HealthAssumption DEF HealthTypeOK
<1>5. HealthTypeOK'
  BY <1>1, <1>2, <1>3, <1>4 DEF HealthTypeOK
<1>6. InStep' /\ AgeBounded' /\ NeverUnhealthy'
  BY <1>1 DEF InStep, AgeBounded, NeverUnhealthy
<1>7. UpSinceChecked'
  <2> SUFFICES ASSUME NEW e \in Dependencies
               PROVE  /\ Up(e, answers') => sinceUp'[e] = 0
                      /\ deps[e].status = "healthy" => sinceUp'[e] <= deps[e].age
    BY <1>1 DEF UpSinceChecked
  <2>1. /\ Up(e, answers) => sinceUp[e] = 0
        /\ deps[e].status = "healthy" => sinceUp[e] <= deps[e].age
    BY DEF UpSinceChecked
  <2>2. CASE e = d
    BY <1>1, <2>1, <2>2, Types DEF HealthTypeOK
  <2>3. CASE e # d
    <3>1. sinceUp'[e] = sinceUp[e] /\ answers'[e] = answers[e]
      BY <1>1, <1>2, <2>3 DEF HealthTypeOK
    <3>2. Up(e, answers') <=> Up(e, answers)
      BY <3>1 DEF Up
    <3>3. QED
      BY <2>1, <3>1, <3>2
  <2>4. QED
    BY <2>2, <2>3
<1>8. QED
  BY <1>5, <1>6, <1>7

LEMMA NextHealth == HealthInv /\ [HealthNext]_healthVars => HealthInv'
<1> SUFFICES ASSUME HealthInv, [HealthNext]_healthVars PROVE HealthInv'
  OBVIOUS
<1>1. CASE PeriodicChecks
  BY <1>1, TickKeepsInv
<1>2. ASSUME NEW d \in Dependencies, ProbeSucceeds(d) PROVE HealthInv'
  <2>1. Finish(d, "healthy")
    BY <1>2 DEF ProbeSucceeds
  <2>2. Up(d, answers)
    <3>1. CASE Endpoints[d] = <<>>
      BY <3>1 DEF Up
    <3>2. CASE Probing(d) /\ Answer(d) = "up"
      <4>1. check[d].endpoint \in DOMAIN Endpoints[d]
        BY <3>2, Types, Config DEF Probing, HealthInv
      <4>2. QED
        BY <3>2, <4>1 DEF Up, Answer
    <3>3. QED
      BY <1>2, <3>1, <3>2 DEF ProbeSucceeds
  <2>3. QED
    BY <2>1, <2>2, FinishKeepsInv
<1>3. ASSUME NEW d \in Dependencies, ProbeFails(d) PROVE HealthInv'
  BY <1>3, ProbeFailsKeepsInv
<1>4. ASSUME NEW d \in Dependencies, NoneAnswered(d) PROVE HealthInv'
  BY <1>4, FinishKeepsInv DEF NoneAnswered
<1>5. ASSUME NEW d \in Dependencies, CheckTimesOut(d) PROVE HealthInv'
  <2>1. Endpoints[d] # <<>>
    BY <1>5, Config DEF CheckTimesOut, HealthInv, NeverUnhealthy
  <2>2. QED
    BY <1>5, <2>1, FinishKeepsInv DEF CheckTimesOut
<1>6. ASSUME NEW d \in Dependencies, NEW i \in DOMAIN Endpoints[d],
             NEW answer \in {"up", "refuses", "hangs"}, EndpointChanges(d, i, answer)
      PROVE  HealthInv'
  BY <1>6, EndpointKeepsInv
<1>7. CASE TimePasses
  BY <1>7, TimeKeepsInv
<1>8. CASE UNCHANGED healthVars
  BY <1>8 DEF healthVars, HealthInv, HealthTypeOK, InStep, AgeBounded,
              UpSinceChecked, NeverUnhealthy, Up
<1>9. QED
  BY <1>1, <1>2, <1>3, <1>4, <1>5, <1>6, <1>7, <1>8 DEF HealthNext

LEMMA HealthInvariant == HealthSpec => []HealthInv
BY InitHealth, NextHealth, PTL DEF HealthSpec

----------------------------------------------------------------------------
(* Theorems. *)

\* Every variable has its type.
THEOREM HealthTypes == HealthSpec => []HealthTypeOK
<1>1. HealthInv => HealthTypeOK
  BY DEF HealthInv
<1>2. QED
  BY <1>1, HealthInvariant, PTL

\* Checks of a dependency never overlap: a timeout that is shorter than the
\* period of the ticker is all startPeriodicChecks needs, however long the
\* probes of checkAgents take.
THEOREM NoOverlap == HealthSpec => []ChecksDoNotOverlap
<1>1. HealthInv => ChecksDoNotOverlap
  BY NoneRunningAtTick DEF ChecksDoNotOverlap
<1>2. QED
  BY <1>1, HealthInvariant, PTL

\* A dependency reported healthy was up within its interval, a period of the
\* ticker and its timeout (checkDependency).
THEOREM HealthyIsRecent == HealthSpec => []HealthyWasUp
<1>1. HealthInv => HealthyWasUp
  <2> SUFFICES ASSUME HealthInv, NEW d \in Dependencies, deps[d].status = "healthy"
               PROVE  sinceUp[d] <= StaleAfter(d)
    BY DEF HealthyWasUp
  <2> USE DEF HealthInv
  <2>1. sinceUp[d] <= deps[d].age
    BY DEF UpSinceChecked
  <2>2. deps[d].age <= StaleAfter(d)
    <3>1. deps[d].age <= CheckInterval[d]
            + IF check[d].running THEN TickerPeriod + check[d].elapsed ELSE phase
      BY DEF AgeBounded
    <3>2. /\ deps[d].age \in Nat /\ CheckInterval[d] \in Nat /\ TickerPeriod \in Nat
          /\ CheckTimeout[d] \in Nat /\ check[d].elapsed \in Nat
          /\ check[d].elapsed <= CheckTimeout[d]
          /\ phase \in Nat /\ phase <= TickerPeriod
      BY Types, Config
    <3>3. deps[d].age <= CheckInterval[d] + TickerPeriod + CheckTimeout[d]
      <4>1. CASE check[d].running
        BY <3>1, <3>2, <4>1
      <4>2. CASE ~check[d].running
        BY <3>1, <3>2, <4>2
      <4>3. QED
        BY <4>1, <4>2
    <3>4. QED
      BY <3>3 DEF StaleAfter
  <2>3. sinceUp[d] \in Nat /\ deps[d].age \in Nat /\ StaleAfter(d) \in Nat
    <3>1. /\ CheckInterval[d] \in Nat /\ TickerPeriod \in Nat
          /\ CheckTimeout[d] \in Nat
      BY Config
    <3>2. StaleAfter(d) \in Nat
      BY <3>1 DEF StaleAfter
    <3>3. QED
      BY <3>2, Types
  <2>4. QED
    BY <2>1, <2>2, <2>3
<1>2. QED
  BY <1>1, HealthInvariant, PTL

\* The controller gets ready in time, and stays ready, if the checks of the
\* critical dependencies cannot fail, as checkDatabase cannot.
THEOREM ReadyIsReached == HealthSpec => []ReadyInTime
<1>1. HealthInv => ReadyInTime
  <2> SUFFICES ASSUME HealthInv, NEW d \in Critical, Endpoints[d] = <<>>,
                      uptime > CheckInterval[d] + TickerPeriod,
                      deps[d].status # "healthy"
               PROVE  FALSE
    BY DEF ReadyInTime, Ready
  <2> USE DEF HealthInv
  <2>1. d \in Dependencies
    BY HealthAssumption
  <2>2. deps[d].age = uptime /\ (check[d].running => check[d].elapsed = 0)
    BY <2>1 DEF NeverUnhealthy
  <2>3. deps[d].age <= CheckInterval[d]
          + IF check[d].running THEN TickerPeriod + check[d].elapsed ELSE phase
    BY <2>1 DEF AgeBounded
  <2>4. QED
    BY <2>1, <2>2, <2>3, Types, Config
<1>2. QED
  BY <1>1, HealthInvariant, PTL

\* A status is neither stale, nor replaced by an older one, nor late at the
\* start (startPeriodicChecks, checkDependency).
THEOREM StatusesInTime == HealthSpec => []StatusInTime
BY NoOverlap, HealthyIsRecent, ReadyIsReached, PTL DEF StatusInTime

-----------------------------------------------------------------------------
(* What a check has found out so far, if no endpoint changed meanwhile. *)

HangsBefore(d, i) == {j \in 1..(i - 1) : answers[d][j] = "hangs"}
Hangs(d, i)       == Cardinality(HangsBefore(d, i))

\* No endpoint probed so far was up, and the time went into those that hang.
Probed(d) ==
    LET e == check[d].endpoint
    IN  /\ \A j \in 1..(e - 1) : answers[d][j] # "up"
        /\ check[d].elapsed = ProbeTimeout * Hangs(d, e) + check[d].spent
        /\ (e <= Len(Endpoints[d]) /\ answers[d][e] = "hangs") \/ check[d].spent = 0

ChecksProbed == \A d \in Dependencies : check[d].running /\ steady[d] => Probed(d)

LEMMA HangsCount ==
    ASSUME NEW d, NEW i \in Nat \ {0}
    PROVE  /\ Hangs(d, i) \in Nat /\ Hangs(d, 1) = 0
           /\ Hangs(d, i + 1) = IF answers[d][i] = "hangs" THEN Hangs(d, i) + 1 ELSE Hangs(d, i)
           /\ \A k \in Nat : i <= k => Hangs(d, i) <= Hangs(d, k)
<1>1. \A k \in Nat : IsFiniteSet(HangsBefore(d, k)) /\ Hangs(d, k) \in Nat
  <2>1. TAKE k \in Nat
  <2>2. IsFiniteSet(1..(k - 1))
    <3>1. 1 \in Int /\ k - 1 \in Int
      OBVIOUS
    <3>2. QED
      BY <3>1, FS_Interval
  <2>3. HangsBefore(d, k) \subseteq 1..(k - 1)
    BY DEF HangsBefore
  <2>4. IsFiniteSet(HangsBefore(d, k))
    BY <2>2, <2>3, FS_Subset
  <2>5. QED
    BY <2>4, FS_CardinalityType DEF Hangs
<1>2. Hangs(d, 1) = 0
  <2>1. HangsBefore(d, 1) = {}
    BY DEF HangsBefore
  <2>2. QED
    BY <2>1, FS_EmptySet DEF Hangs
<1>3. Hangs(d, i + 1) = IF answers[d][i] = "hangs" THEN Hangs(d, i) + 1 ELSE Hangs(d, i)
  <2>1. CASE answers[d][i] = "hangs"
    <3>1. HangsBefore(d, i + 1) = HangsBefore(d, i) \cup {i} /\ i \notin HangsBefore(d, i)
      BY <2>1 DEF HangsBefore
    <3>2. IsFiniteSet(HangsBefore(d, i))
      BY <1>1
    <3>3. Cardinality(HangsBefore(d, i) \cup {i}) = Cardinality(HangsBefore(d, i)) + 1
      BY <3>1, <3>2, FS_AddElement
    <3>4. Hangs(d, i + 1) = Hangs(d, i) + 1
      BY <3>1, <3>3 DEF Hangs
    <3>5. QED
      BY <2>1, <3>4
  <2>2. CASE answers[d][i] # "hangs"
    <3>1. HangsBefore(d, i + 1) = HangsBefore(d, i)
      BY <2>2 DEF HangsBefore
    <3>2. QED
      BY <2>2, <3>1 DEF Hangs
  <2>3. QED
    BY <2>1, <2>2
<1>5. ASSUME NEW k \in Nat, i <= k PROVE Hangs(d, i) <= Hangs(d, k)
  <2>1. HangsBefore(d, i) \subseteq HangsBefore(d, k)
    BY <1>5 DEF HangsBefore
  <2>2. IsFiniteSet(HangsBefore(d, k))
    BY <1>1
  <2>3. QED
    BY <2>1, <2>2, FS_Subset DEF Hangs
<1>6. QED
  BY <1>1, <1>2, <1>3, <1>5

LEMMA ProbeTimes ==
    ASSUME NEW m \in Nat
    PROVE  /\ ProbeTimeout * m \in Nat
           /\ ProbeTimeout * (m + 1) = ProbeTimeout * m + ProbeTimeout
           /\ \A n \in Nat : m <= n => ProbeTimeout * m <= ProbeTimeout * n
<1>1. ProbeTimeout \in Nat
  BY HealthAssumption
<1>2. QED
  BY <1>1

LEMMA FailureKeepsRunning ==
    ASSUME HealthInv, NEW c \in Dependencies, ProbeFails(c), NEW d \in Dependencies
    PROVE  check'[d].running = check[d].running
<1> DEFINE w == [check[c] EXCEPT !.endpoint = @ + 1]
           v == [w EXCEPT !.spent = 0]
<1>1. check \in [Dependencies -> CheckRecord] /\ check[c] \in CheckRecord
  BY DEF HealthInv, HealthTypeOK, CheckRecord
<1>2. check' = [check EXCEPT ![c] = v]
  BY <1>1 DEF ProbeFails
<1>3. v.running = check[c].running
  BY <1>1 DEF CheckRecord
<1> HIDE DEF v
<1>4. QED
  BY <1>1, <1>2, <1>3

LEMMA TimeChecks ==
    ASSUME HealthInv, TimePasses, NEW c \in Dependencies
    PROVE  /\ check'[c].running = check[c].running
           /\ ~check[c].running => check'[c] = check[c]
           /\ check[c].running =>
                /\ check'[c].endpoint = check[c].endpoint
                /\ check'[c].elapsed = check[c].elapsed + 1
                /\ check'[c].spent = check[c].spent + 1
           /\ Waiting(c) /\ answers' = answers /\ steady' = steady
<1> DEFINE Later(d) == [check[d] EXCEPT !.elapsed = check[d].elapsed + 1,
                                       !.spent = check[d].spent + 1]
<1>1. /\ check' = [d \in Dependencies |-> IF check[d].running THEN Later(d) ELSE check[d]]
      /\ Waiting(c) /\ answers' = answers /\ steady' = steady
  <2>1. check' = [d \in Dependencies |-> IF check[d].running THEN Later(d) ELSE check[d]]
    BY Zenon DEF TimePasses
  <2>2. Waiting(c)
    BY Zenon DEF TimePasses
  <2>3. answers' = answers /\ steady' = steady
    BY Zenon DEF TimePasses
  <2>4. QED
    BY Zenon, <2>1, <2>2, <2>3
<1>2. check[c] \in CheckRecord
  BY DEF HealthInv, HealthTypeOK, CheckRecord
<1>3. /\ Later(c).running = check[c].running /\ Later(c).endpoint = check[c].endpoint
      /\ Later(c).elapsed = check[c].elapsed + 1 /\ Later(c).spent = check[c].spent + 1
  <2> DEFINE w == [check[c] EXCEPT !.elapsed = check[c].elapsed + 1]
             v == [w EXCEPT !.spent = check[c].spent + 1]
  <2>1. /\ w.running = check[c].running /\ w.endpoint = check[c].endpoint
        /\ w.elapsed = check[c].elapsed + 1
        /\ DOMAIN w = {"running", "elapsed", "endpoint", "spent"}
    BY <1>2 DEF CheckRecord
  <2>2. Later(c) = v
    OBVIOUS
  <2> HIDE DEF w, Later
  <2>3. /\ v.running = check[c].running /\ v.endpoint = check[c].endpoint
        /\ v.elapsed = check[c].elapsed + 1 /\ v.spent = check[c].spent + 1
    BY <2>1
  <2>4. QED
    BY <2>2, <2>3
<1>4. check'[c] = IF check[c].running THEN Later(c) ELSE check[c]
  <2> HIDE DEF Later
  <2>1. QED
    BY <1>1
<1> HIDE DEF Later
<1>5. QED
  BY <1>1, <1>3, <1>4

\* What a check that ends, and nothing changed meanwhile, has found out.
LEMMA EndTellsTruth ==
    ASSUME HealthInv, NEW d \in Dependencies, check[d].running, Probed(d)
    PROVE  /\ ProbeSucceeds(d) => ReachableIn(d, CheckTimeout[d])
           /\ NoneAnswered(d) \/ (CheckTimesOut(d) /\ Endpoints[d] # <<>>) =>
                ~ReachableIn(d, CheckTimeout[d] - 1)
<1> DEFINE e == check[d].endpoint
           L == Len(Endpoints[d])
<1>1. /\ e \in Nat \ {0} /\ L \in Nat /\ DOMAIN Endpoints[d] = 1..L
      /\ check[d].spent \in Nat /\ check[d].spent <= ProbeTimeout /\ ProbeTimeout \in Nat
      /\ check[d].elapsed \in Nat /\ check[d].elapsed <= CheckTimeout[d]
      /\ CheckTimeout[d] \in Nat
  BY Types, Config DEF HealthInv
<1>2. /\ \A j \in 1..(e - 1) : answers[d][j] # "up"
      /\ check[d].elapsed = ProbeTimeout * Hangs(d, e) + check[d].spent
      /\ (e <= L /\ answers[d][e] = "hangs") \/ check[d].spent = 0
  BY DEF Probed
<1>3. \A i : ProbeTimeout * Cardinality({j \in 1..(i - 1) : answers[d][j] = "hangs"})
               = ProbeTimeout * Hangs(d, i)
  BY DEF Hangs, HangsBefore
<1>4. ASSUME ProbeSucceeds(d) PROVE ReachableIn(d, CheckTimeout[d])
  <2>1. CASE Endpoints[d] = <<>>
    BY <2>1 DEF ReachableIn
  <2>2. CASE Probing(d) /\ Answer(d) = "up"
    <3>1. e \in DOMAIN Endpoints[d] /\ answers[d][e] = "up"
      BY <1>1, <2>2 DEF Probing, Answer
    <3>2. ProbeTimeout * Hangs(d, e) \in Nat
      BY <1>1, HangsCount, ProbeTimes
    <3>3. ProbeTimeout * Hangs(d, e) <= CheckTimeout[d]
      BY <1>1, <1>2, <3>2
    <3> HIDE DEF e
    <3>4. ProbeTimeout * Cardinality({j \in 1..(e - 1) : answers[d][j] = "hangs"}) <= CheckTimeout[d]
      BY <1>3, <3>3
    <3>5. QED
      BY <3>1, <3>4 DEF ReachableIn
  <2>3. QED
    BY <1>4, <2>1, <2>2 DEF ProbeSucceeds
<1>5. ASSUME NoneAnswered(d) \/ (CheckTimesOut(d) /\ Endpoints[d] # <<>>),
             ReachableIn(d, CheckTimeout[d] - 1)
      PROVE  FALSE
  <2>1. Endpoints[d] # <<>>
    BY <1>5 DEF NoneAnswered
  <2>2. PICK i \in DOMAIN Endpoints[d] :
          /\ answers[d][i] = "up"
          /\ ProbeTimeout * Cardinality({j \in 1..(i - 1) : answers[d][j] = "hangs"})
               <= CheckTimeout[d] - 1
    BY <1>5, <2>1 DEF ReachableIn
  <2>3. ProbeTimeout * Hangs(d, i) <= CheckTimeout[d] - 1
    BY <1>3, <2>2
  <2>4. i \in Nat /\ i \in 1..L /\ e <= i
    <3>1. i \in 1..L
      BY <1>1
    <3>2. i \notin 1..(e - 1)
      BY <1>2, <2>2
    <3> HIDE DEF e, L
    <3>3. QED
      BY <1>1, <3>1, <3>2
  <2>5. ~NoneAnswered(d)
    BY <1>1, <2>4 DEF NoneAnswered, Probing
  <2>6. check[d].elapsed = CheckTimeout[d]
    BY <1>5, <2>5 DEF CheckTimesOut
  <2>7. /\ Hangs(d, i) \in Nat /\ Hangs(d, e) \in Nat /\ e + 1 \in Nat \ {0}
        /\ Hangs(d, e) <= Hangs(d, i)
        /\ e + 1 <= i => Hangs(d, e + 1) <= Hangs(d, i)
        /\ Hangs(d, e + 1) = IF answers[d][e] = "hangs" THEN Hangs(d, e) + 1 ELSE Hangs(d, e)
    <3> HIDE DEF e
    <3>1. e \in Nat \ {0} /\ e + 1 \in Nat \ {0}
      BY <1>1
    <3>2. /\ Hangs(d, e) \in Nat /\ Hangs(d, e) <= Hangs(d, i)
          /\ Hangs(d, e + 1) = IF answers[d][e] = "hangs" THEN Hangs(d, e) + 1 ELSE Hangs(d, e)
      BY <2>4, <3>1, HangsCount
    <3>3. e + 1 <= i => Hangs(d, e + 1) <= Hangs(d, i)
      BY <2>4, <3>1, HangsCount
    <3>4. Hangs(d, i) \in Nat
      <4>1. i \in Nat \ {0}
        BY <2>4, <3>1
      <4>2. QED
        BY <4>1, HangsCount
    <3>5. QED
      BY <3>1, <3>2, <3>3, <3>4
  <2>8. /\ ProbeTimeout * Hangs(d, e) \in Nat /\ ProbeTimeout * Hangs(d, i) \in Nat
        /\ ProbeTimeout * Hangs(d, e) <= ProbeTimeout * Hangs(d, i)
        /\ ProbeTimeout * (Hangs(d, e) + 1) = ProbeTimeout * Hangs(d, e) + ProbeTimeout
    <3> HIDE DEF e
    <3>1. QED
      BY <2>7, ProbeTimes
  <2>9. CASE check[d].spent = 0
    <3> HIDE DEF e
    <3>1. QED
      BY <1>1, <1>2, <2>3, <2>6, <2>8, <2>9
  <2>10. CASE e <= L /\ answers[d][e] = "hangs"
    <3> HIDE DEF e
    <3>1. e + 1 <= i
      <4>1. e # i
        BY <2>2, <2>10
      <4>2. QED
        BY <1>1, <2>4, <4>1
    <3>2. Hangs(d, e) + 1 <= Hangs(d, i) /\ Hangs(d, e) + 1 \in Nat
      BY <2>7, <2>10, <3>1
    <3>3. ProbeTimeout * (Hangs(d, e) + 1) <= ProbeTimeout * Hangs(d, i)
      BY <2>7, <3>2, ProbeTimes
    <3>4. ProbeTimeout * Hangs(d, e) + check[d].spent = CheckTimeout[d]
      BY <1>2, <2>6
    <3>5. QED
      BY <1>1, <2>3, <2>8, <3>3, <3>4
  <2>11. QED
    BY <1>2, <2>9, <2>10
<1>6. QED
  BY <1>4, <1>5

\* Only the end of a check ends it.
LEMMA ChecksProbedStep ==
    HealthInv /\ ChecksProbed /\ [HealthNext]_healthVars => ChecksProbed'
<1> SUFFICES ASSUME HealthInv, ChecksProbed, [HealthNext]_healthVars,
                    NEW d \in Dependencies, check'[d].running, steady'[d]
             PROVE  Probed(d)'
  BY DEF ChecksProbed
<1> USE DEF HealthInv
<1>1. CASE PeriodicChecks
  <2>1. ~check[d].running /\ answers' = answers
    BY <1>1, NoneRunningAtTick DEF PeriodicChecks
  <2>2. check'[d] = NewCheck
    BY <1>1, <2>1 DEF PeriodicChecks
  <2>3. check'[d].endpoint = 1 /\ check'[d].elapsed = 0 /\ check'[d].spent = 0
    BY <2>2 DEF NewCheck
  <2>4. Hangs(d, 1) = 0 /\ ProbeTimeout * 0 = 0
    BY HangsCount, HealthAssumption
  <2>5. Hangs(d, 1)' = 0
    BY <2>1, <2>4 DEF Hangs, HangsBefore
  <2>6. Hangs(d, check[d].endpoint)' = 0
    BY <2>3, <2>5 DEF Hangs, HangsBefore
  <2>7. \A j \in 1..(check'[d].endpoint - 1) : FALSE
    BY <2>3
  <2>8. QED
    BY <2>3, <2>4, <2>6, <2>7 DEF Probed
<1>2. ASSUME check'[d] = check[d], answers'[d] = answers[d], steady'[d] = steady[d]
      PROVE  Probed(d)'
  <2>1. Probed(d)
    BY <1>2 DEF ChecksProbed
  <2>2. QED
    BY <1>2, <2>1 DEF Probed, Hangs, HangsBefore
<1>3. ASSUME NEW c \in Dependencies, NEW status, Finish(c, status)
      PROVE  Probed(d)'
  <2>1. d # c
    BY <1>3, NewChecks DEF Finish, HealthTypeOK
  <2>2. check'[d] = check[d] /\ answers' = answers /\ steady' = steady
    BY <1>3, <2>1 DEF Finish, HealthTypeOK
  <2>3. QED
    BY <1>2, <2>2
<1>4. ASSUME NEW c \in Dependencies, ProbeFails(c) PROVE Probed(d)'
  <2>1. /\ check' = [check EXCEPT ![c].endpoint = @ + 1, ![c].spent = 0]
        /\ answers' = answers /\ steady' = steady
    BY <1>4 DEF ProbeFails
  <2>2. CASE c # d
    BY <1>2, <2>1, <2>2 DEF HealthTypeOK
  <2>3. CASE c = d
    <3> DEFINE e == check[d].endpoint
    <3>1. /\ check'[d].endpoint = e + 1 /\ check'[d].spent = 0
          /\ check'[d].elapsed = check[d].elapsed /\ check'[d].running = check[d].running
      <4> DEFINE w == [check[d] EXCEPT !.endpoint = @ + 1]
                 v == [w EXCEPT !.spent = 0]
      <4>1. check[d] \in CheckRecord /\ d \in DOMAIN check
        BY DEF HealthTypeOK, CheckRecord
      <4>2. w.endpoint = e + 1 /\ w.elapsed = check[d].elapsed /\ w.running = check[d].running
            /\ DOMAIN w = {"running", "elapsed", "endpoint", "spent"}
        BY <4>1 DEF CheckRecord
      <4>3. check' = [check EXCEPT ![d] = v]
        BY <2>1, <2>3, <4>1
      <4> HIDE DEF w
      <4>4. QED
        BY <4>1, <4>2, <4>3
    <3>2. Probed(d)
      BY <2>1, <3>1 DEF ChecksProbed
    <3>3. /\ e \in Nat \ {0} /\ e <= Len(Endpoints[d]) /\ Len(Endpoints[d]) \in Nat
          /\ check[d].spent \in Nat /\ ProbeTimeout \in Nat
      BY <1>4, <2>3, Types, Config DEF ProbeFails, Probing
    <3>4. \/ answers[d][e] = "refuses"
          \/ answers[d][e] = "hangs" /\ check[d].spent = ProbeTimeout
      BY <1>4, <2>3 DEF ProbeFails, Answer
    <3>5. \A j \in 1..e : answers[d][j] # "up"
      <4>1. TAKE j \in 1..e
      <4>2. j = e \/ j \in 1..(e - 1)
        BY <3>3
      <4>3. QED
        BY <3>2, <3>4, <4>2 DEF Probed
    <3>6. /\ check[d].elapsed = ProbeTimeout * Hangs(d, e) + check[d].spent
          /\ answers[d][e] = "hangs" \/ check[d].spent = 0
      BY <3>2 DEF Probed
    <3> HIDE DEF e
    <3>7. /\ Hangs(d, e) \in Nat
          /\ Hangs(d, e + 1) = IF answers[d][e] = "hangs" THEN Hangs(d, e) + 1 ELSE Hangs(d, e)
      BY <3>3, HangsCount
    <3>8. /\ ProbeTimeout * Hangs(d, e) \in Nat
          /\ ProbeTimeout * (Hangs(d, e) + 1) = ProbeTimeout * Hangs(d, e) + ProbeTimeout
      BY <3>7, ProbeTimes
    <3>9. check[d].elapsed = ProbeTimeout * Hangs(d, e + 1) + 0
      <4>1. CASE answers[d][e] = "refuses"
        BY <3>6, <3>7, <3>8, <4>1
      <4>2. CASE answers[d][e] = "hangs" /\ check[d].spent = ProbeTimeout
        BY <3>3, <3>6, <3>7, <3>8, <4>2
      <4>3. QED
        BY <3>4, <4>1, <4>2
    <3>10. e + 1 - 1 = e
      BY <3>3
    <3>11. Hangs(d, check[d].endpoint)' = Hangs(d, e + 1)
      BY <2>1, <3>1 DEF Hangs, HangsBefore
    <3>12. \A j \in 1..(check'[d].endpoint - 1) : answers'[d][j] # "up"
      <4>1. check'[d].endpoint = e + 1 /\ answers'[d] = answers[d]
        BY <2>1, <3>1
      <4>2. check'[d].endpoint - 1 = e
        BY <3>3, <4>1
      <4>3. QED
        BY <3>5, <4>1, <4>2
    <3>13. QED
      BY <3>1, <3>9, <3>11, <3>12 DEF Probed
  <2>4. QED
    BY <2>2, <2>3
<1>5. ASSUME NEW c \in Dependencies, NEW i \in DOMAIN Endpoints[c],
             NEW answer \in {"up", "refuses", "hangs"}, EndpointChanges(c, i, answer)
      PROVE  Probed(d)'
  <2>1. c # d
    BY <1>5 DEF EndpointChanges, HealthTypeOK
  <2>2. check' = check /\ answers'[d] = answers[d] /\ steady'[d] = steady[d]
    BY <1>5, <2>1 DEF EndpointChanges, HealthTypeOK
  <2>3. QED
    BY <1>2, <2>2
<1>6. ASSUME TimePasses PROVE Probed(d)'
  <2> DEFINE e == check[d].endpoint
  <2>1. /\ check'[d].running = check[d].running /\ Waiting(d)
        /\ answers' = answers /\ steady' = steady
        /\ check'[d].endpoint = e /\ check'[d].elapsed = check[d].elapsed + 1
        /\ check'[d].spent = check[d].spent + 1
    BY <1>6, TimeChecks
  <2>2. Probed(d)
    BY <2>1 DEF ChecksProbed
  <2>3. e <= Len(Endpoints[d]) /\ answers[d][e] = "hangs"
    BY <2>1 DEF Waiting, Probing, Answer
  <2>4. e \in Nat \ {0} /\ check[d].spent \in Nat
    BY Types
  <2>5. /\ \A j \in 1..(e - 1) : answers[d][j] # "up"
        /\ check[d].elapsed = ProbeTimeout * Hangs(d, e) + check[d].spent
    BY <2>2 DEF Probed
  <2> HIDE DEF e
  <2>6. Hangs(d, e) \in Nat
    BY <2>4, HangsCount
  <2>7. ProbeTimeout * Hangs(d, e) \in Nat
    BY <2>6, ProbeTimes
  <2>8. check[d].elapsed + 1 = ProbeTimeout * Hangs(d, e) + (check[d].spent + 1)
    BY <2>4, <2>5, <2>7
  <2>9. Hangs(d, check[d].endpoint)' = Hangs(d, e)
    BY <2>1 DEF Hangs, HangsBefore
  <2>10. QED
    BY <2>1, <2>3, <2>5, <2>8, <2>9 DEF Probed
<1>7. CASE UNCHANGED healthVars
  BY <1>2, <1>7 DEF healthVars
<1>8. ASSUME NEW c \in Dependencies, ProbeSucceeds(c) \/ NoneAnswered(c) \/ CheckTimesOut(c)
      PROVE  Probed(d)'
  BY <1>3, <1>8 DEF ProbeSucceeds, NoneAnswered, CheckTimesOut
<1>9. QED
  BY <1>1, <1>4, <1>5, <1>6, <1>7, <1>8 DEF HealthNext

\* A check during which no endpoint changes tells the truth as far as its
\* timeout lets it, for every number of endpoints that are up, refuse or hang
\* (checkAgents, checkDependency).
THEOREM ChecksAreExact == HealthSpec => CheckIsExact
<1>1. HealthInit => ChecksProbed
  BY DEF HealthInit, ChecksProbed, NoCheck
<1>2. ASSUME HealthInv, ChecksProbed, HealthNext, NEW d \in Dependencies,
             check[d].running, ~check'[d].running, steady[d]
      PROVE  /\ deps'[d].status = "healthy" => ReachableIn(d, CheckTimeout[d])
             /\ ReachableIn(d, CheckTimeout[d] - 1) => deps'[d].status = "healthy"
  <2> USE DEF HealthInv
  <2>1. Probed(d)
    BY <1>2 DEF ChecksProbed
  <2>2. ProbeSucceeds(d) \/ NoneAnswered(d) \/ CheckTimesOut(d)
    <3>1. ~PeriodicChecks
      BY <1>2, NoneRunningAtTick DEF PeriodicChecks
    <3>2. ~TimePasses
      BY <1>2, TimeChecks
    <3>3. ASSUME NEW c \in Dependencies
          PROVE  ~ProbeFails(c) /\ \A i, answer : ~EndpointChanges(c, i, answer)
      BY <1>2, FailureKeepsRunning DEF EndpointChanges
    <3>4. ASSUME NEW c \in Dependencies, c # d
          PROVE  ~ProbeSucceeds(c) /\ ~NoneAnswered(c) /\ ~CheckTimesOut(c)
      BY <1>2, <3>4 DEF ProbeSucceeds, NoneAnswered, CheckTimesOut, Finish, HealthTypeOK
    <3>5. QED
      BY <1>2, <3>1, <3>2, <3>3, <3>4 DEF HealthNext
  <2>3. ASSUME NEW status, Finish(d, status) PROVE deps'[d].status = status
    <3>1. deps' = [deps EXCEPT ![d] = [status |-> status, age |-> 0]]
      BY <2>3 DEF Finish
    <3>3. DOMAIN deps = Dependencies
      BY <1>2 DEF HealthTypeOK
    <3>2. QED
      BY <3>1, <3>3
  <2>4. CASE ProbeSucceeds(d)
    <3>1. deps'[d].status = "healthy"
      BY <2>3, <2>4 DEF ProbeSucceeds
    <3>2. ReachableIn(d, CheckTimeout[d])
      BY <1>2, <2>1, <2>4, EndTellsTruth
    <3>3. QED
      BY <3>1, <3>2
  <2>5. CASE NoneAnswered(d) \/ CheckTimesOut(d)
    <3>1. deps'[d].status = "unhealthy"
      BY <2>3, <2>5 DEF NoneAnswered, CheckTimesOut
    <3>2. Endpoints[d] # <<>>
      BY <1>2, <2>5, Config DEF NoneAnswered, CheckTimesOut, NeverUnhealthy
    <3>3. ~ReachableIn(d, CheckTimeout[d] - 1)
      BY <1>2, <2>1, <2>5, <3>2, EndTellsTruth
    <3>4. QED
      BY <3>1, <3>3
  <2>6. QED
    BY <2>2, <2>4, <2>5
<1> DEFINE Exact == \A d \in Dependencies :
             check[d].running /\ ~check'[d].running /\ steady[d] =>
               /\ deps'[d].status = "healthy" => ReachableIn(d, CheckTimeout[d])
               /\ ReachableIn(d, CheckTimeout[d] - 1) => deps'[d].status = "healthy"
<1>3. HealthInv /\ ChecksProbed /\ [HealthNext]_healthVars => [Exact]_healthVars
  BY <1>2
<1>4. CheckIsExact <=> [][Exact]_healthVars
  BY DEF CheckIsExact
<1> HIDE DEF Exact
<1>5. QED
  BY <1>1, <1>3, <1>4, ChecksProbedStep, HealthInvariant, PTL DEF HealthSpec

-----------------------------------------------------------------------------
(* ExportService (Exports).  First the data: what the recursive functions    *)
(* that build it return.                                                     *)

Numbers == 1..Len(Source)
Piece   == SupportedFormats \X Nat \X Nat \X Nat

\* F[i] is the concatenation of the first i sequences.
Concatenates(F, ss, S) ==
    /\ F \in [0..Len(ss) -> Seq(S)]
    /\ F[0] = <<>>
    /\ \A i \in 1..Len(ss) : F[i] = F[i - 1] \o ss[i]

LEMMA ConcatenationExists ==
    ASSUME NEW S, NEW ss \in Seq(Seq(S))
    PROVE  \E F : Concatenates(F, ss, S)
<1> DEFINE L == Len(ss)
           step == [p \in Nat \X Seq(S) |->
                      IF p[1] \in 1..L THEN p[2] \o ss[p[1]] ELSE p[2]]
<1>1. L \in Nat /\ \A i \in 1..L : ss[i] \in Seq(S)
  BY LenProperties, ElementOfSeq
<1> HIDE DEF L
<1>2. step \in [Nat \X Seq(S) -> Seq(S)]
  <2>1. ASSUME NEW p \in Nat \X Seq(S)
        PROVE  (IF p[1] \in 1..L THEN p[2] \o ss[p[1]] ELSE p[2]) \in Seq(S)
    <3>1. p[2] \in Seq(S)
      OBVIOUS
    <3>2. QED
      BY <1>1, <3>1, ConcatProperties
  <2>2. QED
    BY <2>1
<1>3. <<>> \in Seq(S)
  OBVIOUS
<1>4. PICK F : IsIteration(F, Seq(S), <<>>, step, L)
  <2> HIDE DEF step
  <2>1. QED
    BY <1>1, <1>2, <1>3, Iterates
<1>5. F \in [0..L -> Seq(S)] /\ F[0] = <<>> /\ \A i \in 1..L : F[i] = step[<<i, F[i - 1]>>]
  <2> HIDE DEF step
  <2>1. QED
    BY <1>4 DEF IsIteration
<1>6. ASSUME NEW i \in 1..L PROVE F[i] = F[i - 1] \o ss[i]
  <2>1. i - 1 \in 0..L /\ i \in Nat
    BY <1>1
  <2>2. F[i - 1] \in Seq(S) /\ F[i] = step[<<i, F[i - 1]>>]
    <3> HIDE DEF step
    <3>1. QED
      BY <1>5, <2>1
  <2>3. <<i, F[i - 1]>> \in Nat \X Seq(S)
    BY <2>1, <2>2
  <2>4. QED
    BY <2>2, <2>3
<1>7. QED
  BY <1>5, <1>6 DEF Concatenates, L

LEMMA FlattenSteps ==
    ASSUME NEW S, NEW ss \in Seq(Seq(S)), NEW F, Concatenates(F, ss, S)
    PROVE  FlattenSeq(ss) = F[Len(ss)]
<1> DEFINE L == Len(ss)
           Flat(f) == f = [i \in 1..Len(ss) |->
                             IF i = 1 THEN ss[i] ELSE f[i - 1] \o ss[i]]
           G == [i \in 1..L |-> F[i]]
           H == CHOOSE f : Flat(f)
<1>1. L \in Nat /\ \A i \in 1..L : ss[i] \in Seq(S)
  BY LenProperties, ElementOfSeq
<1>2. /\ F \in [0..L -> Seq(S)] /\ F[0] = <<>>
      /\ \A i \in 1..L : F[i] = F[i - 1] \o ss[i]
  BY DEF Concatenates
<1>3. L # 0 => F[1] = ss[1]
  <2>1. L # 0 => F[1] = F[0] \o ss[1] /\ ss[1] \in Seq(S)
    <3>1. L # 0 => 1 \in 1..L /\ 1 - 1 = 0
      BY <1>1
    <3> HIDE DEF L
    <3>2. QED
      BY <1>1, <1>2, <3>1
  <2>2. QED
    BY <1>2, <2>1, ConcatEmptySeq
<1>4. CASE L = 0
  <2>1. ss = <<>>
    BY <1>4, EmptySeq
  <2>2. QED
    BY <1>2, <1>4, <2>1 DEF FlattenSeq
<1>5. CASE L # 0
  <2>1. Flat(G)
    <3>1. ASSUME NEW i \in 1..L
          PROVE  G[i] = IF i = 1 THEN ss[i] ELSE G[i - 1] \o ss[i]
      <4>1. CASE i = 1
        BY <1>3, <1>5, <4>1
      <4>2. CASE i # 1
        <5>1. i - 1 \in 1..L
          BY <1>1, <4>2
        <5>2. QED
          BY <1>2, <4>2, <5>1
      <4>3. QED
        BY <4>1, <4>2
    <3>2. QED
      BY <3>1
  <2>2. Flat(H)
    <3> HIDE DEF Flat, G
    <3>1. QED
      BY <2>1
  <2>3. FlattenSeq(ss) = H[L]
    BY <1>5 DEF FlattenSeq
  <2> HIDE DEF H, G
  <2>4. \A i \in 1..L : H[i] = IF i = 1 THEN ss[i] ELSE H[i - 1] \o ss[i]
    BY <2>2
  <2> HIDE DEF Flat, L
  <2> DEFINE N == {0} \cup {i \in 1..L : H[i] = F[i]}
  <2>5. ASSUME NEW i \in 1..L, i - 1 \in N PROVE i \in N
    <3>1. CASE i = 1
      BY <1>3, <1>5, <2>4, <3>1
    <3>2. CASE i # 1
      <4>1. H[i - 1] = F[i - 1]
        BY <2>5, <3>2
      <4>2. H[i] = F[i]
        BY <1>2, <2>4, <3>2, <4>1
      <4>3. QED
        BY <4>2
    <3>3. QED
      BY <3>1, <3>2
  <2>6. 0 \in N
    OBVIOUS
  <2> HIDE DEF N
  <2>7. 0..L \subseteq N
    BY <1>1, <2>5, <2>6, InductionUpTo
  <2>8. L \in N
    BY <1>1, <2>7
  <2>9. QED
    BY <1>1, <1>5, <2>3, <2>8 DEF N, L
<1>6. QED
  BY <1>4, <1>5

LEMMA FlattenType ==
    ASSUME NEW S, NEW ss \in Seq(Seq(S))
    PROVE  FlattenSeq(ss) \in Seq(S)
<1>1. PICK F : Concatenates(F, ss, S)
  BY ConcatenationExists
<1>2. FlattenSeq(ss) = F[Len(ss)]
  BY <1>1, FlattenSteps
<1>3. Len(ss) \in Nat
  BY LenProperties
<1>4. QED
  BY <1>1, <1>2, <1>3 DEF Concatenates

LEMMA FetchType == ASSUME NEW filters PROVE FetchFilteredData(filters) \in Seq(Numbers)
<1> DEFINE L == Len(Source)
           match(n) == MatchesFilters(Source[n], filters)
           T == Seq(1..L)
           step == [p \in Nat \X T |->
                      IF p[1] \in 1..L /\ match(p[1]) THEN Append(p[2], p[1]) ELSE p[2]]
           Fetched(f) == f = [n \in 0..L |->
                                IF n = 0 THEN <<>>
                                ELSE IF match(n) THEN Append(f[n - 1], n) ELSE f[n - 1]]
<1>1. L \in Nat
  BY VerifierAssumption
<1>2. FetchFilteredData(filters) = (CHOOSE f : Fetched(f))[L]
  BY DEF FetchFilteredData
<1> HIDE DEF match, L
<1>3. step \in [Nat \X T -> T]
  <2>1. ASSUME NEW p \in Nat \X T
        PROVE  (IF p[1] \in 1..L /\ match(p[1]) THEN Append(p[2], p[1]) ELSE p[2]) \in T
    <3>1. p[2] \in T
      OBVIOUS
    <3>2. CASE p[1] \in 1..L
      <4>1. Append(p[2], p[1]) \in T
        BY <3>1, <3>2, AppendProperties
      <4>2. QED
        BY <3>1, <4>1
    <3>3. QED
      BY <3>1, <3>2
  <2> HIDE DEF T
  <2>2. QED
    BY <2>1
<1>4. <<>> \in T
  OBVIOUS
<1> HIDE DEF T
<1>5. PICK F : IsIteration(F, T, <<>>, step, L)
  <2> HIDE DEF step
  <2>1. QED
    BY <1>1, <1>3, <1>4, Iterates
<1>6. F \in [0..L -> T] /\ F[0] = <<>> /\ \A i \in 1..L : F[i] = step[<<i, F[i - 1]>>]
  <2> HIDE DEF step
  <2>1. QED
    BY <1>5 DEF IsIteration
<1>7. ASSUME NEW n \in 1..L
      PROVE  F[n] = IF match(n) THEN Append(F[n - 1], n) ELSE F[n - 1]
  <2>1. n - 1 \in 0..L /\ n \in Nat
    BY <1>1
  <2>2. F[n - 1] \in T /\ F[n] = step[<<n, F[n - 1]>>]
    <3> HIDE DEF step
    <3>1. QED
      BY <1>6, <2>1
  <2>3. <<n, F[n - 1]>> \in Nat \X T
    BY <2>1, <2>2
  <2>4. QED
    BY <2>2, <2>3
<1> HIDE DEF step
<1>8. Fetched(F)
  <2>1. \A n \in 0..L : n = 0 \/ n \in 1..L
    BY <1>1
  <2>2. QED
    BY <1>6, <1>7, <2>1
<1> DEFINE G == CHOOSE f : Fetched(f)
<1>9. Fetched(G)
  <2> HIDE DEF Fetched
  <2>1. QED
    BY <1>8
<1> HIDE DEF G
<1>10. /\ G[0] = <<>>
       /\ \A n \in 1..L : G[n] = IF match(n) THEN Append(G[n - 1], n) ELSE G[n - 1]
  <2>1. 0 \in 0..L /\ \A n \in 1..L : n \in 0..L /\ n # 0
    BY <1>1
  <2>2. QED
    BY <1>9, <2>1
<1> HIDE DEF Fetched
<1> DEFINE N == {n \in Nat : G[n] \in T}
<1>11. 0 \in N
  BY <1>4, <1>10
<1>12. ASSUME NEW n \in 1..L, n - 1 \in N PROVE n \in N
  <2>1. G[n - 1] \in T /\ n \in Nat
    BY <1>1, <1>12
  <2>2. Append(G[n - 1], n) \in T
    BY <2>1, AppendProperties DEF T
  <2>3. QED
    BY <1>10, <2>1, <2>2
<1> HIDE DEF N
<1>13. 0..L \subseteq N
  BY <1>1, <1>11, <1>12, InductionUpTo
<1>14. G[L] \in T
  BY <1>1, <1>13 DEF N
<1>15. QED
  BY <1>2, <1>14 DEF G, T, L, Numbers

LEMMA FormatType ==
    ASSUME NEW format \in SupportedFormats, NEW t \in Nat, NEW numbers \in Seq(Numbers)
    PROVE  FormatData(format, t, numbers) \in Seq(Piece)
<1> DEFINE Line(n) == [k \in 1..(RecordSize[n] + 1) |-> <<format, n, t, k>>]
           ss == [i \in 1..Len(numbers) |-> Line(numbers[i])]
           rows == FlattenSeq(ss)
<1>1. ASSUME NEW n \in 0..Len(Source) PROVE Line(n) \in Seq(Piece)
  <2>1. RecordSize[n] + 1 \in Nat /\ n \in Nat
    BY VerifierAssumption
  <2> DEFINE m == RecordSize[n] + 1
  <2>2. \A k \in 1..m : <<format, n, t, k>> \in Piece
    BY <2>1 DEF Piece
  <2> HIDE DEF m
  <2>3. [k \in 1..m |-> <<format, n, t, k>>] \in Seq(Piece)
    BY <2>1, <2>2 DEF m
  <2>4. QED
    BY <2>3 DEF m
<1>2. Line(0) \in Seq(Piece)
  <2>1. 0 \in 0..Len(Source)
    BY VerifierAssumption
  <2>2. QED
    BY <1>1, <2>1
<1> HIDE DEF Line
<1>3. ss \in Seq(Seq(Piece))
  <2>1. Len(numbers) \in Nat /\ \A i \in 1..Len(numbers) : numbers[i] \in 0..Len(Source)
    BY VerifierAssumption, LenProperties, ElementOfSeq DEF Numbers
  <2>2. \A i \in 1..Len(numbers) : Line(numbers[i]) \in Seq(Piece)
    BY <1>1, <2>1
  <2>3. QED
    BY <2>1, <2>2
<1> HIDE DEF ss
<1>4. rows \in Seq(Piece)
  BY <1>3, FlattenType
<1>5. FormatData(format, t, numbers) =
        CASE format = "ndjson"  -> rows
          [] format = "csv"     -> IF numbers = <<>> THEN <<>> ELSE Line(0) \o rows
          [] format = "parquet" -> Line(0) \o rows
  BY DEF FormatData, Line, ss
<1> HIDE DEF rows
<1>6. Line(0) \o rows \in Seq(Piece) /\ <<>> \in Seq(Piece)
  BY <1>2, <1>4, ConcatProperties
<1>7. QED
  BY <1>4, <1>5, <1>6 DEF SupportedFormats

-----------------------------------------------------------------------------
(* Chunks put together are the data. *)

LEMMA Products ==
    ASSUME NEW m \in Nat, NEW c \in Nat
    PROVE  /\ m * c \in Nat /\ (m + 1) * c = m * c + c
           /\ \A n \in Nat : m <= n => m * c <= n * c
OBVIOUS

LEMMA Quotient ==
    ASSUME NEW n \in Nat, NEW c \in Nat \ {0}
    PROVE  n \div c \in Nat /\ (n \div c) * c <= n /\ n < (n \div c) * c + c
<1>1. n \div c \in Nat /\ n % c \in 0..(c - 1) /\ n = c * (n \div c) + (n % c)
  OBVIOUS
<1> DEFINE q == n \div c
<1>2. q \in Nat /\ c * q = q * c /\ q * c \in Nat
  BY <1>1
<1>3. QED
  BY <1>1, <1>2

LEMMA ChunkBounds ==
    ASSUME NEW data, Len(data) \in Nat
    PROVE  /\ ChunkCount(data) \in Nat
           /\ ChunkCount(data) * ChunkSize >= Len(data)
           /\ \A i \in 0..(ChunkCount(data) - 1) : i * ChunkSize < Len(data)
<1> DEFINE L == Len(data)
           K == (L + ChunkSize - 1) \div ChunkSize
<1>1. ChunkSize \in Nat \ {0} /\ L + ChunkSize - 1 \in Nat
  BY ExportsAssumption
<1>2. /\ K \in Nat
      /\ K * ChunkSize <= L + ChunkSize - 1
      /\ L + ChunkSize - 1 < K * ChunkSize + ChunkSize
  BY <1>1, Quotient
<1>3. ChunkCount(data) = K
  BY DEF ChunkCount
<1> HIDE DEF K, L
<1>4. L \in Nat
  BY DEF L
<1>5. K * ChunkSize \in Nat
  BY <1>1, <1>2, Products
<1>6. ASSUME NEW i \in 0..(K - 1) PROVE i * ChunkSize < L
  <2>1. i \in Nat /\ i + 1 \in Nat /\ i + 1 <= K
    BY <1>2
  <2>2. /\ (i + 1) * ChunkSize <= K * ChunkSize
        /\ (i + 1) * ChunkSize = i * ChunkSize + ChunkSize
        /\ i * ChunkSize \in Nat
    BY <1>1, <1>2, <2>1, Products
  <2>3. QED
    BY <1>1, <1>2, <1>4, <1>5, <2>2
<1>7. K * ChunkSize >= L
  BY <1>1, <1>2, <1>4, <1>5
<1>8. QED
  BY <1>2, <1>3, <1>6, <1>7 DEF L

\* Where chunk i begins and ends.
Until(data, i) == IF i * ChunkSize > Len(data) THEN Len(data) ELSE i * ChunkSize

LEMMA ChunkType ==
    ASSUME NEW S, NEW data \in Seq(S), NEW i \in 0..(ChunkCount(data) - 1)
    PROVE  /\ i * ChunkSize \in 0..Len(data)
           /\ Until(data, i + 1) \in (i * ChunkSize)..Len(data)
           /\ Chunk(data, i) = SubSeq(data, i * ChunkSize + 1, Until(data, i + 1))
           /\ Chunk(data, i) \in Seq(S)
<1> DEFINE m == i * ChunkSize
           n == (i + 1) * ChunkSize
<1>0. Len(data) \in Nat
  BY LenProperties
<1>1. i \in Nat /\ ChunkSize \in Nat \ {0}
  BY <1>0, ChunkBounds, ExportsAssumption
<1>2. m \in Nat /\ n = m + ChunkSize
  BY <1>1, Products
<1>3. m < Len(data)
  BY <1>0, ChunkBounds
<1>4. Chunk(data, i) = SubSeq(data, m + 1, Until(data, i + 1))
  BY DEF Chunk, Until
<1>5. Until(data, i + 1) \in m..Len(data)
  <2> HIDE DEF m
  <2>1. Until(data, i + 1) = IF n > Len(data) THEN Len(data) ELSE n
    BY DEF Until
  <2> HIDE DEF n
  <2>2. QED
    BY <1>0, <1>1, <1>2, <1>3, <2>1
<1> HIDE DEF m
<1> DEFINE u == Until(data, i + 1)
<1>6. SubSeq(data, m + 1, u) \in Seq(S)
  <2>1. u \in m..Len(data)
    BY <1>5
  <2> HIDE DEF u
  <2>2. \A k \in (m + 1)..u : data[k] \in S
    BY <1>0, <1>2, <2>1, ElementOfSeq
  <2>3. m + 1 \in Int /\ u \in Int
    BY <1>0, <1>2, <2>1
  <2>4. QED
    BY <2>2, <2>3, SubSeqProperties
<1>7. m \in 0..Len(data)
  BY <1>0, <1>2, <1>3
<1>8. QED
  BY <1>4, <1>5, <1>6, <1>7 DEF m

Chunks(data) == [n \in 1..ChunkCount(data) |-> Chunk(data, n - 1)]

LEMMA ChunksMakeData ==
    ASSUME NEW S, NEW data \in Seq(S)
    PROVE  FlattenSeq(Chunks(data)) = data
<1> DEFINE K == ChunkCount(data)
           ss == Chunks(data)
<1>0. Len(data) \in Nat /\ ChunkSize \in Nat \ {0}
  BY LenProperties, ExportsAssumption
<1>1. K \in Nat /\ K * ChunkSize >= Len(data)
  BY <1>0, ChunkBounds
<1>2. \A n \in 1..K : n - 1 \in 0..(K - 1) /\ ss[n] = Chunk(data, n - 1)
  BY <1>1 DEF Chunks
<1>3. ss \in Seq(Seq(S)) /\ Len(ss) = K
  <2>1. \A n \in 1..K : Chunk(data, n - 1) \in Seq(S)
    BY <1>2, ChunkType
  <2>2. ss = [n \in 1..K |-> Chunk(data, n - 1)]
    BY DEF Chunks
  <2> HIDE DEF K, ss
  <2>3. QED
    BY <1>1, <2>1, <2>2
<1>4. PICK F : Concatenates(F, ss, S)
  BY <1>3, ConcatenationExists
<1>5. /\ F[0] = <<>>
      /\ \A i \in 1..K : F[i] = F[i - 1] \o ss[i]
      /\ FlattenSeq(ss) = F[K]
  BY <1>3, <1>4, FlattenSteps DEF Concatenates
<1> DEFINE N == {n \in Nat : F[n] = SubSeq(data, 1, Until(data, n))}
<1>6. 0 \in N
  <2>1. Until(data, 0) = 0
    BY <1>0 DEF Until
  <2>2. SubSeq(data, 1, 0) = <<>>
    BY SubSeqEmpty
  <2>3. QED
    BY <1>5, <2>1, <2>2
<1>7. ASSUME NEW i \in 1..K, i - 1 \in N PROVE i \in N
  <2> DEFINE m == (i - 1) * ChunkSize
             u == Until(data, i)
  <2>1. i - 1 \in 0..(K - 1) /\ i - 1 + 1 = i /\ i \in Nat
    BY <1>1
  <2>2. /\ m \in 0..Len(data) /\ u \in m..Len(data)
        /\ ss[i] = SubSeq(data, m + 1, u)
    <3>1. /\ (i - 1) * ChunkSize \in 0..Len(data)
          /\ Until(data, i - 1 + 1) \in ((i - 1) * ChunkSize)..Len(data)
          /\ Chunk(data, i - 1) = SubSeq(data, (i - 1) * ChunkSize + 1, Until(data, i - 1 + 1))
      BY <2>1, ChunkType
    <3>2. QED
      BY <1>2, <2>1, <3>1
  <2>3. Until(data, i - 1) = m
    BY <1>0, <2>2 DEF Until
  <2> HIDE DEF m, u
  <2>4. F[i - 1] = SubSeq(data, 1, m)
    BY <1>7, <2>3
  <2>5. SubSeq(data, 1, m) \o SubSeq(data, m + 1, u) = SubSeq(data, 1, u)
    <3>1. 1 \in 1..(Len(data) + 1) /\ m \in (1 - 1)..Len(data)
      BY <1>0, <2>2
    <3>2. QED
      BY <2>2, <3>1, ConcatAdjacentSubSeq
  <2>6. F[i] = SubSeq(data, 1, u)
    BY <1>5, <2>2, <2>4, <2>5
  <2>7. QED
    BY <2>1, <2>6 DEF u
<1> HIDE DEF N
<1>8. 0..K \subseteq N
  BY <1>1, <1>6, <1>7, InductionUpTo
<1>9. F[K] = SubSeq(data, 1, Until(data, K))
  BY <1>1, <1>8 DEF N
<1>10. Until(data, K) = Len(data)
  <2>1. K * ChunkSize \in Nat
    BY <1>0, <1>1, Products
  <2>2. QED
    BY <1>0, <1>1, <2>1 DEF Until
<1>11. QED
  BY <1>5, <1>9, <1>10, SubSeqFull

-----------------------------------------------------------------------------
(* The jobs.  What a step of one job may change, and the invariant.          *)

Reading == Nat \X Seq(Numbers)

Job == [id : 0..MaxSecond, UserID : {r.user : r \in Requests},
        format : {RequestedFormat(r) : r \in Requests},
        filters : {r.filters : r \in Requests},
        status : Statuses, ManifestURL : BOOLEAN, at : Steps,
        data : Seq(Piece) \cup Reading, stored : Nat]

Early == {"start", "fetch", "format"}
Live  == Early \cup {"store", "manifest", "complete"}

\* Data and chunks fit the step.
Fits(at, data, stored) ==
    /\ at = "format" => data \in Reading
    /\ at \in {"store", "manifest", "complete"} => data \in Seq(Piece)
    /\ at \in Early => stored = 0
    /\ stored \in Nat /\ stored <= ChunkCount(data)

JobsTyped ==
    /\ exports \in Seq(Job) /\ Len(exports) <= MaxJobs
    /\ second \in 0..MaxSecond
    /\ \A j \in JobNumbers : Fits(exports[j].at, exports[j].data, exports[j].stored)

IDsTyped ==
    /\ DOMAIN jobsByID \subseteq 0..MaxSecond
    /\ \A id \in DOMAIN jobsByID :
         jobsByID[id] \in JobNumbers /\ exports[jobsByID[id]].id = id
    /\ \A j \in JobNumbers : exports[j].at \in Live => exports[j].id \in DOMAIN jobsByID

FilesOwned ==
    /\ \A id \in DOMAIN manifests : \E j \in JobNumbers : exports[j].id = id
    /\ \A f \in DOMAIN chunkFiles :
         /\ f \in (0..MaxSecond) \X Nat /\ chunkFiles[f] \in Seq(Piece)
         /\ \E j \in JobNumbers : exports[j].id = f[1]

HasChunks(j, n) ==
    \A i \in 0..(n - 1) :
        /\ <<exports[j].id, i>> \in DOMAIN chunkFiles
        /\ chunkFiles[<<exports[j].id, i>>] = Chunk(exports[j].data, i)

HasManifest(j) ==
    /\ exports[j].id \in DOMAIN manifests
    /\ manifests[exports[j].id] = CreateManifest(exports[j].id, exports[j].data)

\* What the storage has of a job whose ID is its own, at each of its steps.
ExportOf(j) ==
    LET job == exports[j] IN
    /\ \A f \in DOMAIN chunkFiles : f[1] = job.id =>
         job.at \notin Early /\ f[2] < ChunkCount(job.data)
    /\ job.at \in Early \cup {"store", "manifest"} => job.id \notin DOMAIN manifests
    /\ job.at \in {"store", "manifest", "complete"} => HasChunks(j, job.stored)
    /\ job.at \in {"manifest", "complete"} => job.stored = ChunkCount(job.data)
    /\ job.at = "complete" => HasManifest(j)
    /\ job.id \in DOMAIN manifests /\ manifests[job.id].Whole =>
         HasManifest(j) /\ HasChunks(j, ChunkCount(job.data))
    /\ job.status = "completed" =>
         /\ job.at = "returned" /\ job.ManifestURL /\ HasManifest(j)
         /\ job.data \in Seq(Piece)
    /\ job.at = "returned" => job.status \in {"completed", "failed"}

ExportInv ==
    /\ JobsTyped /\ IDsTyped /\ FilesOwned
    /\ \A j \in JobNumbers : Unshared(j) => ExportOf(j)

\* Job j goes on at step a; its ID gets status s in the map.
Advances(j, s, a, d, n, u) ==
    /\ exports' \in Seq(Job) /\ Len(exports') = Len(exports)
    /\ \A k \in JobNumbers :
         /\ exports'[k].id = exports[k].id /\ exports'[k].UserID = exports[k].UserID
         /\ k # j => /\ exports'[k].at = exports[k].at
                     /\ exports'[k].data = exports[k].data
                     /\ exports'[k].stored = exports[k].stored
                     /\ exports'[k].ManifestURL = exports[k].ManifestURL
         /\ exports[k].id # exports[j].id => exports'[k].status = exports[k].status
    /\ exports'[j].at = a /\ exports'[j].data = d
    /\ exports'[j].stored = n /\ exports'[j].ManifestURL = u
    /\ Unshared(j) => exports'[j].status = s

\* Only files with this ID are written, and none is removed.
WritesOnly(id) ==
    /\ \A f \in DOMAIN chunkFiles' :
         /\ f \notin DOMAIN chunkFiles => f \in {id} \X Nat
         /\ f[1] # id => chunkFiles'[f] = chunkFiles[f]
         /\ chunkFiles'[f] # chunkFiles[f] => chunkFiles'[f] \in Seq(Piece)
         /\ f \notin DOMAIN chunkFiles => chunkFiles'[f] \in Seq(Piece)
    /\ DOMAIN chunkFiles \subseteq DOMAIN chunkFiles'
    /\ \A m \in DOMAIN manifests' :
         /\ m \notin DOMAIN manifests => m = id
         /\ m # id => manifests'[m] = manifests[m]
    /\ DOMAIN manifests \subseteq DOMAIN manifests'

\* What the other jobs and the files keep when job j makes a step.
StepOf(j) ==
    /\ exports[j].at \in Live
    /\ Len(exports') = Len(exports)
    /\ \A k \in JobNumbers :
         /\ exports'[k].id = exports[k].id /\ exports'[k].UserID = exports[k].UserID
         /\ exports[k].id # exports[j].id =>
              exports'[k].data = exports[k].data /\ exports'[k].status = exports[k].status
    /\ DOMAIN chunkFiles \subseteq DOMAIN chunkFiles'

LEMMA JobTypes ==
    exports \in Seq(Job) => /\ Len(exports) \in Nat
                            /\ \A j \in JobNumbers : exports[j] \in Job
<1> SUFFICES ASSUME exports \in Seq(Job), NEW j \in JobNumbers
             PROVE  Len(exports) \in Nat /\ exports[j] \in Job
  BY LenProperties
<1>1. j \in 1..Len(exports)
  BY DEF JobNumbers
<1>2. QED
  BY <1>1, LenProperties, ElementOfSeq

\* A job with an ID of its own does not see the steps of another one.
LEMMA OthersKeep ==
    ASSUME NEW j \in JobNumbers, NEW s, NEW a, NEW d, NEW n, NEW u,
           Advances(j, s, a, d, n, u), WritesOnly(exports[j].id),
           NEW k \in JobNumbers, k # j, Unshared(k), ExportOf(k)
    PROVE  ExportOf(k)'
<1> DEFINE id == exports[k].id
<1>1. /\ exports'[k].id = id /\ exports'[k].at = exports[k].at
      /\ exports'[k].data = exports[k].data /\ exports'[k].stored = exports[k].stored
      /\ exports'[k].ManifestURL = exports[k].ManifestURL
      /\ exports'[k].status = exports[k].status
      /\ id # exports[j].id
  BY DEF Advances, Unshared
<1>2. /\ \A f : f[1] = id => /\ f \in DOMAIN chunkFiles' <=> f \in DOMAIN chunkFiles
                             /\ f \in DOMAIN chunkFiles => chunkFiles'[f] = chunkFiles[f]
      /\ id \in DOMAIN manifests' <=> id \in DOMAIN manifests
      /\ id \in DOMAIN manifests => manifests'[id] = manifests[id]
  BY <1>1 DEF WritesOnly
<1>3. \A i : <<id, i>>[1] = id
  OBVIOUS
<1>4. ASSUME NEW m, HasChunks(k, m) PROVE HasChunks(k, m)'
  BY <1>1, <1>2, <1>3, <1>4 DEF HasChunks
<1>5. HasManifest(k) => HasManifest(k)'
  BY <1>1, <1>2 DEF HasManifest
<1> HIDE DEF HasChunks, HasManifest
<1>6. QED
  BY <1>1, <1>2, <1>4, <1>5 DEF ExportOf

LEMMA JobStep ==
    ASSUME ExportInv, NEW j \in JobNumbers, exports[j].at \in Live,
           NEW s, NEW a, NEW d, NEW n, NEW u,
           UNCHANGED <<second, jobsByID>>,
           Advances(j, s, a, d, n, u), WritesOnly(exports[j].id), Fits(a, d, n),
           Unshared(j) => ExportOf(j)'
    PROVE  ExportInv' /\ StepOf(j)
<1>1. exports[j] \in Job
  BY JobTypes DEF ExportInv, JobsTyped
<1>2. JobNumbers' = JobNumbers
  BY DEF Advances, JobNumbers
<1>3. \A k \in JobNumbers : exports'[k].id = exports[k].id
  BY DEF Advances
<1>4. \A k \in JobNumbers : Unshared(k)' => Unshared(k)
  BY <1>2, <1>3 DEF Unshared
<1>5. JobsTyped'
  <2>1. \A k \in JobNumbers : Fits(exports'[k].at, exports'[k].data, exports'[k].stored)
    <3> HIDE DEF Fits
    <3>1. QED
      BY DEF Advances, ExportInv, JobsTyped
  <2>2. exports' \in Seq(Job) /\ Len(exports') <= MaxJobs /\ second' \in 0..MaxSecond
    BY DEF Advances, ExportInv, JobsTyped
  <2>3. ASSUME NEW k \in JobNumbers'
        PROVE  Fits(exports'[k].at, exports'[k].data, exports'[k].stored)
    BY <1>2, <2>1
  <2>4. QED
    BY <2>2, <2>3 DEF JobsTyped, Fits, Reading, Numbers, Piece, Early, ChunkCount, SupportedFormats
<1>6. IDsTyped'
  BY <1>2, <1>3 DEF ExportInv, IDsTyped, Advances
<1>7. FilesOwned'
  <2>1. exports[j].id \in 0..MaxSecond
    BY <1>1 DEF Job
  <2>2. ASSUME NEW f \in DOMAIN chunkFiles'
        PROVE  /\ f \in (0..MaxSecond) \X Nat /\ chunkFiles'[f] \in Seq(Piece)
               /\ \E k \in JobNumbers' : exports'[k].id = f[1]
    <3>1. CASE f \in DOMAIN chunkFiles
      BY <1>2, <1>3, <3>1 DEF ExportInv, FilesOwned, WritesOnly
    <3>2. CASE f \notin DOMAIN chunkFiles
      <4>1. f \in {exports[j].id} \X Nat /\ chunkFiles'[f] \in Seq(Piece)
        BY <3>2 DEF WritesOnly
      <4>2. QED
        BY <1>2, <1>3, <2>1, <4>1
    <3>3. QED
      BY <3>1, <3>2
  <2>3. ASSUME NEW m \in DOMAIN manifests'
        PROVE  \E k \in JobNumbers' : exports'[k].id = m
    <3>1. m \in DOMAIN manifests \/ m = exports[j].id
      BY DEF WritesOnly
    <3>2. \E k \in JobNumbers : exports[k].id = m
      BY <3>1 DEF ExportInv, FilesOwned
    <3>3. QED
      BY <1>2, <1>3, <3>2
  <2>4. QED
    BY <2>2, <2>3 DEF FilesOwned, Piece, SupportedFormats
<1>8. ASSUME NEW k \in JobNumbers, Unshared(k)' PROVE ExportOf(k)'
  <2>1. Unshared(k)
    BY <1>4, <1>8
  <2>2. CASE k = j
    BY <2>1, <2>2
  <2>3. CASE k # j
    BY <2>1, <2>3, OthersKeep DEF ExportInv
  <2>4. QED
    BY <2>2, <2>3
<1>9. \A k \in JobNumbers' : Unshared(k)' => ExportOf(k)'
  BY <1>2, <1>8
<1>10. StepOf(j)
  BY DEF StepOf, Advances, WritesOnly
<1>11. QED
  BY <1>5, <1>6, <1>7, <1>9, <1>10 DEF ExportInv

-----------------------------------------------------------------------------
(* The steps of a job. *)

\* What a report of job j makes of the jobs.
Reported(u, j) ==
    /\ u \in Seq(Job) /\ Len(u) = Len(exports)
    /\ \A k \in JobNumbers :
         /\ u[k].id = exports[k].id /\ u[k].UserID = exports[k].UserID
         /\ u[k].at = exports[k].at /\ u[k].data = exports[k].data
         /\ u[k].stored = exports[k].stored
         /\ u[k].ManifestURL = exports[k].ManifestURL
         /\ exports[k].id # exports[j].id => u[k].status = exports[k].status

LEMMA StatusUpdate ==
    ASSUME ExportInv, NEW j \in JobNumbers, exports[j].at \in Live, NEW s \in Statuses
    PROVE  /\ Reported(UpdateJobStatus(exports[j].id, s), j)
           /\ Unshared(j) => UpdateJobStatus(exports[j].id, s)[j].status = s
<1> DEFINE id == exports[j].id
           m == jobsByID[id]
           v == [exports[m] EXCEPT !.status = s]
           u == UpdateJobStatus(id, s)
<1>1. id \in DOMAIN jobsByID /\ m \in JobNumbers /\ exports[m].id = id
  BY DEF ExportInv, IDsTyped
<1>2. exports \in Seq(Job) /\ m \in 1..Len(exports) /\ exports[m] \in Job
  BY <1>1, JobTypes DEF ExportInv, JobsTyped, JobNumbers
<1>3. /\ v \in Job /\ v.id = exports[m].id /\ v.UserID = exports[m].UserID
      /\ v.at = exports[m].at /\ v.data = exports[m].data
      /\ v.stored = exports[m].stored /\ v.ManifestURL = exports[m].ManifestURL
      /\ v.status = s
  BY <1>2 DEF Job
<1>4. u = [exports EXCEPT ![m] = v]
  BY <1>1 DEF UpdateJobStatus
<1> HIDE DEF v, u, m
<1>5. /\ u \in Seq(Job) /\ Len(u) = Len(exports)
      /\ \A k \in 1..Len(exports) : u[k] = IF k = m THEN v ELSE exports[k]
  BY <1>2, <1>3, <1>4, ExceptSeq
<1>6. Reported(u, j)
  BY <1>1, <1>3, <1>5 DEF Reported, JobNumbers
<1>7. Unshared(j) => m = j
  BY <1>1 DEF Unshared
<1>8. Unshared(j) => u[j].status = s
  BY <1>3, <1>5, <1>7 DEF JobNumbers
<1>9. QED
  BY <1>6, <1>8 DEF u

LEMMA AdvancesBy ==
    ASSUME NEW j \in JobNumbers, NEW u, Reported(u, j), NEW s, NEW v \in Job,
           exports' = [u EXCEPT ![j] = v],
           v.id = exports[j].id, v.UserID = exports[j].UserID,
           Unshared(j) => v.status = s
    PROVE  Advances(j, s, v.at, v.data, v.stored, v.ManifestURL)
<1>1. u \in Seq(Job) /\ Len(u) = Len(exports) /\ j \in 1..Len(u)
  BY DEF Reported, JobNumbers
<1>2. /\ exports' \in Seq(Job) /\ Len(exports') = Len(u)
      /\ \A k \in 1..Len(u) : exports'[k] = IF k = j THEN v ELSE u[k]
  BY <1>1, ExceptSeq
<1>3. \A k \in JobNumbers : exports'[k] = IF k = j THEN v ELSE u[k]
  BY <1>1, <1>2 DEF JobNumbers
<1>4. QED
  BY <1>1, <1>2, <1>3 DEF Advances, Reported

LEMMA ReportsNothing ==
    ASSUME ExportInv, NEW j \in JobNumbers
    PROVE  Reported(exports, j)
BY DEF Reported, ExportInv, JobsTyped

LEMMA ProceedAdvances ==
    ASSUME ExportInv, NEW j \in JobNumbers, exports[j].at \in Live,
           NEW s \in Statuses, NEW a \in Steps, Proceed(j, s, a)
    PROVE  Advances(j, s, a, exports[j].data, exports[j].stored, exports[j].ManifestURL)
<1> DEFINE u == UpdateJobStatus(exports[j].id, s)
           v == [u[j] EXCEPT !.at = a]
<1>1. exports' = [u EXCEPT ![j] = v]
  BY DEF Proceed
<1>2. Reported(u, j) /\ (Unshared(j) => u[j].status = s)
  BY StatusUpdate
<1> HIDE DEF u
<1>3. u[j] \in Job
  BY <1>2, LenProperties, ElementOfSeq DEF Reported, JobNumbers
<1>4. /\ v \in Job /\ v.id = u[j].id /\ v.UserID = u[j].UserID
      /\ v.at = a /\ v.data = u[j].data /\ v.stored = u[j].stored
      /\ v.ManifestURL = u[j].ManifestURL /\ v.status = u[j].status
  BY <1>3 DEF Job
<1> HIDE DEF v
<1>5. /\ u[j].id = exports[j].id /\ u[j].UserID = exports[j].UserID
      /\ u[j].data = exports[j].data /\ u[j].stored = exports[j].stored
      /\ u[j].ManifestURL = exports[j].ManifestURL
  BY <1>2 DEF Reported
<1>6. Advances(j, s, v.at, v.data, v.stored, v.ManifestURL)
  BY <1>1, <1>2, <1>4, <1>5, AdvancesBy
<1>7. QED
  BY <1>4, <1>5, <1>6

LEMMA DataAdvances ==
    ASSUME ExportInv, NEW j \in JobNumbers, exports[j].at \in Live,
           NEW s \in Statuses, NEW a \in Steps, NEW d \in Seq(Piece) \cup Reading,
           exports' = [UpdateJobStatus(exports[j].id, s) EXCEPT
                         ![j].at = a, ![j].data = d]
    PROVE  Advances(j, s, a, d, exports[j].stored, exports[j].ManifestURL)
<1> DEFINE u == UpdateJobStatus(exports[j].id, s)
           w == [u[j] EXCEPT !.at = a]
           v == [w EXCEPT !.data = d]
<1>2. Reported(u, j) /\ (Unshared(j) => u[j].status = s)
  BY StatusUpdate
<1>3. u[j] \in Job
  BY <1>2, LenProperties, ElementOfSeq DEF Reported, JobNumbers
<1>1. exports' = [u EXCEPT ![j] = v]
  <2>1. u \in Seq(Job) /\ j \in 1..Len(u)
    BY <1>2 DEF Reported, JobNumbers
  <2> HIDE DEF u
  <2>2. exports' = [u EXCEPT ![j].at = a, ![j].data = d]
    BY DEF u
  <2>3. QED
    BY <2>1, <2>2
<1> HIDE DEF u
<1>4. /\ w \in Job /\ w.id = u[j].id /\ w.UserID = u[j].UserID
      /\ w.at = a /\ w.stored = u[j].stored
      /\ w.ManifestURL = u[j].ManifestURL /\ w.status = u[j].status
  BY <1>3 DEF Job
<1> HIDE DEF w
<1>5. /\ v \in Job /\ v.id = u[j].id /\ v.UserID = u[j].UserID
      /\ v.at = a /\ v.data = d /\ v.stored = u[j].stored
      /\ v.ManifestURL = u[j].ManifestURL /\ v.status = u[j].status
  BY <1>4 DEF Job
<1> HIDE DEF v
<1>6. /\ u[j].id = exports[j].id /\ u[j].UserID = exports[j].UserID
      /\ u[j].stored = exports[j].stored
      /\ u[j].ManifestURL = exports[j].ManifestURL
  BY <1>2 DEF Reported
<1>7. Advances(j, s, v.at, v.data, v.stored, v.ManifestURL)
  BY <1>1, <1>2, <1>5, <1>6, AdvancesBy
<1>8. QED
  BY <1>5, <1>6, <1>7

LEMMA Names ==
    /\ {"processing", "failed", "completed"} \subseteq Statuses
    /\ {"returned", "fetch", "format", "store", "manifest", "complete"} \subseteq Steps
BY DEF Statuses, Steps

LEMMA WritesNothing ==
    ASSUME UNCHANGED <<chunkFiles, manifests>>, NEW id
    PROVE  WritesOnly(id)
BY DEF WritesOnly

LEMMA WritesChunk ==
    ASSUME NEW id, NEW i \in Nat, NEW c \in Seq(Piece),
           chunkFiles' = Written(chunkFiles, {<<id, i>>}, c), manifests' = manifests
    PROVE  /\ WritesOnly(id)
           /\ DOMAIN chunkFiles' = DOMAIN chunkFiles \cup {<<id, i>>}
           /\ chunkFiles'[<<id, i>>] = c
           /\ \A f \in DOMAIN chunkFiles : f # <<id, i>> => chunkFiles'[f] = chunkFiles[f]
<1>1. /\ DOMAIN chunkFiles' = DOMAIN chunkFiles \cup {<<id, i>>}
      /\ chunkFiles'[<<id, i>>] = c
      /\ \A f \in DOMAIN chunkFiles : f # <<id, i>> => chunkFiles'[f] = chunkFiles[f]
  BY DEF Written
<1>2. <<id, i>>[1] = id /\ <<id, i>> \in {id} \X Nat
  OBVIOUS
<1>3. QED
  BY <1>1, <1>2 DEF WritesOnly

LEMMA WritesManifest ==
    ASSUME NEW id, NEW m, manifests' = Written(manifests, {id}, m), chunkFiles' = chunkFiles
    PROVE  /\ WritesOnly(id)
           /\ DOMAIN manifests' = DOMAIN manifests \cup {id}
           /\ manifests'[id] = m
<1>1. /\ DOMAIN manifests' = DOMAIN manifests \cup {id}
      /\ manifests'[id] = m
      /\ \A k \in DOMAIN manifests : k # id => manifests'[k] = manifests[k]
  BY DEF Written
<1>2. QED
  BY <1>1 DEF WritesOnly

LEMMA WholeOrTorn ==
    /\ ~TornManifest.Whole
    /\ \A id, data : CreateManifest(id, data).Whole
BY DEF TornManifest, CreateManifest

LEMMA ChunksKept ==
    ASSUME NEW j, exports'[j].id = exports[j].id, exports'[j].data = exports[j].data,
           chunkFiles' = chunkFiles, NEW n, HasChunks(j, n)
    PROVE  HasChunks(j, n)'
BY DEF HasChunks

LEMMA ManifestKept ==
    ASSUME NEW j, exports'[j].id = exports[j].id, exports'[j].data = exports[j].data,
           manifests' = manifests, HasManifest(j)
    PROVE  HasManifest(j)'
BY DEF HasManifest

\* What is known of job j when it makes a step.
LEMMA JobFacts ==
    ASSUME ExportInv, NEW j \in JobNumbers
    PROVE  /\ exports[j] \in Job /\ Fits(exports[j].at, exports[j].data, exports[j].stored)
           /\ Unshared(j) => ExportOf(j)
BY JobTypes DEF ExportInv, JobsTyped

LEMMA BeginKeeps ==
    ASSUME ExportInv, NEW j \in JobNumbers, Begin(j)
    PROVE  ExportInv' /\ StepOf(j)
<1>1. exports[j].at = "start" /\ exports[j].at \in Live /\ UNCHANGED <<second, jobsByID, chunkFiles, manifests>>
  BY DEF Begin, Live, Early
<1>2. Advances(j, "processing", "fetch", exports[j].data, exports[j].stored, exports[j].ManifestURL)
  BY <1>1, Names, ProceedAdvances DEF Begin
<1>3. Fits("fetch", exports[j].data, exports[j].stored)
  BY <1>1, JobFacts DEF Fits, Early
<1>4. ASSUME Unshared(j) PROVE ExportOf(j)'
  <2>1. ExportOf(j) /\ exports'[j].id = exports[j].id /\ exports'[j].at = "fetch"
        /\ exports'[j].status = "processing" /\ exports'[j].data = exports[j].data
    BY <1>2, <1>4, JobFacts DEF Advances
  <2>2. QED
    BY <1>1, <2>1, WholeOrTorn DEF ExportOf, Early
<1>5. QED
  BY <1>1, <1>2, <1>3, <1>4, WritesNothing, JobStep

LEMMA FetchKeeps ==
    ASSUME ExportInv, NEW j \in JobNumbers, Fetch(j)
    PROVE  ExportInv' /\ StepOf(j)
<1> DEFINE d == <<second, FetchFilteredData(exports[j].filters)>>
<1>1. exports[j].at = "fetch" /\ exports[j].at \in Live /\ UNCHANGED <<second, jobsByID, chunkFiles, manifests>>
  BY DEF Fetch, Live, Early
<1>2. d \in Reading
  <2>1. second \in Nat
    BY ExportsAssumption DEF ExportInv, JobsTyped
  <2>2. FetchFilteredData(exports[j].filters) \in Seq(Numbers)
    BY FetchType
  <2>3. QED
    BY <2>1, <2>2 DEF Reading
<1>3. exports' = [UpdateJobStatus(exports[j].id, "processing") EXCEPT
                    ![j].at = "format", ![j].data = d]
  BY DEF Fetch
<1> HIDE DEF d
<1>4. Advances(j, "processing", "format", d, exports[j].stored, exports[j].ManifestURL)
  BY <1>1, <1>2, <1>3, Names, DataAdvances
<1>5. Fits("format", d, exports[j].stored)
  <2>1. exports[j].stored = 0
    BY <1>1, JobFacts DEF Fits, Early
  <2>2. Len(d) \in Nat
    BY <1>2 DEF Reading
  <2>3. ChunkCount(d) \in Nat
    BY <2>2, ChunkBounds
  <2>4. QED
    BY <1>2, <2>1, <2>3 DEF Fits, Early
<1>6. ASSUME Unshared(j) PROVE ExportOf(j)'
  <2>1. ExportOf(j) /\ exports'[j].id = exports[j].id /\ exports'[j].at = "format"
        /\ exports'[j].status = "processing"
    BY <1>4, <1>6, JobFacts DEF Advances
  <2>2. QED
    BY <1>1, <2>1 DEF ExportOf, Early
<1>7. QED
  BY <1>1, <1>4, <1>5, <1>6, WritesNothing, JobStep

LEMMA FormatKeeps ==
    ASSUME ExportInv, NEW j \in JobNumbers, Format(j)
    PROVE  ExportInv' /\ StepOf(j)
<1>1. exports[j].at = "format" /\ exports[j].at \in Live /\ UNCHANGED <<second, jobsByID, chunkFiles, manifests>>
  BY DEF Format, Live, Early
<1>2. exports[j].data \in Reading /\ exports[j].stored = 0
  BY <1>1, JobFacts DEF Fits, Early
<1>3. ASSUME Unshared(j)
      PROVE  /\ \A f \in DOMAIN chunkFiles : f[1] # exports[j].id
             /\ exports[j].id \notin DOMAIN manifests
  BY <1>1, <1>3, JobFacts DEF ExportOf, Early
<1>4. CASE exports[j].format \in SupportedFormats
  <2> DEFINE e == exports[j].data
             d == FormatData(exports[j].format, e[1], e[2])
  <2>1. exports' = [UpdateJobStatus(exports[j].id, "processing") EXCEPT
                      ![j].at = "store", ![j].data = d]
    <3>1. exports' = [UpdateJobStatus(exports[j].id, "processing") EXCEPT
                        ![j].at = "store", ![j].data = FormatData(exports[j].format, @[1], @[2])]
      BY <1>4 DEF Format
    <3>2. UpdateJobStatus(exports[j].id, "processing")[j].data = e
      BY <1>1, StatusUpdate DEF Reported, Statuses
    <3>3. UpdateJobStatus(exports[j].id, "processing") \in Seq(Job)
      BY <1>1, StatusUpdate DEF Reported, Statuses
    <3> DEFINE u == UpdateJobStatus(exports[j].id, "processing")
    <3>4. j \in 1..Len(u) /\ u[j] \in Job
      BY <1>1, <3>3, StatusUpdate, LenProperties, ElementOfSeq DEF Reported, Statuses, JobNumbers
    <3> HIDE DEF u, e
    <3>5. QED
      BY <3>1, <3>2, <3>3, <3>4 DEF u, Job
  <2>2. e[1] \in Nat /\ e[2] \in Seq(Numbers)
    BY <1>2 DEF Reading
  <2>3. d \in Seq(Piece)
    BY <1>4, <2>2, FormatType
  <2> HIDE DEF d
  <2>4. Advances(j, "processing", "store", d, exports[j].stored, exports[j].ManifestURL)
    BY <1>1, <2>1, <2>3, Names, DataAdvances
  <2>5. Fits("store", d, exports[j].stored)
    <3>1. ChunkCount(d) \in Nat
      BY <2>3, LenProperties, ChunkBounds
    <3>2. QED
      BY <1>2, <2>3, <3>1 DEF Fits, Early
  <2>6. ASSUME Unshared(j) PROVE ExportOf(j)'
    <3>1. /\ exports'[j].id = exports[j].id /\ exports'[j].at = "store"
          /\ exports'[j].status = "processing" /\ exports'[j].stored = 0
      BY <1>2, <2>4, <2>6 DEF Advances
    <3>2. HasChunks(j, 0)'
      BY DEF HasChunks
    <3>3. QED
      BY <1>1, <1>3, <2>6, <3>1, <3>2 DEF ExportOf, Early
  <2>7. QED
    BY <1>1, <2>4, <2>5, <2>6, WritesNothing, JobStep
<1>5. CASE exports[j].format \notin SupportedFormats
  <2>1. exports' = [UpdateJobStatus(exports[j].id, "failed") EXCEPT
                      ![j].at = "returned", ![j].data = <<>>]
    BY <1>5 DEF Format
  <2>2. <<>> \in Seq(Piece) /\ Len(<<>>) \in Nat
    OBVIOUS
  <2>3. Advances(j, "failed", "returned", <<>>, exports[j].stored, exports[j].ManifestURL)
    BY <1>1, <2>1, <2>2, Names, DataAdvances
  <2>4. Fits("returned", <<>>, exports[j].stored)
    <3>1. ChunkCount(<<>>) \in Nat
      BY <2>2, ChunkBounds
    <3>2. QED
      BY <1>2, <3>1 DEF Fits, Early
  <2>5. ASSUME Unshared(j) PROVE ExportOf(j)'
    <3>1. /\ exports'[j].id = exports[j].id /\ exports'[j].at = "returned"
          /\ exports'[j].status = "failed"
      BY <2>3, <2>5 DEF Advances
    <3>2. QED
      BY <1>1, <1>3, <2>5, <3>1 DEF ExportOf, Early
  <2>6. QED
    BY <1>1, <2>3, <2>4, <2>5, WritesNothing, JobStep
<1>6. QED
  BY <1>4, <1>5

LEMMA ManifestMade ==
    ASSUME NEW j, NEW id, NEW d, exports'[j].id = id, exports'[j].data = d,
           id \in DOMAIN manifests', manifests'[id] = CreateManifest(id, d)
    PROVE  HasManifest(j)'
BY DEF HasManifest

LEMMA StoreChunkKeeps ==
    ASSUME ExportInv, NEW j \in JobNumbers, StoreChunk(j)
    PROVE  ExportInv' /\ StepOf(j)
<1> DEFINE data == exports[j].data
           i == exports[j].stored
           id == exports[j].id
<1>1. exports[j].at = "store" /\ exports[j].at \in Live /\ UNCHANGED <<second, jobsByID, manifests>>
  BY DEF StoreChunk, Live, Early
<1>2. /\ data \in Seq(Piece) /\ i \in Nat /\ ChunkCount(data) \in Nat
      /\ i + 1 \in Nat /\ i + 1 <= ChunkCount(data)
      /\ i \in 0..(ChunkCount(data) - 1)
  <2>1. data \in Seq(Piece) /\ i \in Nat
    BY <1>1, JobFacts DEF Fits
  <2>2. ChunkCount(data) \in Nat
    BY <2>1, LenProperties, ChunkBounds
  <2>3. i < ChunkCount(data)
    BY DEF StoreChunk
  <2>4. QED
    BY <2>1, <2>2, <2>3
<1>3. Chunk(data, i) \in Seq(Piece)
  BY <1>2, ChunkType
<1>4. ASSUME Unshared(j)
      PROVE  /\ \A f \in DOMAIN chunkFiles : f[1] = id => f[2] < ChunkCount(data)
             /\ id \notin DOMAIN manifests /\ HasChunks(j, i)
             /\ exports[j].status # "completed"
  BY <1>1, <1>4, JobFacts DEF ExportOf, Early
<1>5. <<id, i>>[1] = id /\ <<id, i>>[2] = i
  OBVIOUS
<1>6. CASE /\ chunkFiles' = Written(chunkFiles, {<<id, i>>}, Chunk(data, i))
           /\ exports' = [exports EXCEPT ![j].stored = @ + 1]
  <2> DEFINE v == [exports[j] EXCEPT !.stored = i + 1]
  <2>1. exports[j] \in Job
    BY JobFacts
  <2>2. /\ v \in Job /\ v.id = id /\ v.UserID = exports[j].UserID
        /\ v.at = exports[j].at /\ v.data = data /\ v.stored = i + 1
        /\ v.ManifestURL = exports[j].ManifestURL /\ v.status = exports[j].status
    BY <1>2, <2>1 DEF Job
  <2>3. exports' = [exports EXCEPT ![j] = v]
    BY <1>6
  <2> HIDE DEF v
  <2>4. Advances(j, exports[j].status, v.at, v.data, v.stored, v.ManifestURL)
    BY <2>2, <2>3, ReportsNothing, AdvancesBy
  <2>5. Advances(j, exports[j].status, "store", data, i + 1, exports[j].ManifestURL)
    BY <1>1, <2>2, <2>4
  <2>6. Fits("store", data, i + 1)
    BY <1>2 DEF Fits, Early
  <2>7. /\ WritesOnly(id)
        /\ DOMAIN chunkFiles' = DOMAIN chunkFiles \cup {<<id, i>>}
        /\ chunkFiles'[<<id, i>>] = Chunk(data, i)
        /\ \A f \in DOMAIN chunkFiles : f # <<id, i>> => chunkFiles'[f] = chunkFiles[f]
    <3> HIDE DEF data, i, id
    <3>1. QED
      BY <1>1, <1>2, <1>3, <1>6, WritesChunk
  <2>8. ASSUME Unshared(j) PROVE ExportOf(j)'
    <3>1. /\ exports'[j].id = id /\ exports'[j].at = "store" /\ exports'[j].data = data
          /\ exports'[j].stored = i + 1 /\ exports'[j].status = exports[j].status
      BY <2>5, <2>8 DEF Advances
    <3>2. \A k \in 0..(i + 1 - 1) : /\ <<id, k>> \in DOMAIN chunkFiles'
                                   /\ chunkFiles'[<<id, k>>] = Chunk(data, k)
      <4>1. TAKE k \in 0..(i + 1 - 1)
      <4>2. CASE k = i
        BY <2>7, <4>2
      <4>3. CASE k # i
        <5>1. k \in 0..(i - 1) /\ <<id, k>> # <<id, i>>
          BY <1>2, <4>3
        <5>2. <<id, k>> \in DOMAIN chunkFiles /\ chunkFiles[<<id, k>>] = Chunk(data, k)
          BY <1>4, <2>8, <5>1 DEF HasChunks
        <5>3. QED
          BY <2>7, <5>1, <5>2
      <4>4. QED
        BY <4>2, <4>3
    <3>3. HasChunks(j, exports[j].stored)'
      <4> HIDE DEF data, i, id
      <4>1. QED
        BY <1>2, <3>1, <3>2 DEF HasChunks
    <3>4. \A f \in DOMAIN chunkFiles' : f[1] = id => f[2] < ChunkCount(data)
      BY <1>2, <1>4, <1>5, <2>7, <2>8
    <3>5. id \notin DOMAIN manifests' /\ exports[j].status # "completed"
      BY <1>1, <1>4, <2>8
    <3> HIDE DEF data, i, id
    <3>6. QED
      BY <3>1, <3>3, <3>4, <3>5 DEF ExportOf, Early, ChunkCount
  <2> HIDE DEF data, i, id
  <2>9. QED
    BY <1>1, <2>5, <2>6, <2>7, <2>8, JobStep DEF id
<1>7. CASE /\ chunkFiles' \in {chunkFiles, Written(chunkFiles, {<<id, i>>}, <<>>)}
           /\ Proceed(j, "failed", "returned")
  <2>1. Advances(j, "failed", "returned", data, i, exports[j].ManifestURL)
    BY <1>1, <1>7, Names, ProceedAdvances
  <2>2. Fits("returned", data, i)
    BY <1>2 DEF Fits, Early
  <2>3. /\ WritesOnly(id)
        /\ \A f \in DOMAIN chunkFiles' : f \in DOMAIN chunkFiles \/ f = <<id, i>>
    <3>1. CASE chunkFiles' = chunkFiles
      BY <1>1, <3>1, WritesNothing
    <3>2. CASE chunkFiles' = Written(chunkFiles, {<<id, i>>}, <<>>)
      <4>1. <<>> \in Seq(Piece)
        OBVIOUS
      <4> HIDE DEF data, i, id
      <4>2. WritesOnly(id) /\ DOMAIN chunkFiles' = DOMAIN chunkFiles \cup {<<id, i>>}
        BY <1>1, <1>2, <3>2, <4>1, WritesChunk
      <4>3. QED
        BY <4>2
    <3>3. QED
      BY <1>7, <3>1, <3>2
  <2>4. ASSUME Unshared(j) PROVE ExportOf(j)'
    <3>1. /\ exports'[j].id = id /\ exports'[j].at = "returned" /\ exports'[j].data = data
          /\ exports'[j].status = "failed"
      BY <2>1, <2>4 DEF Advances
    <3>2. \A f \in DOMAIN chunkFiles' : f[1] = id => f[2] < ChunkCount(data)
      BY <1>2, <1>4, <1>5, <2>3, <2>4
    <3> HIDE DEF data, i, id
    <3>3. QED
      BY <1>1, <1>4, <2>4, <3>1, <3>2 DEF ExportOf, Early, ChunkCount
  <2> HIDE DEF data, i, id
  <2>5. QED
    BY <1>1, <2>1, <2>2, <2>3, <2>4, JobStep DEF id
<1>8. QED
  BY <1>6, <1>7 DEF StoreChunk

LEMMA ChunksStoredKeeps ==
    ASSUME ExportInv, NEW j \in JobNumbers, ChunksStored(j)
    PROVE  ExportInv' /\ StepOf(j)
<1>1. /\ exports[j].at = "store" /\ exports[j].at \in Live
      /\ exports[j].stored = ChunkCount(exports[j].data)
      /\ UNCHANGED <<second, jobsByID, chunkFiles, manifests>>
  BY DEF ChunksStored, Live, Early
<1>2. Advances(j, "processing", "manifest", exports[j].data, exports[j].stored, exports[j].ManifestURL)
  BY <1>1, Names, ProceedAdvances DEF ChunksStored
<1>3. Fits("manifest", exports[j].data, exports[j].stored)
  BY <1>1, JobFacts DEF Fits, Early
<1>4. ASSUME Unshared(j) PROVE ExportOf(j)'
  <2>1. /\ exports'[j].id = exports[j].id /\ exports'[j].at = "manifest"
        /\ exports'[j].status = "processing" /\ exports'[j].data = exports[j].data
        /\ exports'[j].stored = exports[j].stored
    BY <1>2, <1>4 DEF Advances
  <2>2. /\ \A f \in DOMAIN chunkFiles : f[1] = exports[j].id => f[2] < ChunkCount(exports[j].data)
        /\ exports[j].id \notin DOMAIN manifests /\ HasChunks(j, exports[j].stored)
    BY <1>1, <1>4, JobFacts DEF ExportOf, Early
  <2>3. HasChunks(j, exports[j].stored)'
    BY <1>1, <2>1, <2>2 DEF HasChunks, Chunk
  <2>4. QED
    BY <1>1, <2>1, <2>2, <2>3 DEF ExportOf, Early, ChunkCount
<1>5. QED
  BY <1>1, <1>2, <1>3, <1>4, WritesNothing, JobStep

LEMMA StoreManifestKeeps ==
    ASSUME ExportInv, NEW j \in JobNumbers, StoreManifest(j)
    PROVE  ExportInv' /\ StepOf(j)
<1> DEFINE data == exports[j].data
           id == exports[j].id
<1>1. exports[j].at = "manifest" /\ exports[j].at \in Live /\ UNCHANGED <<second, jobsByID, chunkFiles>>
  BY DEF StoreManifest, Live, Early
<1>2. /\ data \in Seq(Piece) /\ exports[j] \in Job
      /\ Fits("complete", data, exports[j].stored) /\ Fits("returned", data, exports[j].stored)
  BY <1>1, JobFacts DEF Fits, Early
<1>4. ASSUME Unshared(j)
      PROVE  /\ \A f \in DOMAIN chunkFiles : f[1] = id => f[2] < ChunkCount(data)
             /\ HasChunks(j, exports[j].stored) /\ exports[j].stored = ChunkCount(data)
             /\ exports[j].status # "completed"
             /\ id \notin DOMAIN manifests
  BY <1>1, <1>4, JobFacts DEF ExportOf, Early
<1>6. CASE /\ manifests' = Written(manifests, {id}, CreateManifest(id, data))
           /\ exports' = [exports EXCEPT ![j].at = "complete"]
  <2> DEFINE v == [exports[j] EXCEPT !.at = "complete"]
  <2>1. "complete" \in Steps
    BY DEF Steps
  <2>2. /\ v \in Job /\ v.id = id /\ v.UserID = exports[j].UserID
        /\ v.at = "complete" /\ v.data = data /\ v.stored = exports[j].stored
        /\ v.ManifestURL = exports[j].ManifestURL /\ v.status = exports[j].status
    BY <1>2, <2>1 DEF Job
  <2>3. exports' = [exports EXCEPT ![j] = v]
    BY <1>6
  <2> HIDE DEF v
  <2>4. Advances(j, exports[j].status, v.at, v.data, v.stored, v.ManifestURL)
    BY <2>2, <2>3, ReportsNothing, AdvancesBy
  <2>5. Advances(j, exports[j].status, "complete", data, exports[j].stored, exports[j].ManifestURL)
    BY <2>2, <2>4
  <2>6. WritesOnly(id) /\ id \in DOMAIN manifests' /\ manifests'[id] = CreateManifest(id, data)
    <3> HIDE DEF data, id
    <3>1. QED
      BY <1>1, <1>6, WritesManifest
  <2>7. ASSUME Unshared(j) PROVE ExportOf(j)'
    <3>1. /\ exports'[j].id = id /\ exports'[j].at = "complete" /\ exports'[j].data = data
          /\ exports'[j].stored = exports[j].stored /\ exports'[j].status = exports[j].status
      BY <2>5, <2>7 DEF Advances
    <3>2. HasChunks(j, exports[j].stored)' /\ HasChunks(j, ChunkCount(exports[j].data))'
      <4>1. HasChunks(j, ChunkCount(data))
        BY <1>4, <2>7
      <4>2. HasChunks(j, exports[j].stored)'
        BY <1>1, <1>4, <2>7, <3>1 DEF HasChunks
      <4>3. HasChunks(j, ChunkCount(exports[j].data))'
        BY <1>1, <3>1, <4>1 DEF HasChunks, ChunkCount, Chunk
      <4>4. QED
        BY <4>2, <4>3
    <3>3. HasManifest(j)'
      BY <2>6, <3>1, ManifestMade
    <3> HIDE DEF data, id
    <3>4. QED
      BY <1>1, <1>4, <2>7, <3>1, <3>2, <3>3 DEF ExportOf, Early, ChunkCount
  <2> HIDE DEF data, id
  <2>8. QED
    BY <1>1, <1>2, <2>5, <2>6, <2>7, JobStep DEF id
<1>7. CASE /\ manifests' \in {manifests, Written(manifests, {id}, TornManifest)}
           /\ Proceed(j, "failed", "returned")
  <2>1. Advances(j, "failed", "returned", data, exports[j].stored, exports[j].ManifestURL)
    BY <1>1, <1>7, Names, ProceedAdvances
  <2>2. WritesOnly(id) /\ (manifests' = manifests \/ manifests'[id] = TornManifest)
    <3>1. CASE manifests' = manifests
      BY <1>1, <3>1, WritesNothing
    <3>2. CASE manifests' = Written(manifests, {id}, TornManifest)
      <4> HIDE DEF data, id
      <4>1. QED
        BY <1>1, <3>2, WritesManifest
    <3>3. QED
      BY <1>7, <3>1, <3>2
  <2>3. ASSUME Unshared(j) PROVE ExportOf(j)'
    <3>1. /\ exports'[j].id = id /\ exports'[j].at = "returned" /\ exports'[j].data = data
          /\ exports'[j].status = "failed"
      BY <2>1, <2>3 DEF Advances
    <3>2. id \notin DOMAIN manifests' \/ ~manifests'[id].Whole
      BY <1>4, <2>2, <2>3, WholeOrTorn
    <3> HIDE DEF data, id
    <3>3. QED
      BY <1>1, <1>4, <2>3, <3>1, <3>2 DEF ExportOf, Early, ChunkCount
  <2> HIDE DEF data, id
  <2>4. QED
    BY <1>1, <1>2, <2>1, <2>2, <2>3, JobStep DEF id
<1>8. QED
  BY <1>6, <1>7 DEF StoreManifest

LEMMA CompleteKeeps ==
    ASSUME ExportInv, NEW j \in JobNumbers, Complete(j)
    PROVE  ExportInv' /\ StepOf(j)
<1> DEFINE data == exports[j].data
           id == exports[j].id
           u == [exports[j] EXCEPT !.at = "returned"]
           w == [u EXCEPT !.status = "completed"]
           v == [w EXCEPT !.ManifestURL = TRUE]
<1>1. /\ exports[j].at = "complete" /\ exports[j].at \in Live
      /\ UNCHANGED <<second, jobsByID, chunkFiles, manifests>>
  BY DEF Complete, Live, Early
<1>2. /\ data \in Seq(Piece) /\ exports[j] \in Job
      /\ Fits("returned", data, exports[j].stored)
  BY <1>1, JobFacts DEF Fits, Early
<1>3. exports \in Seq(Job) /\ j \in DOMAIN exports
  BY LenProperties DEF ExportInv, JobsTyped, JobNumbers
<1>4. exports' = [exports EXCEPT ![j] = v]
  BY <1>2, <1>3 DEF Complete, Job
<1>5. /\ u \in Job /\ u.id = id /\ u.UserID = exports[j].UserID
      /\ u.at = "returned" /\ u.data = data /\ u.stored = exports[j].stored
  BY <1>2 DEF Job, Steps
<1> HIDE DEF u
<1>6. /\ w \in Job /\ w.id = id /\ w.UserID = exports[j].UserID /\ w.status = "completed"
      /\ w.at = "returned" /\ w.data = data /\ w.stored = exports[j].stored
  BY <1>5 DEF Job, Statuses
<1> HIDE DEF w
<1>7. /\ v \in Job /\ v.id = id /\ v.UserID = exports[j].UserID /\ v.status = "completed"
      /\ v.at = "returned" /\ v.data = data /\ v.stored = exports[j].stored
      /\ v.ManifestURL = TRUE
  BY <1>6 DEF Job
<1> HIDE DEF v
<1>8. Advances(j, "completed", v.at, v.data, v.stored, v.ManifestURL)
  BY <1>4, <1>7, ReportsNothing, AdvancesBy
<1>9. Advances(j, "completed", "returned", data, exports[j].stored, TRUE)
  BY <1>7, <1>8
<1>10. ASSUME Unshared(j) PROVE ExportOf(j)'
  <2>1. /\ exports'[j].id = id /\ exports'[j].at = "returned" /\ exports'[j].data = data
        /\ exports'[j].ManifestURL = TRUE /\ exports'[j].status = "completed"
    BY <1>9, <1>10 DEF Advances
  <2>2. /\ \A f \in DOMAIN chunkFiles : f[1] = id => f[2] < ChunkCount(data)
        /\ HasChunks(j, ChunkCount(data)) /\ HasManifest(j)
    BY <1>1, <1>10, JobFacts DEF ExportOf, Early
  <2>3. HasChunks(j, ChunkCount(exports[j].data))'
    BY <1>1, <2>1, <2>2 DEF HasChunks, Chunk, ChunkCount
  <2>4. HasManifest(j)'
    BY <1>1, <2>1, <2>2, ManifestKept
  <2>5. data \in Seq(Piece)
    BY <1>2
  <2>6. (exports[j].data \in Seq(Piece))'
    BY <2>1, <2>5 DEF Piece, SupportedFormats
  <2> HIDE DEF data, id
  <2>7. QED
    BY <1>1, <2>1, <2>2, <2>3, <2>4, <2>6
    DEF ExportOf, Early, ChunkCount, Piece, SupportedFormats
<1> HIDE DEF data, id
<1>11. QED
  BY <1>1, <1>2, <1>9, <1>10, WritesNothing, JobStep DEF id

-----------------------------------------------------------------------------
(* The steps of the service and of its clients. *)

LEMMA InitExport == ExportsInit => ExportInv
<1> SUFFICES ASSUME ExportsInit PROVE ExportInv
  OBVIOUS
<1>1. exports = <<>> /\ second = 0 /\ jobsByID = <<>> /\ chunkFiles = <<>> /\ manifests = <<>>
  BY DEF ExportsInit
<1>2. Len(exports) = 0 /\ JobNumbers = {} /\ exports \in Seq(Job)
  BY <1>1 DEF JobNumbers
<1>3. DOMAIN jobsByID = {} /\ DOMAIN chunkFiles = {} /\ DOMAIN manifests = {}
  BY <1>1
<1>4. JobsTyped
  BY <1>1, <1>2, ExportsAssumption DEF JobsTyped
<1>5. IDsTyped /\ FilesOwned
  BY <1>2, <1>3 DEF IDsTyped, FilesOwned
<1>6. QED
  BY <1>2, <1>4, <1>5 DEF ExportInv

\* Nothing that is known of a job changes for a job that does not.
LEMMA ExportKept ==
    ASSUME NEW j, exports'[j] = exports[j], UNCHANGED <<chunkFiles, manifests>>,
           ExportOf(j)
    PROVE  ExportOf(j)'
<1>1. ASSUME NEW n, HasChunks(j, n) PROVE HasChunks(j, n)'
  BY <1>1, ChunksKept
<1>2. HasManifest(j) => HasManifest(j)'
  BY ManifestKept
<1> HIDE DEF HasChunks, HasManifest
<1>3. QED
  BY <1>1, <1>2 DEF ExportOf

LEMMA CreateKeeps ==
    ASSUME ExportInv, NEW r \in Requests, CreateExportJob(r)
    PROVE  ExportInv'
<1> DEFINE L == Len(exports)
           job == [id |-> GenerateJobID, UserID |-> r.user,
                   format |-> RequestedFormat(r), filters |-> r.filters,
                   status |-> "pending", ManifestURL |-> FALSE, at |-> "start",
                   data |-> <<>>, stored |-> 0]
<1>1. /\ L < MaxJobs /\ exports' = Append(exports, job)
      /\ jobsByID' = Written(jobsByID, {second}, L + 1)
      /\ UNCHANGED <<second, chunkFiles, manifests>>
  BY DEF CreateExportJob, GenerateJobID
<1>2. exports \in Seq(Job) /\ L \in Nat /\ second \in 0..MaxSecond
  BY LenProperties DEF ExportInv, JobsTyped
<1>3. job \in Job
  <2>1. <<>> \in Seq(Piece) /\ "pending" \in Statuses /\ "start" \in Steps
    BY DEF Statuses, Steps
  <2>2. QED
    BY <1>2, <2>1 DEF Job, GenerateJobID
<1>4. /\ job.id = second /\ job.status = "pending" /\ job.at = "start"
      /\ job.data = <<>> /\ job.stored = 0
  BY DEF GenerateJobID
<1> HIDE DEF job
<1>5. /\ exports' \in Seq(Job) /\ Len(exports') = L + 1
      /\ \A k \in 1..L : exports'[k] = exports[k]
      /\ exports'[L + 1] = job
  BY <1>1, <1>2, <1>3, AppendProperties
<1>6. JobNumbers = 1..L /\ JobNumbers' = 1..(L + 1)
  BY <1>5 DEF JobNumbers
<1> HIDE DEF L
<1>7. JobNumbers' = JobNumbers \cup {L + 1} /\ L + 1 \notin JobNumbers
  BY <1>2, <1>6
<1>8. \A k \in JobNumbers : exports'[k] = exports[k]
  BY <1>5, <1>6
<1>9. JobsTyped'
  <2>1. Fits("start", <<>>, 0)
    <3>1. Len(<<>>) \in Nat
      OBVIOUS
    <3>2. ChunkCount(<<>>) \in Nat
      BY <3>1, ChunkBounds
    <3>3. QED
      BY <3>2 DEF Fits, Early
  <2>2. ASSUME NEW k \in JobNumbers'
        PROVE  Fits(exports'[k].at, exports'[k].data, exports'[k].stored)
    <3>1. CASE k \in JobNumbers
      BY <1>8, <3>1 DEF ExportInv, JobsTyped
    <3>2. CASE k = L + 1
      BY <1>4, <1>5, <2>1, <3>2
    <3>3. QED
      BY <1>7, <3>1, <3>2
  <2>3. exports' \in Seq(Job) /\ Len(exports') <= MaxJobs /\ second' \in 0..MaxSecond
    BY <1>1, <1>2, <1>5, ExportsAssumption DEF L
  <2>4. QED
    BY <2>2, <2>3 DEF JobsTyped, Fits, Reading, Numbers, Piece, Early, ChunkCount, SupportedFormats
<1>10. IDsTyped'
  <2>1. /\ DOMAIN jobsByID' = DOMAIN jobsByID \cup {second}
        /\ jobsByID'[second] = L + 1
        /\ \A id \in DOMAIN jobsByID : id # second => jobsByID'[id] = jobsByID[id]
    BY <1>1 DEF Written
  <2>2. ASSUME NEW id \in DOMAIN jobsByID'
        PROVE  /\ id \in 0..MaxSecond /\ jobsByID'[id] \in JobNumbers'
               /\ exports'[jobsByID'[id]].id = id
    <3>1. CASE id = second
      BY <1>2, <1>4, <1>5, <1>7, <2>1, <3>1
    <3>2. CASE id # second
      <4>1. id \in DOMAIN jobsByID /\ jobsByID'[id] = jobsByID[id]
        BY <2>1, <3>2
      <4>2. jobsByID[id] \in JobNumbers /\ exports[jobsByID[id]].id = id /\ id \in 0..MaxSecond
        BY <4>1 DEF ExportInv, IDsTyped
      <4>3. QED
        BY <1>7, <1>8, <4>1, <4>2
    <3>3. QED
      BY <3>1, <3>2
  <2>3. ASSUME NEW k \in JobNumbers', exports'[k].at \in Live
        PROVE  exports'[k].id \in DOMAIN jobsByID'
    <3>1. CASE k \in JobNumbers
      BY <1>8, <2>1, <2>3, <3>1 DEF ExportInv, IDsTyped
    <3>2. CASE k = L + 1
      BY <1>4, <1>5, <2>1, <3>2
    <3>3. QED
      BY <1>7, <3>1, <3>2
  <2>4. QED
    BY <2>2, <2>3 DEF IDsTyped, Live, Early
<1>11. FilesOwned'
  <2>1. ASSUME NEW id, \E k \in JobNumbers : exports[k].id = id
        PROVE  \E k \in JobNumbers' : exports'[k].id = id
    BY <1>7, <1>8, <2>1
  <2>2. FilesOwned
    BY DEF ExportInv
  <2>3. QED
    BY <1>1, <2>1, <2>2 DEF FilesOwned
<1>12. ASSUME NEW k \in JobNumbers', Unshared(k)' PROVE ExportOf(k)'
  <2>1. CASE k \in JobNumbers
    <3>1. Unshared(k)
      BY <1>7, <1>8, <1>12, <2>1 DEF Unshared
    <3>2. ExportOf(k)
      BY <2>1, <3>1 DEF ExportInv
    <3>3. QED
      BY <1>1, <1>8, <2>1, <3>2, ExportKept
  <2>2. CASE k = L + 1
    <3>1. exports'[k].id = second /\ exports'[k].at = "start" /\ exports'[k].status = "pending"
      BY <1>4, <1>5, <2>2
    <3>2. \A m \in JobNumbers : exports[m].id # second
      BY <1>7, <1>8, <1>12, <2>2, <3>1 DEF Unshared
    <3>3. second \notin DOMAIN manifests /\ \A f \in DOMAIN chunkFiles : f[1] # second
      BY <3>2 DEF ExportInv, FilesOwned
    <3>4. QED
      BY <1>1, <3>1, <3>3 DEF ExportOf, Early
  <2>3. QED
    BY <1>7, <2>1, <2>2
<1>13. QED
  BY <1>9, <1>10, <1>11, <1>12 DEF ExportInv

LEMMA ServesKeeps ==
    ASSUME ExportInv, UNCHANGED <<exports, jobsByID, chunkFiles, manifests>>,
           second' \in 0..MaxSecond
    PROVE  ExportInv'
<1>1. JobNumbers' = JobNumbers
  BY DEF JobNumbers
<1>2. ASSUME NEW k \in JobNumbers', Unshared(k)' PROVE ExportOf(k)'
  <2>1. Unshared(k)
    BY <1>1, <1>2 DEF Unshared
  <2>2. ExportOf(k)
    BY <1>1, <2>1 DEF ExportInv
  <2>3. QED
    BY <2>2, ExportKept
<1>3. IDsTyped' /\ FilesOwned'
  BY <1>1 DEF ExportInv, IDsTyped, FilesOwned
<1>4. JobsTyped'
  <2>1. \A k \in JobNumbers' : Fits(exports'[k].at, exports'[k].data, exports'[k].stored)
    BY <1>1 DEF ExportInv, JobsTyped
  <2>2. exports' \in Seq(Job) /\ Len(exports') <= MaxJobs
    BY DEF ExportInv, JobsTyped
  <2>3. QED
    BY <2>1, <2>2 DEF JobsTyped, Fits, Reading, Numbers, Piece, Early, ChunkCount, SupportedFormats
<1>5. QED
  BY <1>2, <1>3, <1>4 DEF ExportInv

\* The stop of the controller tears only what was being written.
LEMMA RestartKeeps ==
    ASSUME ExportInv, RestartController
    PROVE  ExportInv'
<1> DEFINE After(j) == IF exports[j].at = "returned" THEN exports[j]
                       ELSE [exports[j] EXCEPT !.at = "killed"]
<1>1. PICK torn \in SUBSET Writing :
        /\ chunkFiles' = Written(chunkFiles,
             {<<exports[j].id, exports[j].stored>> :
                j \in {t \in torn : exports[t].at = "store"}}, <<>>)
        /\ manifests' = Written(manifests,
             {exports[j].id : j \in {t \in torn : exports[t].at = "manifest"}}, TornManifest)
  BY DEF RestartController
<1> DEFINE C == {<<exports[j].id, exports[j].stored>> :
                   j \in {t \in torn : exports[t].at = "store"}}
           M == {exports[j].id : j \in {t \in torn : exports[t].at = "manifest"}}
<1>2. /\ DOMAIN chunkFiles' = DOMAIN chunkFiles \cup C
      /\ \A f \in C : chunkFiles'[f] = <<>>
      /\ \A f \in DOMAIN chunkFiles \ C : chunkFiles'[f] = chunkFiles[f]
  <2> HIDE DEF C
  <2>1. chunkFiles' = Written(chunkFiles, C, <<>>)
    BY <1>1 DEF C
  <2>2. QED
    BY <2>1 DEF Written
<1>3. /\ DOMAIN manifests' = DOMAIN manifests \cup M
      /\ \A m \in M : manifests'[m] = TornManifest
      /\ \A m \in DOMAIN manifests \ M : manifests'[m] = manifests[m]
  <2> HIDE DEF M
  <2>1. manifests' = Written(manifests, M, TornManifest)
    BY <1>1 DEF M
  <2>2. QED
    BY <2>1 DEF Written
<1>4. \A f \in C : \E t \in JobNumbers : /\ f = <<exports[t].id, exports[t].stored>>
                                        /\ exports[t].at = "store"
                                        /\ exports[t].stored < ChunkCount(exports[t].data)
  BY DEF Writing
<1>5. \A m \in M : \E t \in JobNumbers : exports[t].id = m /\ exports[t].at = "manifest"
  BY DEF Writing
<1> HIDE DEF C, M
<1>6. exports \in Seq(Job) /\ Len(exports) \in Nat /\ \A j \in JobNumbers : exports[j] \in Job
  BY JobTypes DEF ExportInv, JobsTyped
<1>7. ASSUME NEW j \in JobNumbers
      PROVE  /\ After(j) \in Job /\ After(j).id = exports[j].id
             /\ After(j).UserID = exports[j].UserID
             /\ After(j).data = exports[j].data /\ After(j).stored = exports[j].stored
             /\ After(j).status = exports[j].status
             /\ After(j).ManifestURL = exports[j].ManifestURL
             /\ After(j).at = IF exports[j].at = "returned" THEN "returned" ELSE "killed"
  <2>1. exports[j] \in Job /\ "killed" \in Steps
    BY <1>6 DEF Steps
  <2>2. QED
    BY <2>1 DEF Job
<1>8. /\ exports' = [j \in 1..Len(exports) |-> After(j)]
      /\ jobsByID' = <<>> /\ UNCHANGED second
  BY DEF RestartController, JobNumbers
<1> HIDE DEF After
<1>9. /\ exports' \in Seq(Job) /\ Len(exports') = Len(exports)
      /\ \A j \in JobNumbers : exports'[j] = After(j)
  <2>1. \A j \in 1..Len(exports) : After(j) \in Job
    BY <1>7 DEF JobNumbers
  <2>2. QED
    BY <1>6, <1>8, <2>1 DEF JobNumbers
<1>10. JobNumbers' = JobNumbers
  BY <1>9 DEF JobNumbers
<1>11. \A j \in JobNumbers :
         /\ exports'[j].id = exports[j].id /\ exports'[j].data = exports[j].data
         /\ exports'[j].stored = exports[j].stored /\ exports'[j].status = exports[j].status
         /\ exports'[j].ManifestURL = exports[j].ManifestURL
         /\ exports'[j].at = IF exports[j].at = "returned" THEN "returned" ELSE "killed"
  BY <1>7, <1>9
<1>12. JobsTyped'
  <2>1. ASSUME NEW j \in JobNumbers'
        PROVE  Fits(exports'[j].at, exports'[j].data, exports'[j].stored)
    <3>1. exports[j].stored \in Nat /\ exports[j].stored <= ChunkCount(exports[j].data)
      BY <1>10 DEF ExportInv, JobsTyped, Fits
    <3>2. QED
      BY <1>10, <1>11, <3>1 DEF Fits, Early
  <2>2. exports' \in Seq(Job) /\ Len(exports') <= MaxJobs /\ second' \in 0..MaxSecond
    BY <1>8, <1>9 DEF ExportInv, JobsTyped
  <2>3. QED
    BY <2>1, <2>2 DEF JobsTyped, Fits, Reading, Numbers, Piece, Early, ChunkCount, SupportedFormats
<1>13. IDsTyped'
  <2>1. DOMAIN jobsByID' = {}
    BY <1>8
  <2>2. \A j \in JobNumbers' : exports'[j].at \notin Live
    BY <1>10, <1>11 DEF Live, Early
  <2>3. QED
    BY <2>1, <2>2 DEF IDsTyped, Live, Early
<1>14. FilesOwned'
  <2>1. ASSUME NEW id, \E k \in JobNumbers : exports[k].id = id
        PROVE  \E k \in JobNumbers' : exports'[k].id = id
    BY <1>10, <1>11, <2>1
  <2>2. ASSUME NEW m \in DOMAIN manifests' PROVE \E k \in JobNumbers : exports[k].id = m
    BY <1>3, <1>5 DEF ExportInv, FilesOwned
  <2>3. ASSUME NEW f \in DOMAIN chunkFiles'
        PROVE  /\ f \in (0..MaxSecond) \X Nat /\ chunkFiles'[f] \in Seq(Piece)
               /\ \E k \in JobNumbers : exports[k].id = f[1]
    <3>1. CASE f \in C
      <4>1. PICK t \in JobNumbers : f = <<exports[t].id, exports[t].stored>>
        BY <1>4, <3>1
      <4>2. exports[t].id \in 0..MaxSecond /\ exports[t].stored \in Nat
        BY <1>6 DEF Job
      <4>3. chunkFiles'[f] = <<>> /\ <<>> \in Seq(Piece)
        BY <1>2, <3>1
      <4>4. QED
        BY <4>1, <4>2, <4>3
    <3>2. CASE f \notin C
      BY <1>2, <3>2 DEF ExportInv, FilesOwned
    <3>3. QED
      BY <3>1, <3>2
  <2>4. QED
    BY <2>1, <2>2, <2>3 DEF FilesOwned, Piece, SupportedFormats
<1>15. ASSUME NEW j \in JobNumbers', Unshared(j)' PROVE ExportOf(j)'
  <2> DEFINE id == exports[j].id
             data == exports[j].data
  <2>1. j \in JobNumbers /\ Unshared(j)
    BY <1>10, <1>11, <1>15 DEF Unshared
  <2>2. ExportOf(j)
    BY <2>1 DEF ExportInv
  <2>3. \A t \in JobNumbers : exports[t].id = id => t = j
    BY <2>1 DEF Unshared
  <2>4. /\ exports'[j].id = id /\ exports'[j].data = data
        /\ exports'[j].at = IF exports[j].at = "returned" THEN "returned" ELSE "killed"
        /\ exports'[j].status = exports[j].status
        /\ exports'[j].ManifestURL = exports[j].ManifestURL
    BY <1>11, <2>1
  <2>5. \A f \in DOMAIN chunkFiles' : f[1] = id => f[2] < ChunkCount(data)
    <3>1. ASSUME NEW f \in C, f[1] = id PROVE f[2] < ChunkCount(data)
      BY <1>4, <2>3, <3>1
    <3>2. \A f \in DOMAIN chunkFiles : f[1] = id => f[2] < ChunkCount(data)
      BY <2>2 DEF ExportOf
    <3>3. QED
      BY <1>2, <3>1, <3>2
  <2>6. id \in M => exports[j].at = "manifest"
    BY <1>5, <2>3
  <2>7. \A i : <<id, i>> \in C => exports[j].at = "store"
    <3>1. \A i : <<id, i>>[1] = id
      OBVIOUS
    <3>2. QED
      BY <1>4, <2>3, <3>1
  <2>8. ASSUME HasManifest(j) PROVE HasManifest(j)' /\ exports[j].at \notin {"store", "manifest"}
    <3>1. exports[j].at \notin {"store", "manifest"}
      BY <2>2, <2>8 DEF ExportOf, HasManifest
    <3>2. id \in DOMAIN manifests' /\ manifests'[id] = CreateManifest(id, data)
      BY <1>3, <2>6, <2>8, <3>1 DEF HasManifest
    <3>3. HasManifest(j)'
      <4> HIDE DEF id, data
      <4>1. QED
        BY <2>4, <3>2, ManifestMade
    <3>4. QED
      BY <3>1, <3>3
  <2>9. ASSUME id \in DOMAIN manifests', manifests'[id].Whole
        PROVE  HasManifest(j)' /\ HasChunks(j, ChunkCount(exports[j].data))'
    <3>1. id \in DOMAIN manifests /\ manifests[id].Whole
      BY <1>3, <2>9, WholeOrTorn
    <3>2. HasManifest(j) /\ HasChunks(j, ChunkCount(data))
      BY <2>2, <3>1 DEF ExportOf
    <3>3. \A i : <<id, i>> \notin C
      BY <2>7, <2>8, <3>2
    <3>4. \A i \in 0..(ChunkCount(data) - 1) : /\ <<id, i>> \in DOMAIN chunkFiles'
                                              /\ chunkFiles'[<<id, i>>] = Chunk(data, i)
      BY <1>2, <3>2, <3>3 DEF HasChunks
    <3>5. HasChunks(j, ChunkCount(exports[j].data))'
      <4> HIDE DEF id, data
      <4>1. QED
        BY <2>4, <3>4 DEF HasChunks, ChunkCount, Chunk
    <3>6. QED
      BY <2>8, <3>2, <3>5
  <2>10. exports[j].status = "completed" =>
           /\ exports[j].at = "returned" /\ exports[j].ManifestURL /\ HasManifest(j)
           /\ data \in Seq(Piece)
    BY <2>2 DEF ExportOf
  <2>11. exports[j].at = "returned" => exports[j].status \in {"completed", "failed"}
    BY <2>2 DEF ExportOf
  <2> HIDE DEF id, data
  <2>12. QED
    BY <2>4, <2>5, <2>8, <2>9, <2>10, <2>11
    DEF ExportOf, Early, ChunkCount, Piece, SupportedFormats
<1>16. QED
  BY <1>12, <1>13, <1>14, <1>15 DEF ExportInv

-----------------------------------------------------------------------------
(* Downloads. *)

LEMMA PrefixOf ==
    ASSUME NEW S, NEW s \in Seq(S), NEW c \in Seq(S)
    PROVE  IsPrefix(s, c) <=> Len(s) <= Len(c) /\ s = SubSeq(c, 1, Len(s))
BY SubSeqFull DEF IsPrefix

\* A part of the rest of c, put after a prefix of c, gives a longer prefix.
LEMMA PrefixGrows ==
    ASSUME NEW S, NEW s \in Seq(S), NEW c \in Seq(S),
           NEW h \in 0..(Len(c) - Len(s)), Len(s) <= Len(c)
    PROVE  LET t == s \o SubSeq(c, Len(s) + 1, Len(s) + h)
           IN  t \in Seq(S) /\ Len(t) = Len(s) + h /\ (IsPrefix(s, c) => IsPrefix(t, c))
<1> DEFINE g == Len(s)
           p == SubSeq(c, g + 1, g + h)
           t == s \o p
<1>1. g \in Nat /\ Len(c) \in Nat /\ h \in Nat /\ g + h <= Len(c) /\ g <= Len(c)
  BY LenProperties
<1> HIDE DEF g
<1>2. p \in Seq(S) /\ Len(p) = h
  <2>1. g + 1 \in Int /\ g + h \in Int
    BY <1>1
  <2>2. \A k \in (g + 1)..(g + h) : c[k] \in S
    BY <1>1, ElementOfSeq
  <2> DEFINE m == g + 1
             n == g + h
  <2>3. /\ SubSeq(c, m, n) \in Seq(S)
        /\ Len(SubSeq(c, m, n)) = IF m <= n THEN n - m + 1 ELSE 0
    <3> HIDE DEF m, n
    <3>1. m \in Int /\ n \in Int /\ \A k \in m..n : c[k] \in S
      BY <2>1, <2>2 DEF m, n
    <3>2. QED
      BY <3>1, SubSeqProperties
  <2>4. (IF m <= n THEN n - m + 1 ELSE 0) = h
    BY <1>1
  <2> HIDE DEF m, n
  <2>5. QED
    BY <2>3, <2>4 DEF m, n
<1>3. t \in Seq(S) /\ Len(t) = g + h
  <2> HIDE DEF p
  <2>1. QED
    BY <1>2, ConcatProperties DEF g
<1>4. ASSUME IsPrefix(s, c) PROVE IsPrefix(t, c)
  <2>1. s = SubSeq(c, 1, g)
    BY <1>4, PrefixOf DEF g
  <2>2. SubSeq(c, 1, g) \o p = SubSeq(c, 1, g + h)
    <3>1. 1 \in 1..(Len(c) + 1) /\ g \in (1 - 1)..Len(c) /\ g + h \in g..Len(c)
      BY <1>1
    <3>2. QED
      BY <3>1, ConcatAdjacentSubSeq
  <2>3. t = SubSeq(c, 1, Len(t)) /\ Len(t) <= Len(c)
    BY <1>1, <1>3, <2>1, <2>2
  <2> HIDE DEF t
  <2>4. QED
    BY <1>3, <2>3, PrefixOf
<1>5. QED
  BY <1>3, <1>4 DEF g

LEMMA PartOfRest ==
    ASSUME NEW S, NEW c \in Seq(S), NEW g \in Nat, g < Len(c),
           NEW h \in 0..(Len(c) - g)
    PROVE  /\ Len(SubSeq(c, g + 1, Len(c))) = Len(c) - g
           /\ SubSeq(SubSeq(c, g + 1, Len(c)), 1, h) = SubSeq(c, g + 1, g + h)
<1>1. Len(c) \in Nat /\ h \in Nat
  BY LenProperties
<1>2. Len(SubSeq(c, g + 1, Len(c))) = Len(c) - g
  <2>1. g + 1 \in Int /\ Len(c) \in Int
    BY <1>1
  <2>2. \A k \in (g + 1)..Len(c) : c[k] \in S
    BY <1>1, ElementOfSeq
  <2>3. Len(SubSeq(c, g + 1, Len(c))) = IF g + 1 <= Len(c) THEN Len(c) - (g + 1) + 1 ELSE 0
    BY <2>1, <2>2, SubSeqProperties
  <2>4. QED
    BY <1>1, <2>3
<1>3. CASE h = 0
  <2>1. SubSeq(SubSeq(c, g + 1, Len(c)), 1, 0) = <<>>
    BY SubSeqEmpty
  <2>2. SubSeq(c, g + 1, g + 0) = <<>>
    <3>1. g + 1 \in Int /\ g + 0 \in Int /\ g + 0 < g + 1
      OBVIOUS
    <3>2. QED
      BY <3>1, SubSeqEmpty
  <2>3. QED
    BY <1>2, <1>3, <2>1, <2>2
<1>4. CASE h # 0
  <2>1. g + 1 \in 1..Len(c) /\ Len(c) \in 1..Len(c)
    BY <1>1
  <2>2. 1 \in 1..(Len(c) - (g + 1) + 1) /\ h \in 1..(Len(c) - (g + 1) + 1)
    BY <1>1, <1>4
  <2>3. SubSeq(SubSeq(c, g + 1, Len(c)), 1, h) = SubSeq(c, g + 1 + 1 - 1, g + 1 + h - 1)
    BY <2>1, <2>2, SubSeqOfSubSeq
  <2>4. g + 1 + 1 - 1 = g + 1 /\ g + 1 + h - 1 = g + h
    BY <1>1
  <2>5. QED
    BY <1>2, <2>3, <2>4
<1>5. QED
  BY <1>3, <1>4

Download == [user : {r.user : r \in Requests}, file : (0..MaxSecond) \X Nat,
             got : Seq(Piece)]

\* What the client has, if the ID of the export is its job's own.
DownloadInv ==
    download # <<>> =>
        /\ download \in Download
        /\ download.file \in DOMAIN chunkFiles
        /\ \A j \in JobNumbers : Unshared(j) /\ exports[j].id = download.file[1] =>
             /\ exports[j].status = "completed"
             /\ IsPrefix(download.got, Chunk(exports[j].data, download.file[2]))

\* The chunks of a completed export are there.
LEMMA CompletedChunk ==
    ASSUME ExportInv, NEW j \in JobNumbers, Unshared(j), exports[j].status = "completed",
           NEW f \in DOMAIN chunkFiles, f[1] = exports[j].id
    PROVE  /\ chunkFiles[f] = Chunk(exports[j].data, f[2])
           /\ chunkFiles[f] \in Seq(Piece)
<1>1. f[2] \in Nat /\ f = <<f[1], f[2]>> /\ chunkFiles[f] \in Seq(Piece)
  BY DEF ExportInv, FilesOwned
<1>2. ExportOf(j)
  BY DEF ExportInv
<1>3. f[2] < ChunkCount(exports[j].data) /\ HasManifest(j)
  BY <1>2 DEF ExportOf
<1>4. exports[j].data \in Seq(Piece)
  BY <1>2 DEF ExportOf
<1>5. ChunkCount(exports[j].data) \in Nat
  BY <1>4, LenProperties, ChunkBounds
<1>6. HasChunks(j, ChunkCount(exports[j].data))
  <2>1. exports[j].id \in DOMAIN manifests /\ manifests[exports[j].id].Whole
    BY <1>3, WholeOrTorn DEF HasManifest
  <2>2. QED
    BY <1>2, <2>1 DEF ExportOf
<1>7. f[2] \in 0..(ChunkCount(exports[j].data) - 1)
  BY <1>1, <1>3, <1>5
<1>8. chunkFiles[<<exports[j].id, f[2]>>] = Chunk(exports[j].data, f[2])
  BY <1>6, <1>7 DEF HasChunks
<1>9. QED
  BY <1>1, <1>8

LEMMA JobDownload ==
    ASSUME ExportInv, DownloadInv, NEW j \in JobNumbers, StepOf(j), download' = download
    PROVE  DownloadInv'
<1> SUFFICES ASSUME download # <<>> PROVE DownloadInv'
  BY DEF DownloadInv
<1>1. JobNumbers' = JobNumbers
  BY DEF StepOf, JobNumbers
<1>2. ASSUME NEW k \in JobNumbers', Unshared(k)', exports'[k].id = download.file[1]
      PROVE  /\ exports'[k].status = "completed"
             /\ IsPrefix(download.got, Chunk(exports'[k].data, download.file[2]))
  <2>1. Unshared(k) /\ k \in JobNumbers /\ exports[k].id = download.file[1]
    BY <1>1, <1>2 DEF Unshared, StepOf
  <2>2. /\ exports[k].status = "completed"
        /\ IsPrefix(download.got, Chunk(exports[k].data, download.file[2]))
    BY <2>1 DEF DownloadInv
  <2>3. exports[k].at = "returned"
    BY <2>1, <2>2 DEF ExportInv, ExportOf
  <2>4. k # j
    BY <2>3 DEF StepOf, Live, Early
  <2>5. exports[k].id # exports[j].id
    BY <2>1, <2>4 DEF Unshared
  <2>6. exports'[k].data = exports[k].data /\ exports'[k].status = exports[k].status
    BY <2>1, <2>5 DEF StepOf
  <2>7. QED
    BY <2>2, <2>6
<1>3. download' \in Download /\ download'.file \in DOMAIN chunkFiles'
  BY DEF DownloadInv, StepOf
<1>4. QED
  BY <1>2, <1>3 DEF DownloadInv, Download, Piece, SupportedFormats, IsPrefix, Chunk

LEMMA SameDownload ==
    ASSUME DownloadInv, UNCHANGED <<exports, chunkFiles, download>>
    PROVE  DownloadInv'
<1> SUFFICES ASSUME download # <<>> PROVE DownloadInv'
  BY DEF DownloadInv
<1>1. JobNumbers' = JobNumbers
  BY DEF JobNumbers
<1>2. ASSUME NEW k \in JobNumbers', Unshared(k)', exports'[k].id = download.file[1]
      PROVE  /\ exports'[k].status = "completed"
             /\ IsPrefix(download.got, Chunk(exports'[k].data, download.file[2]))
  <2>1. Unshared(k) /\ k \in JobNumbers
    BY <1>1, <1>2 DEF Unshared
  <2>2. QED
    BY <1>2, <2>1 DEF DownloadInv
<1>3. download' \in Download /\ download'.file \in DOMAIN chunkFiles'
  BY DEF DownloadInv
<1>4. QED
  BY <1>2, <1>3 DEF DownloadInv, Download, Piece, SupportedFormats, IsPrefix, Chunk

LEMMA CreateDownload ==
    ASSUME ExportInv, DownloadInv, NEW r \in Requests, CreateExportJob(r)
    PROVE  DownloadInv'
<1> SUFFICES ASSUME download # <<>> PROVE DownloadInv'
  BY DEF DownloadInv, CreateExportJob
<1>1. exports \in Seq(Job) /\ Len(exports) \in Nat
  BY JobTypes DEF ExportInv, JobsTyped
<1>2. PICK new : exports' = Append(exports, new) /\ new.id = second
  BY DEF CreateExportJob, GenerateJobID
<1>3. /\ Len(exports') = Len(exports) + 1
      /\ \A k \in 1..Len(exports) : exports'[k] = exports[k]
      /\ exports'[Len(exports) + 1].id = second
  BY <1>1, <1>2
<1>4. JobNumbers' = JobNumbers \cup {Len(exports) + 1} /\ Len(exports) + 1 \notin JobNumbers
  BY <1>1, <1>3 DEF JobNumbers
<1>5. UNCHANGED <<chunkFiles, download>>
  BY DEF CreateExportJob
<1>6. ASSUME NEW k \in JobNumbers', Unshared(k)', exports'[k].id = download.file[1]
      PROVE  /\ exports'[k].status = "completed"
             /\ IsPrefix(download.got, Chunk(exports'[k].data, download.file[2]))
  <2>1. CASE k \in JobNumbers
    <3>1. exports'[k] = exports[k] /\ Unshared(k)
      BY <1>3, <1>4, <1>6, <2>1 DEF Unshared, JobNumbers
    <3>2. QED
      BY <1>6, <2>1, <3>1 DEF DownloadInv
  <2>2. CASE k = Len(exports) + 1
    <3>1. PICK m \in JobNumbers : exports[m].id = download.file[1]
      BY DEF ExportInv, FilesOwned, DownloadInv
    <3>2. exports'[m].id = exports'[k].id /\ m \in JobNumbers' /\ m # k
      BY <1>3, <1>4, <1>6, <2>2, <3>1 DEF JobNumbers
    <3>3. QED
      BY <1>6, <3>2 DEF Unshared
  <2>3. QED
    BY <1>4, <2>1, <2>2
<1>7. download' \in Download /\ download'.file \in DOMAIN chunkFiles'
  BY <1>5 DEF DownloadInv
<1>8. QED
  BY <1>5, <1>6, <1>7 DEF DownloadInv, Download, Piece, SupportedFormats, IsPrefix, Chunk

LEMMA StartsDownload ==
    ASSUME ExportInv, NEW id \in DOMAIN jobsByID, NEW i \in Downloaded, StartDownload(id, i)
    PROVE  DownloadInv'
<1> DEFINE m == jobsByID[id]
<1>1. m \in JobNumbers /\ exports[m].id = id /\ exports[m] \in Job
  BY JobTypes DEF ExportInv, IDsTyped, JobsTyped
<1>2. /\ exports[m].status = "completed" /\ <<id, i>> \in DOMAIN chunkFiles
      /\ download' = [user |-> exports[m].UserID, file |-> <<id, i>>, got |-> <<>>]
      /\ UNCHANGED <<exports, chunkFiles>>
  BY DEF StartDownload, MayDownload
<1>3. JobNumbers' = JobNumbers
  BY <1>2 DEF JobNumbers
<1>4. <<id, i>> \in (0..MaxSecond) \X Nat
  BY <1>2 DEF ExportInv, FilesOwned
<1>5. download' \in Download /\ download'.file \in DOMAIN chunkFiles'
  <2>1. exports[m].UserID \in {r.user : r \in Requests} /\ <<>> \in Seq(Piece)
    BY <1>1 DEF Job
  <2> HIDE DEF m
  <2>2. QED
    BY <1>2, <1>4, <2>1 DEF Download
<1>6. ASSUME NEW k \in JobNumbers', Unshared(k)', exports'[k].id = id
      PROVE  exports'[k].status = "completed" /\ IsPrefix(<<>>, Chunk(exports'[k].data, i))
  <2>1. Unshared(k) /\ exports'[k] = exports[k] /\ k = m
    BY <1>1, <1>2, <1>3, <1>6 DEF Unshared
  <2>2. <<id, i>>[1] = exports[k].id /\ <<id, i>>[2] = i
    BY <1>1, <2>1
  <2>3. Chunk(exports[k].data, i) \in Seq(Piece)
    BY <1>1, <1>2, <2>1, <2>2, CompletedChunk
  <2>4. Len(Chunk(exports[k].data, i)) \in Nat
    BY <2>3, LenProperties
  <2> DEFINE none == <<>>
             c == Chunk(exports[k].data, i)
  <2>5. none = SubSeq(c, 1, 0)
    BY SubSeqEmpty
  <2>6. none \in Seq(Piece) /\ Len(none) = 0
    OBVIOUS
  <2> HIDE DEF none, c
  <2>7. c \in Seq(Piece) /\ Len(c) \in Nat
    BY <2>3, <2>4 DEF c
  <2>8. IsPrefix(none, c)
    <3>1. Len(none) <= Len(c) /\ none = SubSeq(c, 1, Len(none))
      BY <2>5, <2>6, <2>7
    <3>2. QED
      BY <2>6, <2>7, <3>1, PrefixOf
  <2>9. QED
    BY <1>2, <2>1, <2>8 DEF none, c
<1>7. download'.file[1] = id /\ download'.file[2] = i /\ download'.got = <<>>
  BY <1>2
<1>8. QED
  BY <1>5, <1>6, <1>7 DEF DownloadInv, Download, Piece, SupportedFormats, IsPrefix, Chunk

LEMMA ResumesDownload ==
    ASSUME ExportInv, DownloadInv, NEW breaks \in BOOLEAN, Resume(breaks)
    PROVE  DownloadInv'
<1> DEFINE c == chunkFiles[download.file]
           g == Len(download.got)
           body == SubSeq(c, g + 1, Len(c))
           h == IF breaks THEN Len(body) \div 2 ELSE Len(body)
           got == download.got \o SubSeq(c, g + 1, g + h)
<1>1. download \in Download /\ download.file \in DOMAIN chunkFiles
  BY DEF Resume, DownloadInv
<1>2. c \in Seq(Piece) /\ download.got \in Seq(Piece) /\ g \in Nat /\ Len(c) \in Nat
  BY <1>1, LenProperties DEF ExportInv, FilesOwned, Download
<1>3. /\ HandleRangeRequest(Len(c), g, -1) = [start |-> g, end |-> Len(c) - 1]
      /\ Body(c, HandleRangeRequest(Len(c), g, -1)) = body
      /\ Satisfiable(Len(c), HandleRangeRequest(Len(c), g, -1)) => g < Len(c)
  <2> HIDE DEF c, g
  <2>1. HandleRangeRequest(Len(c), g, -1) = [start |-> g, end |-> Len(c) - 1]
    BY <1>2 DEF HandleRangeRequest
  <2>2. Len(c) - 1 + 1 = Len(c)
    BY <1>2
  <2> DEFINE range == HandleRangeRequest(Len(c), g, -1)
  <2>3. range.start = g /\ range.end + 1 = Len(c)
    BY <2>1, <2>2
  <2> HIDE DEF range, body
  <2>4. Body(c, range) = body
    BY <2>3 DEF Body, body
  <2>5. Satisfiable(Len(c), range) => g < Len(c)
    BY <2>3 DEF Satisfiable
  <2>6. QED
    BY <2>1, <2>4, <2>5 DEF range
<1>4. /\ g < Len(c)
      /\ download' = [download EXCEPT
            !.got = download.got \o IF breaks THEN SubSeq(body, 1, Len(body) \div 2) ELSE body]
      /\ UNCHANGED <<exports, chunkFiles>>
  BY <1>1, <1>3 DEF Resume, Download
<1> HIDE DEF c, g
<1>5. Len(body) = Len(c) - g
  BY <1>2, <1>4, PartOfRest
<1>6. h \in 0..(Len(c) - g)
  <2> HIDE DEF body
  <2>1. Len(c) - g \in Nat
    BY <1>2, <1>4
  <2>2. (Len(c) - g) \div 2 \in 0..(Len(c) - g)
    BY <2>1
  <2>3. QED
    BY <1>5, <2>1, <2>2
<1>7. (IF breaks THEN SubSeq(body, 1, Len(body) \div 2) ELSE body) = SubSeq(c, g + 1, g + h)
  <2>1. CASE breaks
    <3>1. SubSeq(body, 1, h) = SubSeq(c, g + 1, g + h)
      <4> HIDE DEF h
      <4>1. QED
        BY <1>2, <1>4, <1>6, PartOfRest
    <3>2. QED
      BY <2>1, <3>1
  <2>2. CASE ~breaks
    <3>1. g + h = Len(c)
      <4> HIDE DEF body
      <4>1. QED
        BY <1>2, <1>5, <2>2
    <3> HIDE DEF h
    <3>2. QED
      BY <2>2, <3>1
  <2>3. QED
    BY <2>1, <2>2
<1>8. download' = [download EXCEPT !.got = got]
  <2> HIDE DEF h
  <2>1. QED
    BY <1>4, <1>7
<1> HIDE DEF body, h
<1>9. got \in Seq(Piece) /\ (IsPrefix(download.got, c) => IsPrefix(got, c))
  BY <1>2, <1>4, <1>6, PrefixGrows DEF g
<1> HIDE DEF got
<1>10. /\ download' \in Download /\ download'.file = download.file
       /\ download'.got = got
  BY <1>1, <1>8, <1>9 DEF Download
<1>11. JobNumbers' = JobNumbers
  BY <1>4 DEF JobNumbers
<1>12. ASSUME NEW k \in JobNumbers', Unshared(k)', exports'[k].id = download.file[1]
       PROVE  /\ exports'[k].status = "completed"
              /\ IsPrefix(got, Chunk(exports'[k].data, download.file[2]))
  <2>1. Unshared(k) /\ k \in JobNumbers /\ exports'[k] = exports[k]
    BY <1>4, <1>11, <1>12 DEF Unshared
  <2>2. /\ exports[k].status = "completed"
        /\ IsPrefix(download.got, Chunk(exports[k].data, download.file[2]))
    BY <1>12, <2>1 DEF DownloadInv, Resume
  <2>3. c = Chunk(exports[k].data, download.file[2])
    BY <1>1, <1>12, <2>1, <2>2, CompletedChunk DEF c
  <2>4. QED
    BY <1>9, <2>1, <2>2, <2>3
<1>13. QED
  BY <1>1, <1>4, <1>10, <1>12
  DEF DownloadInv, Download, Piece, SupportedFormats, IsPrefix, Chunk

-----------------------------------------------------------------------------
(* The invariant, and what it says. *)

LEMMA ExportStep ==
    ExportInv /\ DownloadInv /\ [ExportsNext]_exportVars => (ExportInv /\ DownloadInv)'
<1> SUFFICES ASSUME ExportInv, DownloadInv, [ExportsNext]_exportVars
             PROVE  (ExportInv /\ DownloadInv)'
  OBVIOUS
<1>1. ASSUME NEW r \in Requests, CreateExportJob(r) PROVE (ExportInv /\ DownloadInv)'
  BY <1>1, CreateKeeps, CreateDownload
<1>2. ASSUME NEW j \in JobNumbers, ProcessExportJob(j) PROVE (ExportInv /\ DownloadInv)'
  <2>1. ExportInv' /\ StepOf(j)
    BY <1>2, BeginKeeps, FetchKeeps, FormatKeeps, StoreChunkKeeps, ChunksStoredKeeps,
       StoreManifestKeeps, CompleteKeeps DEF ProcessExportJob
  <2>2. download' = download
    BY <1>2 DEF ProcessExportJob, Begin, Fetch, Format, StoreChunk, ChunksStored,
                StoreManifest, Complete
  <2>3. QED
    BY <2>1, <2>2, JobDownload
<1>3. second \in 0..MaxSecond
  BY DEF ExportInv, JobsTyped
<1>4. ASSUME NEW id \in DOMAIN jobsByID, NEW i \in Downloaded, StartDownload(id, i)
      PROVE  (ExportInv /\ DownloadInv)'
  <2>1. UNCHANGED <<second, exports, jobsByID, chunkFiles, manifests>>
    BY <1>4 DEF StartDownload
  <2>2. QED
    BY <1>3, <1>4, <2>1, ServesKeeps, StartsDownload
<1>5. ASSUME NEW breaks \in BOOLEAN, Resume(breaks) PROVE (ExportInv /\ DownloadInv)'
  <2>1. UNCHANGED <<second, exports, jobsByID, chunkFiles, manifests>>
    BY <1>5 DEF Resume
  <2>2. QED
    BY <1>3, <1>5, <2>1, ServesKeeps, ResumesDownload
<1>6. CASE EndDownload
  <2>1. UNCHANGED <<second, exports, jobsByID, chunkFiles, manifests>> /\ download' = <<>>
    BY <1>6 DEF EndDownload
  <2>2. QED
    BY <1>3, <2>1, ServesKeeps DEF DownloadInv
<1>7. CASE SecondPasses
  <2>1. /\ UNCHANGED <<exports, jobsByID, chunkFiles, manifests, download>>
        /\ second' \in 0..MaxSecond
    BY <1>3, <1>7, ExportsAssumption DEF SecondPasses
  <2>2. ExportInv'
    BY <2>1, ServesKeeps
  <2>3. DownloadInv'
    BY <2>1, SameDownload
  <2>4. QED
    BY <2>2, <2>3
<1>8. CASE RestartController
  <2>1. download' = <<>>
    BY <1>8 DEF RestartController
  <2>2. QED
    BY <1>8, <2>1, RestartKeeps DEF DownloadInv
<1>9. CASE UNCHANGED exportVars
  <2>1. UNCHANGED <<second, exports, jobsByID, chunkFiles, manifests, download>>
    BY <1>9 DEF exportVars
  <2>2. QED
    BY <1>3, <2>1, ServesKeeps, SameDownload
<1>10. QED
  BY <1>1, <1>2, <1>4, <1>5, <1>6, <1>7, <1>8, <1>9 DEF ExportsNext

LEMMA ExportInvariant == ExportSpec => []ExportInv /\ []DownloadInv
<1>1. ExportsInit => ExportInv /\ DownloadInv
  BY InitExport DEF ExportsInit, DownloadInv
<1>2. QED
  BY <1>1, ExportStep, PTL DEF ExportSpec

\* The types of the variables, at every number of jobs, records and chunks.
THEOREM ExportsTypes == ExportSpec => []ExportsTypeOK
<1>1. ExportInv => ExportsTypeOK
  <2> SUFFICES ASSUME ExportInv PROVE ExportsTypeOK
    OBVIOUS
  <2>1. ASSUME NEW j \in JobNumbers
        PROVE  /\ exports[j].id \in 0..MaxSecond /\ exports[j].status \in Statuses
               /\ exports[j].at \in Steps /\ exports[j].ManifestURL \in BOOLEAN
               /\ exports[j].stored \in 0..ChunkCount(exports[j].data)
    <3>1. exports[j] \in Job /\ Fits(exports[j].at, exports[j].data, exports[j].stored)
      BY JobFacts
    <3>2. ChunkCount(exports[j].data) \in Nat
      <4>1. Len(exports[j].data) \in Nat
        BY <3>1, LenProperties DEF Job, Reading
      <4>2. QED
        BY <4>1, ChunkBounds
    <3>3. exports[j].stored \in 0..ChunkCount(exports[j].data)
      BY <3>1, <3>2 DEF Fits
    <3>4. QED
      BY <3>1, <3>3 DEF Job
  <2>2. DOMAIN manifests \subseteq 0..MaxSecond
    BY <2>1 DEF ExportInv, FilesOwned
  <2>3. QED
    BY <2>1, <2>2 DEF ExportsTypeOK, ExportInv, JobsTyped, IDsTyped, FilesOwned
<1>2. QED
  BY <1>1, ExportInvariant, PTL

\* What CreateManifest lists.
LEMMA ManifestLists ==
    ASSUME NEW id, NEW data, ChunkCount(data) \in Nat
    PROVE  LET m == CreateManifest(id, data)
           IN  /\ Len(m.Files) = ChunkCount(data)
               /\ \A n \in 1..ChunkCount(data) :
                    /\ m.Files[n].Name = <<id, n - 1>>
                    /\ m.Files[n].Size = Len(Chunk(data, n - 1))
                    /\ m.Files[n].Checksum = Chunk(data, n - 1)
<1> DEFINE files == [n \in 1..ChunkCount(data) |-> FileInfo(id, data, n - 1)]
<1>1. CreateManifest(id, data).Files = files
  BY DEF CreateManifest
<1>2. Len(files) = ChunkCount(data)
  OBVIOUS
<1>3. QED
  BY <1>1, <1>2 DEF FileInfo

\* The service and the tool build the same tree, and ask the same of it.
LEMMA ManifestVerifies ==
    ASSUME NEW id, NEW data
    PROVE  VerifyExport(CreateManifest(id, data))
<1> DEFINE files == [n \in 1..ChunkCount(data) |-> FileInfo(id, data, n - 1)]
           hashes == [n \in 1..Len(files) |-> <<files[n].Checksum>>]
           root == BuildMerkleTree(hashes)
<1>1. CreateManifest(id, data) = [Whole |-> TRUE, Files |-> files, MerkleRoot |-> root,
                                  Signature |-> <<"sha256", root>>]
  BY DEF CreateManifest
<1>2. VerifierMerkleTree(hashes) = root
  <2> HIDE DEF hashes
  <2>1. QED
    BY DEF VerifierMerkleTree, BuildMerkleTree
<1> DEFINE m == CreateManifest(id, data)
<1>3. m.Files = files /\ m.MerkleRoot = root /\ m.Signature = <<"sha256", root>>
  <2> HIDE DEF files, root
  <2>1. QED
    BY <1>1
<1> HIDE DEF m
<1>4. VerifyMerkleTree(m)
  <2>1. VerifierMerkleTree([n \in 1..Len(m.Files) |-> <<m.Files[n].Checksum>>]) = root
    <3> HIDE DEF root, files
    <3>1. [n \in 1..Len(m.Files) |-> <<m.Files[n].Checksum>>] = hashes
      BY <1>3
    <3>2. QED
      BY <1>2, <3>1
  <2>2. QED
    BY <1>3, <2>1 DEF VerifyMerkleTree
<1>5. VerifySignature(m)
  <2> HIDE DEF root
  <2>1. Len(m.Signature) = 2
    BY <1>3
  <2>2. QED
    BY <2>1 DEF VerifySignature
<1>6. QED
  BY <1>4, <1>5 DEF VerifyExport, m

\* A manifest in the storage that can be read passes `verify` and its chunks
\* pass `check-files`, whatever write failed and whenever the controller
\* stopped (processExportJob, buildMerkleTree, verifyExport, checkFiles).
THEOREM ManifestsAreSound == ExportSpec => []ManifestSound
<1>1. ExportInv => ManifestSound
  <2> SUFFICES ASSUME ExportInv, NEW j \in JobNumbers, Unshared(j),
                      exports[j].id \in DOMAIN manifests, manifests[exports[j].id].Whole
               PROVE  /\ VerifyExport(manifests[exports[j].id])
                      /\ CheckFiles(manifests[exports[j].id], chunkFiles)
    BY DEF ManifestSound
  <2> DEFINE id == exports[j].id
             data == exports[j].data
             K == ChunkCount(data)
  <2>1. HasManifest(j) /\ HasChunks(j, K)
    BY DEF ExportInv, ExportOf
  <2>2. manifests[id] = CreateManifest(id, data)
    BY <2>1 DEF HasManifest
  <2>3. K \in Nat
    <3>1. exports[j] \in Job
      BY JobFacts
    <3>2. Len(data) \in Nat
      BY <3>1, LenProperties DEF Job, Reading
    <3>3. QED
      BY <3>2, ChunkBounds
  <2>4. CheckFiles(CreateManifest(id, data), chunkFiles)
    <3> DEFINE m == CreateManifest(id, data)
    <3>1. /\ Len(m.Files) = K
          /\ \A n \in 1..K : /\ m.Files[n].Name = <<id, n - 1>>
                             /\ m.Files[n].Size = Len(Chunk(data, n - 1))
                             /\ m.Files[n].Checksum = Chunk(data, n - 1)
      BY <2>3, ManifestLists
    <3>2. \A n \in 1..K : /\ <<id, n - 1>> \in DOMAIN chunkFiles
                         /\ chunkFiles[<<id, n - 1>>] = Chunk(data, n - 1)
      BY <2>1, <2>3 DEF HasChunks
    <3> HIDE DEF m, K, id, data
    <3>3. CheckFiles(m, chunkFiles)
      BY <3>1, <3>2 DEF CheckFiles, VerifyFileChecksum
    <3>4. QED
      BY <3>3 DEF m
  <2>5. QED
    BY <2>2, <2>4, ManifestVerifies
<1>2. QED
  BY <1>1, ExportInvariant, PTL

\* The status tells how a job ended, and the chunks that the manifest of a
\* completed export lists are, put together, all of its data: as many as there
\* are, whatever the size of the last (processExportJob, createChunks).
THEOREM StatusesTellOutcome == ExportSpec => []StatusTellsOutcome
<1>1. ExportInv => StatusTellsOutcome
  <2> SUFFICES ASSUME ExportInv, NEW j \in JobNumbers, Unshared(j)
               PROVE  LET id == exports[j].id
                      IN  /\ exports[j].at = "returned" =>
                                exports[j].status \in {"completed", "failed"}
                          /\ exports[j].status = "completed" =>
                                /\ exports[j].ManifestURL
                                /\ id \in DOMAIN manifests /\ manifests[id].Whole
                                /\ FlattenSeq([n \in 1..Len(manifests[id].Files) |->
                                                 chunkFiles[manifests[id].Files[n].Name]])
                                     = exports[j].data
    BY DEF StatusTellsOutcome
  <2> DEFINE id == exports[j].id
             data == exports[j].data
             K == ChunkCount(data)
  <2>1. ExportOf(j)
    BY DEF ExportInv
  <2>2. exports[j].at = "returned" => exports[j].status \in {"completed", "failed"}
    BY <2>1 DEF ExportOf
  <2>3. ASSUME exports[j].status = "completed"
        PROVE  /\ exports[j].ManifestURL
               /\ id \in DOMAIN manifests /\ manifests[id].Whole
               /\ FlattenSeq([n \in 1..Len(manifests[id].Files) |->
                                chunkFiles[manifests[id].Files[n].Name]]) = data
    <3>1. exports[j].ManifestURL /\ HasManifest(j) /\ data \in Seq(Piece)
      BY <2>1, <2>3 DEF ExportOf
    <3>2. /\ id \in DOMAIN manifests /\ manifests[id].Whole
          /\ manifests[id] = CreateManifest(id, data)
      BY <3>1, WholeOrTorn DEF HasManifest
    <3>3. HasChunks(j, K)
      BY <2>1, <3>2 DEF ExportOf
    <3>4. K \in Nat
      BY <3>1, LenProperties, ChunkBounds
    <3>5. \A n \in 1..K : chunkFiles[<<id, n - 1>>] = Chunk(data, n - 1)
      BY <3>3, <3>4 DEF HasChunks
    <3> DEFINE m == manifests[id]
    <3>6. Len(m.Files) = K /\ \A n \in 1..K : m.Files[n].Name = <<id, n - 1>>
      BY <3>2, <3>4, ManifestLists
    <3>7. [n \in 1..Len(m.Files) |-> chunkFiles[m.Files[n].Name]] = Chunks(data)
      <4> HIDE DEF m, id, data
      <4>1. [n \in 1..Len(m.Files) |-> chunkFiles[m.Files[n].Name]]
              = [n \in 1..K |-> Chunk(data, n - 1)]
        <5> HIDE DEF K
        <5>1. QED
          BY <3>5, <3>6
      <4>2. QED
        BY <4>1 DEF Chunks
    <3>8. FlattenSeq(Chunks(data)) = data
      BY <3>1, ChunksMakeData
    <3> DEFINE put == [n \in 1..Len(m.Files) |-> chunkFiles[m.Files[n].Name]]
    <3>9. put = Chunks(data)
      <4> HIDE DEF m, id, data
      <4>1. QED
        BY <3>7
    <3>10. FlattenSeq(put) = data
      <4> HIDE DEF put
      <4>1. QED
        BY <3>8, <3>9
    <3>11. QED
      BY <3>1, <3>2, <3>10
  <2>4. QED
    BY <2>2, <2>3
<1>2. QED
  BY <1>1, ExportInvariant, PTL

\* What a client has of a chunk is the beginning of it, and the answer to its
\* next request is the rest, at whatever byte the connections broke
\* (DownloadChunkHandler, handleRangeRequest).
THEOREM DownloadsResume == ExportSpec => []DownloadResumes
<1>1. ExportInv /\ DownloadInv => DownloadResumes
  <2> SUFFICES ASSUME ExportInv, DownloadInv, NEW j \in JobNumbers, Unshared(j),
                      download # <<>>, download.file[1] = exports[j].id
               PROVE  LET chunk == Chunk(exports[j].data, download.file[2])
                          range == HandleRangeRequest(Len(chunk), Len(download.got), -1)
                      IN  /\ IsPrefix(download.got, chunk)
                          /\ download.got # chunk =>
                                /\ Satisfiable(Len(chunk), range)
                                /\ download.got \o Body(chunk, range) = chunk
    BY DEF DownloadResumes
  <2> DEFINE c == Chunk(exports[j].data, download.file[2])
             got == download.got
             g == Len(got)
             range == HandleRangeRequest(Len(c), g, -1)
  <2>1. /\ download \in Download /\ download.file \in DOMAIN chunkFiles
        /\ exports[j].status = "completed" /\ IsPrefix(got, c)
    BY DEF DownloadInv
  <2>2. c \in Seq(Piece)
    BY <2>1, CompletedChunk
  <2>3. got \in Seq(Piece)
    BY <2>1 DEF Download
  <2> HIDE DEF c, got
  <2>4. Len(c) \in Nat /\ g \in Nat
    BY <2>2, <2>3, LenProperties
  <2>5. g <= Len(c) /\ got = SubSeq(c, 1, g)
    BY <2>1, <2>2, <2>3, PrefixOf
  <2>6. ASSUME got # c PROVE Satisfiable(Len(c), range) /\ got \o Body(c, range) = c
    <3>1. g < Len(c)
      <4>1. SubSeq(c, 1, Len(c)) = c
        BY <2>2, SubSeqFull
      <4> HIDE DEF g
      <4>2. g # Len(c)
        BY <2>5, <2>6, <4>1
      <4>3. QED
        BY <2>4, <2>5, <4>2
    <3> HIDE DEF g
    <3>2. range.start = g /\ range.end = Len(c) - 1
      BY <2>4 DEF HandleRangeRequest
    <3> HIDE DEF range
    <3>3. Satisfiable(Len(c), range)
      BY <2>4, <3>1, <3>2 DEF Satisfiable
    <3>4. Body(c, range) = SubSeq(c, g + 1, Len(c))
      <4>1. range.end + 1 = Len(c)
        BY <2>4, <3>2
      <4>2. QED
        BY <3>2, <4>1 DEF Body
    <3>5. SubSeq(c, 1, g) \o SubSeq(c, g + 1, Len(c)) = SubSeq(c, 1, Len(c))
      <4>1. 1 \in 1..(Len(c) + 1) /\ g \in (1 - 1)..Len(c) /\ Len(c) \in g..Len(c)
        BY <2>4, <3>1
      <4>2. QED
        BY <2>2, <4>1, ConcatAdjacentSubSeq
    <3>6. SubSeq(c, 1, Len(c)) = c
      BY <2>2, SubSeqFull
    <3>7. got \o Body(c, range) = c
      BY <2>5, <3>4, <3>5, <3>6
    <3>8. QED
      BY <3>3, <3>7
  <2>7. QED
    BY <2>1, <2>6 DEF c, got
<1>2. QED
  BY <1>1, ExportInvariant, PTL

-----------------------------------------------------------------------------
(* What an export has of the source, and what `diff` reads of it: the        *)
(* elements of the sequences that are built, whatever their order.           *)

\* f[i] collects e[1], ..., e[i], those whose index is in C.
Collects(f, n, C, e) ==
    f = [i \in 0..n |-> IF i = 0 THEN <<>>
                        ELSE IF i \in C THEN Append(f[i - 1], e[i]) ELSE f[i - 1]]

LEMMA CollectionExists ==
    ASSUME NEW n \in Nat, NEW C, NEW e
    PROVE  \E f : Collects(f, n, C, e)
<1> DEFINE T == Seq({e[i] : i \in 1..n})
           step == [p \in Nat \X T |->
                      IF p[1] \in 1..n /\ p[1] \in C THEN Append(p[2], e[p[1]]) ELSE p[2]]
<1>1. step \in [Nat \X T -> T]
  <2>1. ASSUME NEW p \in Nat \X T
        PROVE  (IF p[1] \in 1..n /\ p[1] \in C THEN Append(p[2], e[p[1]]) ELSE p[2]) \in T
    <3>1. p[2] \in T
      OBVIOUS
    <3>2. CASE p[1] \in 1..n
      <4>1. e[p[1]] \in {e[i] : i \in 1..n}
        BY <3>2
      <4>2. Append(p[2], e[p[1]]) \in T
        BY <3>1, <4>1, AppendProperties
      <4>3. QED
        BY <3>1, <4>2
    <3>3. QED
      BY <3>1, <3>2
  <2> HIDE DEF T
  <2>2. QED
    BY <2>1
<1>2. <<>> \in T
  OBVIOUS
<1> HIDE DEF T
<1>3. PICK F : IsIteration(F, T, <<>>, step, n)
  <2> HIDE DEF step
  <2>1. QED
    BY <1>1, <1>2, Iterates
<1>4. F \in [0..n -> T] /\ F[0] = <<>> /\ \A i \in 1..n : F[i] = step[<<i, F[i - 1]>>]
  <2> HIDE DEF step
  <2>1. QED
    BY <1>3 DEF IsIteration
<1>5. ASSUME NEW i \in 1..n
      PROVE  F[i] = IF i \in C THEN Append(F[i - 1], e[i]) ELSE F[i - 1]
  <2>1. i - 1 \in 0..n /\ i \in Nat
    OBVIOUS
  <2>2. F[i - 1] \in T /\ F[i] = step[<<i, F[i - 1]>>]
    <3> HIDE DEF step
    <3>1. QED
      BY <1>4, <2>1
  <2>3. <<i, F[i - 1]>> \in Nat \X T
    BY <2>1, <2>2
  <2>4. QED
    BY <2>2, <2>3
<1> HIDE DEF step
<1>6. \A i \in 0..n : i = 0 \/ i \in 1..n
  OBVIOUS
<1>7. QED
  BY <1>4, <1>5, <1>6 DEF Collects

LEMMA ContainsAppend ==
    ASSUME NEW S, NEW s \in Seq(S), NEW e, NEW x
    PROVE  Contains(Append(s, e), x) <=> Contains(s, x) \/ x = e
<1>1. Len(s) \in Nat
  BY LenProperties
<1>2. /\ Len(Append(s, e)) = Len(s) + 1
      /\ \A i \in 1..Len(s) : Append(s, e)[i] = s[i]
      /\ Append(s, e)[Len(s) + 1] = e
  <2>1. s \in Seq(S \cup {e}) /\ e \in S \cup {e}
    BY ElementOfSeq, <1>1
  <2>2. QED
    BY <2>1, AppendProperties
<1> HIDE DEF Contains
<1>3. 1..(Len(s) + 1) = 1..Len(s) \cup {Len(s) + 1}
  BY <1>1
<1>4. QED
  BY <1>1, <1>2, <1>3 DEF Contains

\* The sequence s has x just if it is the element of an index in C.
Collected(s, n, C, e, x) == Contains(s, x) <=> \E i \in 1..n : i \in C /\ e[i] = x

\* A collection has just the elements of its indexes.
LEMMA CollectionHolds ==
    ASSUME NEW n \in Nat, NEW C, NEW e, NEW f, Collects(f, n, C, e)
    PROVE  /\ f[n] \in Seq({e[i] : i \in 1..n})
           /\ \A x : Collected(f[n], n, C, e, x)
<1> DEFINE S == {e[i] : i \in 1..n}
           Holds(i, x) == Contains(f[i], x) <=> \E k \in 1..i : k \in C /\ e[k] = x
           N == {i \in Nat : f[i] \in Seq(S) /\ \A x : Holds(i, x)}
<1>1. /\ f[0] = <<>>
      /\ \A i \in 1..n : f[i] = IF i \in C THEN Append(f[i - 1], e[i]) ELSE f[i - 1]
  <2>1. 0 \in 0..n /\ \A i \in 1..n : i \in 0..n /\ i # 0
    OBVIOUS
  <2>2. QED
    BY <2>1 DEF Collects
<1>2. 0 \in N
  <2>1. <<>> \in Seq(S)
    OBVIOUS
  <2>2. ASSUME NEW x PROVE Holds(0, x)
    <3>1. ~Contains(<<>>, x)
      BY DEF Contains
    <3>2. QED
      BY <1>1, <3>1
  <2> HIDE DEF S, Holds
  <2>3. QED
    BY <1>1, <2>1, <2>2
<1>3. ASSUME NEW i \in 1..n, i - 1 \in N PROVE i \in N
  <2>1. i \in Nat /\ i - 1 \in Nat /\ e[i] \in S /\ f[i - 1] \in Seq(S)
    BY <1>3
  <2>2. 1..i = 1..(i - 1) \cup {i}
    BY <2>1
  <2> HIDE DEF S
  <2>3. ASSUME NEW x PROVE Holds(i, x)
    <3>1. Contains(f[i - 1], x) <=> \E k \in 1..(i - 1) : k \in C /\ e[k] = x
      BY <1>3
    <3>2. CASE i \in C
      <4>1. Contains(f[i], x) <=> Contains(f[i - 1], x) \/ x = e[i]
        BY <1>1, <2>1, <3>2, ContainsAppend
      <4>2. QED
        BY <2>2, <3>1, <3>2, <4>1
    <3>3. CASE i \notin C
      BY <1>1, <2>2, <3>1, <3>3
    <3>4. QED
      BY <3>2, <3>3
  <2>4. f[i] \in Seq(S)
    <3>1. Append(f[i - 1], e[i]) \in Seq(S)
      BY <2>1, AppendProperties
    <3>2. QED
      BY <1>1, <2>1, <3>1
  <2>5. QED
    BY <2>1, <2>3, <2>4
<1> HIDE DEF N
<1>4. 0..n \subseteq N
  BY <1>2, <1>3, InductionUpTo
<1>5. n \in N
  BY <1>4
<1>6. QED
  BY <1>5 DEF N, Collected

LEMMA ContainsConcat ==
    ASSUME NEW S, NEW s \in Seq(S), NEW t \in Seq(S), NEW x
    PROVE  Contains(s \o t, x) <=> Contains(s, x) \/ Contains(t, x)
<1> DEFINE m == Len(s)  n == Len(t)  u == s \o t
<1>1. m \in Nat /\ n \in Nat
  BY LenProperties
<1>2. /\ Len(u) = m + n
      /\ \A i \in 1..(m + n) : u[i] = IF i <= m THEN s[i] ELSE t[i - m]
  BY ConcatProperties
<1> HIDE DEF m, n, u
<1>3. ASSUME Contains(u, x) PROVE Contains(s, x) \/ Contains(t, x)
  <2>1. PICK i \in 1..(m + n) : u[i] = x
    BY <1>2, <1>3 DEF Contains
  <2>2. CASE i <= m
    <3>1. i \in 1..m /\ s[i] = x
      BY <1>1, <1>2, <2>1, <2>2
    <3>2. QED
      BY <3>1 DEF Contains, m
  <2>3. CASE ~(i <= m)
    <3>1. i - m \in 1..n /\ t[i - m] = x
      BY <1>1, <1>2, <2>1, <2>3
    <3>2. QED
      BY <3>1 DEF Contains, n
  <2>4. QED
    BY <2>2, <2>3
<1>4. ASSUME Contains(s, x) PROVE Contains(u, x)
  <2>1. PICK i \in 1..m : s[i] = x
    BY <1>4 DEF Contains, m
  <2>2. i \in 1..(m + n) /\ u[i] = x
    BY <1>1, <1>2, <2>1
  <2>3. QED
    BY <1>2, <2>2 DEF Contains
<1>5. ASSUME Contains(t, x) PROVE Contains(u, x)
  <2>1. PICK i \in 1..n : t[i] = x
    BY <1>5 DEF Contains, n
  <2>2. m + i \in 1..(m + n)
    BY <1>1
  <2>3. u[m + i] = x
    <3> DEFINE k == m + i
    <3>1. k \in 1..(m + n) /\ ~(k <= m) /\ k - m = i
      BY <1>1
    <3> HIDE DEF k
    <3>2. u[k] = t[i]
      BY <1>2, <3>1
    <3>3. QED
      BY <2>1, <3>2 DEF k
  <2>4. QED
    BY <1>2, <2>2, <2>3 DEF Contains
<1>6. QED
  BY <1>3, <1>4, <1>5 DEF u

\* The elements of sequences put together are theirs.
LEMMA FlattenElements ==
    ASSUME NEW S, NEW ss \in Seq(Seq(S)), NEW x
    PROVE  Contains(FlattenSeq(ss), x) <=> \E i \in 1..Len(ss) : Contains(ss[i], x)
<1> DEFINE L == Len(ss)
<1>1. L \in Nat /\ \A i \in 1..L : ss[i] \in Seq(S)
  BY LenProperties, ElementOfSeq
<1>2. PICK F : Concatenates(F, ss, S)
  BY ConcatenationExists
<1>3. /\ F[0] = <<>> /\ FlattenSeq(ss) = F[L]
      /\ \A i \in 0..L : F[i] \in Seq(S)
      /\ \A i \in 1..L : F[i] = F[i - 1] \o ss[i]
  BY <1>2, FlattenSteps DEF Concatenates
<1> HIDE DEF L
<1> DEFINE N == {i \in Nat : Contains(F[i], x) <=> \E k \in 1..i : Contains(ss[k], x)}
<1>4. 0 \in N
  <2>1. ~Contains(<<>>, x)
    BY DEF Contains
  <2>2. QED
    BY <1>3, <2>1
<1>5. ASSUME NEW i \in 1..L, i - 1 \in N PROVE i \in N
  <2>1. i \in Nat /\ i - 1 \in 0..L /\ 1..i = 1..(i - 1) \cup {i}
    BY <1>1
  <2>2. Contains(F[i - 1], x) <=> \E k \in 1..(i - 1) : Contains(ss[k], x)
    BY <1>5
  <2>3. F[i - 1] \in Seq(S) /\ ss[i] \in Seq(S) /\ F[i] = F[i - 1] \o ss[i]
    BY <1>1, <1>3, <2>1
  <2>4. Contains(F[i], x) <=> Contains(F[i - 1], x) \/ Contains(ss[i], x)
    BY <2>3, ContainsConcat
  <2>5. QED
    BY <2>1, <2>2, <2>4
<1> HIDE DEF N
<1>6. 0..L \subseteq N
  BY <1>1, <1>4, <1>5, InductionUpTo
<1>7. L \in N
  BY <1>1, <1>6
<1>8. QED
  BY <1>3, <1>7 DEF N, L

\* fetchFilteredData: the numbers of the records that match.
LEMMA FetchMembers ==
    ASSUME NEW filters, NEW n
    PROVE  Contains(FetchFilteredData(filters), n)
             <=> n \in Numbers /\ MatchesFilters(Source[n], filters)
<1> DEFINE L == Len(Source)
           match(i) == MatchesFilters(Source[i], filters)
           C == {i \in 1..L : match(i)}
           e == [i \in 1..L |-> i]
           Fetched(f) == f = [i \in 0..L |->
                                IF i = 0 THEN <<>>
                                ELSE IF match(i) THEN Append(f[i - 1], i) ELSE f[i - 1]]
           G == CHOOSE f : Fetched(f)
<1>1. L \in Nat
  BY VerifierAssumption
<1>2. FetchFilteredData(filters) = G[L]
  BY DEF FetchFilteredData
<1> HIDE DEF match, L
<1>3. ASSUME NEW f PROVE Fetched(f) <=> Collects(f, L, C, e)
  <2>1. \A i \in 0..L : i = 0 \/ (i \in 1..L /\ (match(i) <=> i \in C) /\ e[i] = i)
    <3>1. \A i \in 0..L : i = 0 \/ i \in 1..L
      BY <1>1
    <3>2. \A i \in 1..L : (match(i) <=> i \in C) /\ e[i] = i
      OBVIOUS
    <3>3. QED
      BY <3>1, <3>2
  <2> HIDE DEF C, e
  <2>2. \A i \in 0..L :
          (IF i = 0 THEN <<>> ELSE IF match(i) THEN Append(f[i - 1], i) ELSE f[i - 1])
            = IF i = 0 THEN <<>> ELSE IF i \in C THEN Append(f[i - 1], e[i]) ELSE f[i - 1]
    BY <2>1
  <2>3. QED
    BY <2>2 DEF Collects
<1> HIDE DEF Fetched
<1>4. Collects(G, L, C, e)
  <2> HIDE DEF C, e
  <2>1. PICK F : Collects(F, L, C, e)
    BY <1>1, CollectionExists
  <2>2. Fetched(G)
    BY <1>3, <2>1
  <2>3. QED
    BY <1>3, <2>2
<1>5. \A x : Collected(G[L], L, C, e, x)
  <2> HIDE DEF C, e, G
  <2>1. QED
    BY <1>1, <1>4, CollectionHolds
<1> HIDE DEF G
<1>6. QED
  BY <1>2, <1>5 DEF Collected, Numbers, L, match

\* The parts of a line.
Line(format, n, t) == [k \in 1..(RecordSize[n] + 1) |-> <<format, n, t, k>>]

\* formatData in NDJSON: the lines of the records, each whole.
LEMMA FormatMembers ==
    ASSUME NEW t \in Nat, NEW numbers \in Seq(Numbers), NEW p
    PROVE  Contains(FormatData("ndjson", t, numbers), p)
             <=> \E n : /\ Contains(numbers, n)
                        /\ \E k \in 1..(RecordSize[n] + 1) : p = <<"ndjson", n, t, k>>
<1> DEFINE L == Len(numbers)
           ss == [i \in 1..L |-> Line("ndjson", numbers[i], t)]
<1>1. L \in Nat /\ \A i \in 1..L : numbers[i] \in Numbers
  BY LenProperties, ElementOfSeq
<1>2. FormatData("ndjson", t, numbers) = FlattenSeq(ss)
  BY DEF FormatData, Line
<1>3. ASSUME NEW n \in Numbers
      PROVE  /\ Line("ndjson", n, t) \in Seq(Piece)
             /\ \A x : Contains(Line("ndjson", n, t), x)
                  <=> \E k \in 1..(RecordSize[n] + 1) : x = <<"ndjson", n, t, k>>
  <2> DEFINE m == RecordSize[n] + 1
  <2>1. m \in Nat /\ n \in Nat
    BY VerifierAssumption DEF Numbers
  <2>2. \A k \in 1..m : <<"ndjson", n, t, k>> \in Piece
    BY <2>1 DEF Piece, SupportedFormats
  <2>3. Line("ndjson", n, t) = [k \in 1..m |-> <<"ndjson", n, t, k>>]
    BY DEF Line
  <2> HIDE DEF m
  <2>4. Line("ndjson", n, t) \in Seq(Piece) /\ Len(Line("ndjson", n, t)) = m
    BY <2>1, <2>2, <2>3
  <2>5. QED
    BY <2>3, <2>4 DEF Contains, m
<1>4. ss \in Seq(Seq(Piece)) /\ Len(ss) = L
  BY <1>1, <1>3
<1>5. Contains(FlattenSeq(ss), p) <=> \E i \in 1..L : Contains(ss[i], p)
  <2> HIDE DEF ss, L
  <2>1. QED
    BY <1>4, FlattenElements
<1>6. \A i \in 1..L : Contains(ss[i], p) <=>
        \E k \in 1..(RecordSize[numbers[i]] + 1) : p = <<"ndjson", numbers[i], t, k>>
  BY <1>1, <1>3
<1>7. QED
  <2> HIDE DEF ss
  <2>1. QED
    BY <1>2, <1>5, <1>6 DEF Contains

\* loadNDJSONFile: a record for each line that begins in the file.
LEMMA LoadMembers ==
    ASSUME NEW content, Len(content) \in Nat
    PROVE  /\ LoadNDJSONFile(content) \in
                Seq({Record(content[i][2], content[i][3]) : i \in 1..Len(content)})
           /\ \A r : Contains(LoadNDJSONFile(content), r)
                <=> \E p : /\ Contains(content, p) /\ BeginsRecord(p)
                           /\ r = Record(p[2], p[3])
<1> DEFINE L == Len(content)
           begins(i) == BeginsRecord(content[i])
           C == {i \in 1..L : begins(i)}
           e == [i \in 1..L |-> Record(content[i][2], content[i][3])]
           Loaded(f) == f = [i \in 0..L |->
                               IF i = 0 THEN <<>>
                               ELSE IF begins(i)
                                    THEN Append(f[i - 1], Record(content[i][2], content[i][3]))
                                    ELSE f[i - 1]]
           G == CHOOSE f : Loaded(f)
<1>1. LoadNDJSONFile(content) = G[L]
  BY DEF LoadNDJSONFile
<1>2. L \in Nat
  OBVIOUS
<1> HIDE DEF begins, L
<1>3. ASSUME NEW f PROVE Loaded(f) <=> Collects(f, L, C, e)
  <2>1. \A i \in 0..L : i = 0 \/ ( /\ i \in 1..L /\ (begins(i) <=> i \in C)
                                   /\ e[i] = Record(content[i][2], content[i][3]))
    BY <1>2
  <2> HIDE DEF C, e
  <2>2. \A i \in 0..L :
          (IF i = 0 THEN <<>>
           ELSE IF begins(i) THEN Append(f[i - 1], Record(content[i][2], content[i][3]))
                             ELSE f[i - 1])
            = IF i = 0 THEN <<>> ELSE IF i \in C THEN Append(f[i - 1], e[i]) ELSE f[i - 1]
    BY <2>1
  <2>3. QED
    BY <2>2 DEF Collects
<1> HIDE DEF Loaded
<1>4. Collects(G, L, C, e)
  <2> HIDE DEF C, e
  <2>1. PICK F : Collects(F, L, C, e)
    BY <1>2, CollectionExists
  <2>2. Loaded(G)
    BY <1>3, <2>1
  <2>3. QED
    BY <1>3, <2>2
<1>5. /\ G[L] \in Seq({e[i] : i \in 1..L})
      /\ \A x : Collected(G[L], L, C, e, x)
  <2> HIDE DEF C, e, G
  <2>1. QED
    BY <1>2, <1>4, CollectionHolds
<1> HIDE DEF G
<1>6. {e[i] : i \in 1..L} = {Record(content[i][2], content[i][3]) : i \in 1..L}
  OBVIOUS
<1>7. ASSUME NEW r
      PROVE  (\E i \in 1..L : i \in C /\ e[i] = r)
               <=> \E p : Contains(content, p) /\ BeginsRecord(p) /\ r = Record(p[2], p[3])
  BY DEF Contains, begins, L
<1>8. QED
  BY <1>1, <1>5, <1>6, <1>7 DEF Collected, L

\* The records whose first piece is in the data.
RecordsOf(data) ==
    {Record(p[2], p[3]) : p \in {q \in Piece : Contains(data, q) /\ BeginsRecord(q)}}

\* loadDataFromManifest: wherever the chunks cut the data, the records of all
\* the lines that begin in them.
LEMMA ManifestRecords ==
    ASSUME NEW data \in Seq(Piece), NEW id, NEW dir,
           \A i \in 0..(ChunkCount(data) - 1) : dir[<<id, i>>] = Chunk(data, i)
    PROVE  /\ LoadDataFromManifest(CreateManifest(id, data), dir)
                \in Seq({Record(p[2], p[3]) : p \in Piece})
           /\ \A r : Contains(LoadDataFromManifest(CreateManifest(id, data), dir), r)
                <=> r \in RecordsOf(data)
<1> DEFINE K == ChunkCount(data)
           S == {Record(p[2], p[3]) : p \in Piece}
           M == CreateManifest(id, data)
           ss == [n \in 1..K |-> LoadNDJSONFile(Chunk(data, n - 1))]
<1>1. Len(data) \in Nat /\ K \in Nat
  BY LenProperties, ChunkBounds
<1>2. /\ Len(M.Files) = K
      /\ \A n \in 1..K : M.Files[n].Name = <<id, n - 1>>
  <2>1. M.Files = [n \in 1..K |-> FileInfo(id, data, n - 1)]
    BY DEF CreateManifest
  <2> HIDE DEF M, K
  <2>2. QED
    BY <1>1, <2>1 DEF FileInfo
<1>3. ASSUME NEW n \in 1..K
      PROVE  /\ Chunk(data, n - 1) \in Seq(Piece)
             /\ dir[<<id, n - 1>>] = Chunk(data, n - 1)
  <2>1. n - 1 \in 0..(K - 1)
    BY <1>1
  <2>2. QED
    BY <2>1, ChunkType
<1> HIDE DEF M, K
<1>4. LoadDataFromManifest(M, dir) = FlattenSeq(ss)
  <2>1. \A n \in 1..K : LoadNDJSONFile(dir[M.Files[n].Name]) = LoadNDJSONFile(Chunk(data, n - 1))
    BY <1>2, <1>3
  <2>2. LoadDataFromManifest(M, dir) = FlattenSeq([n \in 1..K |-> LoadNDJSONFile(dir[M.Files[n].Name])])
    BY <1>2 DEF LoadDataFromManifest
  <2>3. [n \in 1..K |-> LoadNDJSONFile(dir[M.Files[n].Name])] = ss
    BY <2>1
  <2>4. QED
    BY <2>2, <2>3
<1>5. ASSUME NEW n \in 1..K
      PROVE  /\ ss[n] \in Seq(S)
             /\ \A r : Contains(ss[n], r)
                  <=> \E p : Contains(Chunk(data, n - 1), p) /\ BeginsRecord(p) /\ r = Record(p[2], p[3])
  <2> DEFINE c == Chunk(data, n - 1)
  <2>1. Len(c) \in Nat /\ \A i \in 1..Len(c) : c[i] \in Piece
    BY <1>3, LenProperties, ElementOfSeq
  <2> HIDE DEF c
  <2> DEFINE T == {Record(c[i][2], c[i][3]) : i \in 1..Len(c)}
  <2>2. T \subseteq S
    BY <2>1
  <2>3. /\ LoadNDJSONFile(c) \in Seq(T)
        /\ \A r : Contains(LoadNDJSONFile(c), r)
             <=> \E p : Contains(c, p) /\ BeginsRecord(p) /\ r = Record(p[2], p[3])
    BY <2>1, LoadMembers
  <2> HIDE DEF T, S
  <2>4. LoadNDJSONFile(c) \in Seq(S)
    BY <2>2, <2>3
  <2>5. ss[n] = LoadNDJSONFile(c)
    BY DEF c
  <2>6. QED
    BY <2>3, <2>4, <2>5 DEF c
<1>6. ss \in Seq(Seq(S)) /\ Len(ss) = K
  <2> HIDE DEF S
  <2>1. \A n \in 1..K : LoadNDJSONFile(Chunk(data, n - 1)) \in Seq(S)
    BY <1>5
  <2>2. QED
    BY <1>1, <2>1
<1>7. ASSUME NEW p
      PROVE  Contains(data, p) <=> \E n \in 1..K : Contains(Chunk(data, n - 1), p)
  <2>1. Chunks(data) = [n \in 1..K |-> Chunk(data, n - 1)]
    BY DEF Chunks, K
  <2>2. Chunks(data) \in Seq(Seq(Piece)) /\ Len(Chunks(data)) = K
    <3>1. \A n \in 1..K : Chunk(data, n - 1) \in Seq(Piece)
      BY <1>3
    <3>2. [n \in 1..K |-> Chunk(data, n - 1)] \in Seq(Seq(Piece))
      BY <1>1, <3>1
    <3>3. QED
      BY <1>1, <2>1, <3>2
  <2>3. FlattenSeq(Chunks(data)) = data
    BY ChunksMakeData
  <2>4. Contains(data, p) <=> \E n \in 1..K : Contains(Chunks(data)[n], p)
    BY <2>2, <2>3, FlattenElements
  <2>5. QED
    BY <2>1, <2>4
<1>8. \A p : Contains(data, p) => p \in Piece
  BY ElementOfSeq DEF Contains
<1> HIDE DEF ss, S
<1>9. ASSUME NEW r
      PROVE  Contains(FlattenSeq(ss), r) <=> r \in RecordsOf(data)
  <2>1. Contains(FlattenSeq(ss), r) <=> \E n \in 1..K : Contains(ss[n], r)
    BY <1>6, FlattenElements
  <2>2. Contains(FlattenSeq(ss), r)
          <=> \E p : Contains(data, p) /\ BeginsRecord(p) /\ r = Record(p[2], p[3])
    BY <1>5, <1>7, <2>1
  <2>3. r \in RecordsOf(data)
          <=> \E p : Contains(data, p) /\ BeginsRecord(p) /\ r = Record(p[2], p[3])
    BY <1>8 DEF RecordsOf
  <2>4. QED
    BY <2>2, <2>3
<1>10. FlattenSeq(ss) \in Seq(S)
  BY <1>6, FlattenType
<1>11. QED
  BY <1>4, <1>9, <1>10 DEF M, S

-----------------------------------------------------------------------------
(* `diff`: the index of the records, and the comparison of two.              *)

\* The data are the records of M, read at time t.
Reads(data, M, t) ==
    \A r : Contains(data, r) <=> \E n \in M : r = Record(n, t)

LEMMA RecordFacts ==
    ASSUME NEW n \in Numbers, NEW t
    PROVE  /\ DOMAIN Record(n, t) = DOMAIN Source[n] \cup {"created_at"}
           /\ \A f \in DOMAIN Source[n] \ {"created_at"} : Record(n, t)[f] = Source[n][f]
           /\ RecordKey(Record(n, t)) = Source[n].id
<1>1. "id" \in DOMAIN Source[n]
  BY VerifierAssumption DEF Numbers
<1>2. /\ DOMAIN Record(n, t) = DOMAIN Source[n] \cup {"created_at"}
      /\ \A f \in DOMAIN Source[n] \ {"created_at"} : Record(n, t)[f] = Source[n][f]
  BY DEF Record
<1>3. "id" \in DOMAIN Record(n, t) /\ Record(n, t).id = Source[n].id
  BY <1>1, <1>2
<1>4. QED
  BY <1>2, <1>3 DEF RecordKey

LEMMA MaxOfNumbers ==
    ASSUME NEW L \in Nat, NEW T, T \subseteq 0..L, T # {}
    PROVE  Max(T) \in T /\ \A y \in T : Max(T) >= y
<1> DEFINE U == {L - i : i \in T}
<1>1. U \subseteq Nat /\ U # {}
  <2>1. \A i \in T : L - i \in Nat
    OBVIOUS
  <2>2. QED
    BY <2>1
<1>2. PICK x \in U : \A y \in U : x <= y
  <2> HIDE DEF U
  <2>1. QED
    BY <1>1, LeastNumber
<1>3. PICK m \in T : x = L - m
  BY <1>2
<1>4. \A i \in T : m >= i
  <2>1. \A i \in T : i \in Int /\ L - m <= L - i
    BY <1>2, <1>3
  <2>2. QED
    BY <2>1
<1>5. QED
  BY <1>3, <1>4 DEF Max

\* The index has the record n under its ID, for every n in M.
Indexes(X, M, t) ==
    /\ DOMAIN X = {Source[n].id : n \in M}
    /\ \A n \in M : X[Source[n].id] = Record(n, t)

\* createRecordIndex keeps each record under its own ID: no two of the source
\* share one.
LEMMA IndexOfRecords ==
    ASSUME NEW M \in SUBSET Numbers, NEW t, NEW S, NEW data \in Seq(S), Reads(data, M, t)
    PROVE  Indexes(CreateRecordIndex(data), M, t)
<1> DEFINE D == DOMAIN data
           At(k) == {i \in D : RecordKey(data[i]) = k}
           X == CreateRecordIndex(data)
<1>0. D = 1..Len(data) /\ Len(data) \in Nat
  BY LenProperties
<1>1. \A i \in D : \E n \in M : data[i] = Record(n, t)
  BY <1>0 DEF Reads, Contains
<1>2. \A n \in M : \E i \in D : data[i] = Record(n, t)
  BY <1>0 DEF Reads, Contains
<1>3. \A n \in M : n \in Numbers /\ RecordKey(Record(n, t)) = Source[n].id
  BY RecordFacts
<1>4. \A m, n \in M : Source[m].id = Source[n].id => m = n
  BY VerifierAssumption DEF Numbers
<1>5. /\ DOMAIN X = {RecordKey(data[i]) : i \in D}
      /\ \A k \in DOMAIN X : X[k] = data[Max(At(k))]
  BY DEF CreateRecordIndex
<1> HIDE DEF X, D
<1>6. DOMAIN X = {Source[n].id : n \in M}
  <2>1. ASSUME NEW k \in {RecordKey(data[i]) : i \in D} PROVE k \in {Source[n].id : n \in M}
    <3>1. PICK i \in D : k = RecordKey(data[i])
      OBVIOUS
    <3>2. PICK n \in M : data[i] = Record(n, t)
      BY <1>1
    <3>3. k = Source[n].id
      BY <1>3, <3>1, <3>2
    <3>4. QED
      BY <3>3
  <2>2. ASSUME NEW n \in M PROVE Source[n].id \in {RecordKey(data[i]) : i \in D}
    <3>1. PICK i \in D : data[i] = Record(n, t)
      BY <1>2
    <3>2. RecordKey(data[i]) = Source[n].id
      BY <1>3, <3>1
    <3>3. QED
      BY <3>2
  <2>3. QED
    BY <1>5, <2>1, <2>2
<1>7. ASSUME NEW n \in M PROVE X[Source[n].id] = Record(n, t)
  <2> DEFINE k == Source[n].id
  <2>1. k \in DOMAIN X
    BY <1>6
  <2>2. PICK i \in D : data[i] = Record(n, t)
    BY <1>2
  <2>3. i \in At(k)
    BY <1>3, <2>2
  <2>4. At(k) \subseteq 0..Len(data) /\ At(k) # {}
    BY <1>0, <2>3
  <2> HIDE DEF At, k
  <2>5. Max(At(k)) \in At(k)
    BY <1>0, <2>4, MaxOfNumbers
  <2>6. Max(At(k)) \in D /\ RecordKey(data[Max(At(k))]) = k
    BY <2>5 DEF At
  <2>7. PICK m \in M : data[Max(At(k))] = Record(m, t)
    BY <1>1, <2>6
  <2>8. Source[m].id = Source[n].id
    BY <1>3, <2>6, <2>7 DEF k
  <2>9. m = n
    BY <1>4, <2>8
  <2>10. QED
    BY <1>5, <2>1, <2>7, <2>9 DEF k
<1>8. QED
  BY <1>6, <1>7 DEF Indexes, X

\* compareRecords finds no difference in two readings of a record.
LEMMA SameButTime ==
    ASSUME NEW n \in Numbers, NEW t, NEW u
    PROVE  CompareRecords(Record(n, t), Record(n, u), {"created_at"}) = {}
<1>1. /\ DOMAIN Record(n, t) = DOMAIN Source[n] \cup {"created_at"}
      /\ DOMAIN Record(n, u) = DOMAIN Source[n] \cup {"created_at"}
      /\ \A f \in DOMAIN Source[n] \ {"created_at"} : Record(n, t)[f] = Record(n, u)[f]
  BY RecordFacts
<1>2. QED
  BY <1>1 DEF CompareRecords

\* What a diff of two sets of IDs that share their records reports.
ExactDiff(result, IDs1, IDs2) ==
    /\ result.Modified = 0
    /\ result.Identical = Cardinality(IDs1 \cap IDs2)
    /\ result.OnlyInFirst = IDs1 \ IDs2
    /\ result.OnlyInSecond = IDs2 \ IDs1

LEMMA ComparedReads ==
    ASSUME NEW M1 \in SUBSET Numbers, NEW t1, NEW S1, NEW data1 \in Seq(S1), Reads(data1, M1, t1),
           NEW M2 \in SUBSET Numbers, NEW t2, NEW S2, NEW data2 \in Seq(S2), Reads(data2, M2, t2),
           NEW IDs1, IDs1 = {Source[n].id : n \in M1},
           NEW IDs2, IDs2 = {Source[n].id : n \in M2}
    PROVE  ExactDiff(CompareExports(data1, data2, {"created_at"}), IDs1, IDs2)
<1> DEFINE X1 == CreateRecordIndex(data1)
           X2 == CreateRecordIndex(data2)
           common == DOMAIN X1 \cap DOMAIN X2
           same == {k \in common : CompareRecords(X1[k], X2[k], {"created_at"}) = {}}
           result == CompareExports(data1, data2, {"created_at"})
<1>1. DOMAIN X1 = IDs1 /\ \A n \in M1 : X1[Source[n].id] = Record(n, t1)
  <2>1. Indexes(X1, M1, t1)
    BY IndexOfRecords
  <2> HIDE DEF X1
  <2>2. QED
    BY <2>1 DEF Indexes
<1>2. DOMAIN X2 = IDs2 /\ \A n \in M2 : X2[Source[n].id] = Record(n, t2)
  <2>1. Indexes(X2, M2, t2)
    BY IndexOfRecords
  <2> HIDE DEF X2
  <2>2. QED
    BY <2>1 DEF Indexes
<1>3. /\ result.Identical = Cardinality(same)
      /\ result.Modified = Cardinality(common \ same)
      /\ result.OnlyInFirst = DOMAIN X1 \ DOMAIN X2
      /\ result.OnlyInSecond = DOMAIN X2 \ DOMAIN X1
  BY DEF CompareExports
<1> HIDE DEF X1, X2, result
<1>4. ASSUME NEW k \in common PROVE CompareRecords(X1[k], X2[k], {"created_at"}) = {}
  <2>1. PICK m \in M1 : k = Source[m].id
    BY <1>1
  <2>2. PICK n \in M2 : k = Source[n].id
    BY <1>2
  <2>3. m = n /\ n \in Numbers
    BY <2>1, <2>2, VerifierAssumption DEF Numbers
  <2>4. X1[k] = Record(n, t1) /\ X2[k] = Record(n, t2)
    BY <1>1, <1>2, <2>1, <2>2, <2>3
  <2>5. QED
    BY <2>3, <2>4, SameButTime
<1>5. same = common
  BY <1>4
<1> HIDE DEF same
<1>6. common = IDs1 \cap IDs2 /\ common \ same = {}
  BY <1>1, <1>2, <1>5
<1> HIDE DEF common
<1>7. Cardinality({}) = 0
  BY FS_EmptySet
<1>8. QED
  BY <1>1, <1>2, <1>3, <1>5, <1>6, <1>7 DEF ExactDiff, result

-----------------------------------------------------------------------------
(* The data of a job at each of its steps: what a diff of completed exports  *)
(* rests on.                                                                 *)

\* The data of a job are those of its request, read at some time.
DataFits(job) ==
    /\ job.at = "format" =>
         \E t \in 0..MaxSecond : job.data = <<t, FetchFilteredData(job.filters)>>
    /\ job.at \in {"store", "manifest", "complete"} \/ job.status = "completed" =>
         /\ job.format \in SupportedFormats
         /\ \E t \in 0..MaxSecond :
             job.data = FormatData(job.format, t, FetchFilteredData(job.filters))
    /\ job.status = "completed" => job.at = "returned"

DataInv == \A j \in JobNumbers : DataFits(exports[j])

\* The jobs u are those there are, up to reports of s.
Restated(u, s) ==
    /\ u \in Seq(Job) /\ Len(u) = Len(exports)
    /\ \A k \in JobNumbers :
         /\ u[k].at = exports[k].at /\ u[k].data = exports[k].data
         /\ u[k].format = exports[k].format /\ u[k].filters = exports[k].filters
         /\ u[k].status \in {exports[k].status, s}

LEMMA ReportRestates ==
    ASSUME ExportInv, NEW id, NEW s \in Statuses
    PROVE  Restated(UpdateJobStatus(id, s), s) /\ Restated(exports, s)
<1> DEFINE m == jobsByID[id]
           v == [exports[m] EXCEPT !.status = s]
           u == UpdateJobStatus(id, s)
<1>0. exports \in Seq(Job) /\ Restated(exports, s)
  BY DEF Restated, ExportInv, JobsTyped
<1>1. CASE id \in DOMAIN jobsByID
  <2>1. m \in 1..Len(exports) /\ exports[m] \in Job
    BY <1>0, <1>1, JobTypes DEF ExportInv, IDsTyped, JobNumbers
  <2>2. /\ v \in Job /\ v.at = exports[m].at /\ v.data = exports[m].data
        /\ v.format = exports[m].format /\ v.filters = exports[m].filters
        /\ v.status = s
    BY <2>1 DEF Job
  <2>3. u = [exports EXCEPT ![m] = v]
    BY <1>1 DEF UpdateJobStatus
  <2> HIDE DEF v, u, m
  <2>4. /\ u \in Seq(Job) /\ Len(u) = Len(exports)
        /\ \A k \in 1..Len(exports) : u[k] = IF k = m THEN v ELSE exports[k]
    BY <1>0, <2>1, <2>2, <2>3, ExceptSeq
  <2>5. QED
    BY <1>0, <2>2, <2>4 DEF Restated, JobNumbers, u
<1>2. CASE id \notin DOMAIN jobsByID
  BY <1>0, <1>2 DEF UpdateJobStatus
<1>3. QED
  BY <1>1, <1>2

\* A step of job j that leaves it as v, besides a report to some job.
LEMMA DataStep ==
    ASSUME DataInv, NEW j \in JobNumbers, NEW s \in {"processing", "failed"},
           NEW u, Restated(u, s), NEW v \in Job, DataFits(v), exports' = [u EXCEPT ![j] = v]
    PROVE  DataInv'
<1>1. /\ Len(exports') = Len(exports)
      /\ \A k \in JobNumbers : exports'[k] = IF k = j THEN v ELSE u[k]
  <2>1. u \in Seq(Job) /\ Len(u) = Len(exports) /\ j \in 1..Len(u)
    BY DEF Restated, JobNumbers
  <2>2. QED
    BY <2>1, ExceptSeq DEF JobNumbers
<1>2. ASSUME NEW k \in JobNumbers PROVE DataFits(u[k])
  BY DEF Restated, DataInv, DataFits
<1>3. \A k \in JobNumbers : DataFits(exports'[k])
  BY <1>1, <1>2
<1>4. JobNumbers' = JobNumbers
  BY <1>1 DEF JobNumbers
<1>5. ASSUME NEW k \in JobNumbers' PROVE DataFits(exports'[k])
  BY <1>3, <1>4
<1>6. QED
  BY <1>5 DEF DataInv

LEMMA ProceedData ==
    ASSUME ExportInv, DataInv, NEW j \in JobNumbers, NEW s \in {"processing", "failed"},
           NEW a \in Steps, Proceed(j, s, a),
           \/ a \in {"fetch", "returned"} /\ exports[j].at # "returned"
           \/ a = "manifest" /\ exports[j].at = "store"
    PROVE  DataInv'
<1> DEFINE u == UpdateJobStatus(exports[j].id, s)
           v == [u[j] EXCEPT !.at = a]
<1>1. exports' = [u EXCEPT ![j] = v]
  BY DEF Proceed
<1>2. Restated(u, s)
  BY ReportRestates DEF Statuses
<1> HIDE DEF u
<1>3. u[j] \in Job
  BY <1>2, LenProperties, ElementOfSeq DEF Restated, JobNumbers
<1>4. /\ v \in Job /\ v.at = a /\ v.data = u[j].data /\ v.status = u[j].status
      /\ v.format = u[j].format /\ v.filters = u[j].filters
  BY <1>3 DEF Job
<1> HIDE DEF v
<1>5. /\ v.data = exports[j].data /\ v.format = exports[j].format
      /\ v.filters = exports[j].filters /\ v.status \in {exports[j].status, s}
  BY <1>2, <1>4 DEF Restated
<1>6. DataFits(exports[j])
  BY DEF DataInv
<1>7. DataFits(v)
  BY <1>4, <1>5, <1>6 DEF DataFits
<1>8. QED
  BY <1>1, <1>2, <1>4, <1>7, DataStep

LEMMA SetData ==
    ASSUME ExportInv, DataInv, NEW j \in JobNumbers, NEW s \in {"processing", "failed"},
           NEW a \in {"format", "store", "returned"}, NEW d \in Seq(Piece) \cup Reading,
           exports' = [UpdateJobStatus(exports[j].id, s) EXCEPT ![j].at = a, ![j].data = d],
           exports[j].at # "returned",
           a = "format" =>
             \E t \in 0..MaxSecond : d = <<t, FetchFilteredData(exports[j].filters)>>,
           a = "store" =>
             /\ exports[j].format \in SupportedFormats
             /\ \E t \in 0..MaxSecond :
                 d = FormatData(exports[j].format, t, FetchFilteredData(exports[j].filters))
    PROVE  DataInv'
<1> DEFINE u == UpdateJobStatus(exports[j].id, s)
<1>1. Restated(u, s)
  BY ReportRestates DEF Statuses
<1>2. exports' = [u EXCEPT ![j].at = a, ![j].data = d]
  OBVIOUS
<1> HIDE DEF u
<1>3. u \in Seq(Job) /\ j \in 1..Len(u) /\ a \in Steps
  BY <1>1 DEF Restated, JobNumbers, Steps
<1> DEFINE w == [u[j] EXCEPT !.at = a]
           v == [w EXCEPT !.data = d]
<1>4. u[j] \in Job
  BY <1>3, LenProperties, ElementOfSeq
<1>5. exports' = [u EXCEPT ![j] = v]
  BY <1>2, <1>3
<1>6. /\ w \in Job /\ w.at = a /\ w.status = u[j].status
       /\ w.format = u[j].format /\ w.filters = u[j].filters
  BY <1>3, <1>4 DEF Job
<1> HIDE DEF w
<1>7. /\ v \in Job /\ v.at = a /\ v.data = d /\ v.status = u[j].status
      /\ v.format = u[j].format /\ v.filters = u[j].filters
  BY <1>6 DEF Job
<1> HIDE DEF v
<1>8. /\ v.format = exports[j].format /\ v.filters = exports[j].filters
      /\ v.status \in {exports[j].status, s}
  BY <1>1, <1>7 DEF Restated
<1>9. v.status # "completed"
  BY <1>8 DEF DataInv, DataFits
<1>10. DataFits(v)
  BY <1>7, <1>8, <1>9 DEF DataFits
<1>11. QED
  BY <1>1, <1>7, <1>10, <1>5, DataStep

LEMMA FetchData ==
    ASSUME ExportInv, DataInv, NEW j \in JobNumbers, Fetch(j)
    PROVE  DataInv'
<1> DEFINE d == <<second, FetchFilteredData(exports[j].filters)>>
<1>1. /\ exports[j].at = "fetch"
      /\ exports' = [UpdateJobStatus(exports[j].id, "processing") EXCEPT
                       ![j].at = "format", ![j].data = d]
  BY DEF Fetch
<1>2. second \in 0..MaxSecond
  BY DEF ExportInv, JobsTyped
<1>3. d \in Reading
  <2>1. second \in Nat
    BY <1>2
  <2>2. FetchFilteredData(exports[j].filters) \in Seq(Numbers)
    BY FetchType
  <2>3. QED
    BY <2>1, <2>2 DEF Reading
<1>4. \E t \in 0..MaxSecond : d = <<t, FetchFilteredData(exports[j].filters)>>
  BY <1>2
<1> HIDE DEF d
<1>5. QED
  BY <1>1, <1>3, <1>4, SetData

LEMMA FormatsData ==
    ASSUME ExportInv, DataInv, NEW j \in JobNumbers, Format(j)
    PROVE  DataInv'
<1> DEFINE u == UpdateJobStatus(exports[j].id, "processing")
           e == exports[j].data
           numbers == FetchFilteredData(exports[j].filters)
<1>1. exports[j].at = "format"
  BY DEF Format
<1>2. CASE exports[j].format \notin SupportedFormats
  <2>1. exports' = [UpdateJobStatus(exports[j].id, "failed") EXCEPT
                      ![j].at = "returned", ![j].data = <<>>]
    BY <1>2 DEF Format
  <2>2. <<>> \in Seq(Piece)
    OBVIOUS
  <2>3. QED
    BY <1>1, <2>1, <2>2, SetData
<1>3. CASE exports[j].format \in SupportedFormats
  <2>1. PICK t \in 0..MaxSecond : e = <<t, numbers>>
    BY <1>1 DEF DataInv, DataFits
  <2>2. t \in Nat /\ numbers \in Seq(Numbers)
    BY FetchType
  <2> DEFINE d == FormatData(exports[j].format, t, numbers)
  <2>3. d \in Seq(Piece)
    BY <1>3, <2>2, FormatType
  <2>4. u \in Seq(Job) /\ j \in 1..Len(u) /\ u[j].data = e
    BY ReportRestates DEF Statuses, Restated, JobNumbers
  <2>5. exports' = [u EXCEPT ![j].at = "store",
                             ![j].data = FormatData(exports[j].format, @[1], @[2])]
    BY <1>3 DEF Format
  <2>6. u[j] \in Job
    BY <2>4, LenProperties, ElementOfSeq
  <2>7. e[1] = t /\ e[2] = numbers
    <3> HIDE DEF e, numbers
    <3>1. QED
      BY <2>1
  <2>8. exports' = [u EXCEPT ![j].at = "store", ![j].data = d]
    <3> HIDE DEF u, e, numbers
    <3>1. QED
      BY <2>4, <2>5, <2>6, <2>7 DEF Job
  <2>9. \E z \in 0..MaxSecond : d = FormatData(exports[j].format, z, numbers)
    OBVIOUS
  <2> HIDE DEF d
  <2>10. QED
    BY <1>1, <1>3, <2>3, <2>8, <2>9, SetData
<1>4. QED
  BY <1>2, <1>3

LEMMA OwnStep ==
    ASSUME ExportInv, DataInv, NEW j \in JobNumbers, NEW v \in Job,
           exports' = [exports EXCEPT ![j] = v], DataFits(v)
    PROVE  DataInv'
BY ReportRestates, DataStep DEF Statuses

LEMMA StoreData ==
    ASSUME ExportInv, DataInv, NEW j \in JobNumbers,
           StoreChunk(j) \/ ChunksStored(j) \/ StoreManifest(j)
    PROVE  DataInv'
<1>1. exports[j] \in Job /\ DataFits(exports[j])
  BY JobFacts DEF DataInv
<1>2. /\ exports[j].at \in {"store", "manifest"}
      /\ \/ Proceed(j, "failed", "returned")
         \/ exports[j].at = "store" /\ Proceed(j, "processing", "manifest")
         \/ exports' = [exports EXCEPT ![j].stored = @ + 1]
         \/ exports[j].at = "manifest" /\ exports' = [exports EXCEPT ![j].at = "complete"]
  BY DEF StoreChunk, ChunksStored, StoreManifest
<1>3. CASE Proceed(j, "failed", "returned")
  BY <1>2, <1>3, Names, ProceedData
<1>4. CASE exports[j].at = "store" /\ Proceed(j, "processing", "manifest")
  BY <1>4, Names, ProceedData
<1>5. CASE exports' = [exports EXCEPT ![j].stored = @ + 1]
  <2> DEFINE v == [exports[j] EXCEPT !.stored = @ + 1]
  <2>1. /\ v \in Job /\ v.at = exports[j].at /\ v.data = exports[j].data
        /\ v.format = exports[j].format /\ v.filters = exports[j].filters
        /\ v.status = exports[j].status
    BY <1>1 DEF Job
  <2>2. exports' = [exports EXCEPT ![j] = v]
    BY <1>5
  <2> HIDE DEF v
  <2>3. DataFits(v)
    BY <1>1, <2>1 DEF DataFits
  <2>4. QED
    BY <2>1, <2>2, <2>3, OwnStep
<1>6. CASE exports[j].at = "manifest" /\ exports' = [exports EXCEPT ![j].at = "complete"]
  <2> DEFINE v == [exports[j] EXCEPT !.at = "complete"]
  <2>1. /\ v \in Job /\ v.at = "complete" /\ v.data = exports[j].data
        /\ v.format = exports[j].format /\ v.filters = exports[j].filters
        /\ v.status = exports[j].status
    BY <1>1 DEF Job, Steps
  <2>2. exports' = [exports EXCEPT ![j] = v]
    BY <1>6
  <2> HIDE DEF v
  <2>3. DataFits(v)
    BY <1>1, <1>6, <2>1 DEF DataFits
  <2>4. QED
    BY <2>1, <2>2, <2>3, OwnStep
<1>7. QED
  BY <1>2, <1>3, <1>4, <1>5, <1>6

LEMMA CompletesData ==
    ASSUME ExportInv, DataInv, NEW j \in JobNumbers, Complete(j)
    PROVE  DataInv'
<1> DEFINE u == [exports[j] EXCEPT !.at = "returned"]
           w == [u EXCEPT !.status = "completed"]
           v == [w EXCEPT !.ManifestURL = TRUE]
<1>1. exports[j].at = "complete" /\ exports[j] \in Job /\ DataFits(exports[j])
  BY JobFacts DEF Complete, DataInv
<1>2. exports \in Seq(Job) /\ j \in DOMAIN exports
  BY LenProperties DEF ExportInv, JobsTyped, JobNumbers
<1>3. exports' = [exports EXCEPT ![j] = v]
  BY <1>1, <1>2 DEF Complete, Job
<1>4. /\ u \in Job /\ u.at = "returned" /\ u.data = exports[j].data
      /\ u.format = exports[j].format /\ u.filters = exports[j].filters
  BY <1>1 DEF Job, Steps
<1> HIDE DEF u
<1>5. /\ w \in Job /\ w.at = "returned" /\ w.data = exports[j].data
      /\ w.format = exports[j].format /\ w.filters = exports[j].filters
  BY <1>4 DEF Job, Statuses
<1> HIDE DEF w
<1>6. /\ v \in Job /\ v.at = "returned" /\ v.data = exports[j].data
      /\ v.format = exports[j].format /\ v.filters = exports[j].filters
  BY <1>5 DEF Job
<1> HIDE DEF v
<1>7. DataFits(v)
  BY <1>1, <1>6 DEF DataFits
<1>8. QED
  BY <1>3, <1>6, <1>7, OwnStep

LEMMA JobData ==
    ASSUME ExportInv, DataInv, NEW j \in JobNumbers, ProcessExportJob(j)
    PROVE  DataInv'
<1>1. CASE Begin(j)
  BY <1>1, Names, ProceedData DEF Begin
<1>2. QED
  BY <1>1, FetchData, FormatsData, StoreData, CompletesData DEF ProcessExportJob

LEMMA CreatesData ==
    ASSUME ExportInv, DataInv, NEW r \in Requests, CreateExportJob(r)
    PROVE  DataInv'
<1> DEFINE L == Len(exports)
           job == [id |-> GenerateJobID, UserID |-> r.user,
                   format |-> RequestedFormat(r), filters |-> r.filters,
                   status |-> "pending", ManifestURL |-> FALSE, at |-> "start",
                   data |-> <<>>, stored |-> 0]
<1>1. exports' = Append(exports, job)
  BY DEF CreateExportJob, GenerateJobID
<1>2. exports \in Seq(Job) /\ L \in Nat /\ second \in 0..MaxSecond
  BY LenProperties DEF ExportInv, JobsTyped
<1>3. job \in Job
  <2>1. <<>> \in Seq(Piece) /\ "pending" \in Statuses /\ "start" \in Steps
    BY DEF Statuses, Steps
  <2>2. QED
    BY <1>2, <2>1 DEF Job, GenerateJobID
<1>4. DataFits(job)
  BY DEF DataFits
<1> HIDE DEF job
<1>5. /\ Len(exports') = L + 1 /\ exports'[L + 1] = job
      /\ \A k \in 1..L : exports'[k] = exports[k]
  BY <1>1, <1>2, <1>3, AppendProperties
<1>6. JobNumbers = 1..L /\ JobNumbers' = 1..(L + 1)
  BY <1>5 DEF JobNumbers
<1> HIDE DEF L
<1>7. ASSUME NEW k \in JobNumbers' PROVE DataFits(exports'[k])
  <2>1. k \in JobNumbers \/ k = L + 1
    BY <1>2, <1>6
  <2>2. QED
    BY <1>4, <1>5, <1>6, <2>1 DEF DataInv
<1>8. QED
  BY <1>7 DEF DataInv

LEMMA RestartData ==
    ASSUME ExportInv, DataInv, RestartController
    PROVE  DataInv'
<1> DEFINE After(j) == IF exports[j].at = "returned" THEN exports[j]
                       ELSE [exports[j] EXCEPT !.at = "killed"]
<1>1. exports' = [j \in 1..Len(exports) |-> After(j)]
  BY DEF RestartController, JobNumbers
<1>2. Len(exports) \in Nat
  BY JobTypes DEF ExportInv, JobsTyped
<1>3. ASSUME NEW j \in JobNumbers PROVE DataFits(After(j))
  <2>1. exports[j] \in Job /\ DataFits(exports[j])
    BY JobFacts DEF DataInv
  <2>2. CASE exports[j].at = "returned"
    BY <2>1, <2>2
  <2>3. CASE exports[j].at # "returned"
    <3> DEFINE v == [exports[j] EXCEPT !.at = "killed"]
    <3>1. v.at = "killed" /\ v.status = exports[j].status
      BY <2>1 DEF Job
    <3> HIDE DEF v
    <3>2. DataFits(v)
      BY <2>1, <2>3, <3>1 DEF DataFits
    <3>3. QED
      BY <2>3, <3>2 DEF v
  <2>4. QED
    BY <2>2, <2>3
<1> HIDE DEF After
<1>4. JobNumbers' = JobNumbers /\ \A j \in JobNumbers : exports'[j] = After(j)
  BY <1>1, <1>2 DEF JobNumbers
<1>5. ASSUME NEW j \in JobNumbers' PROVE DataFits(exports'[j])
  BY <1>3, <1>4
<1>6. QED
  BY <1>5 DEF DataInv

\* Every step keeps what the data of the jobs are.
LEMMA DataKept ==
    ASSUME ExportInv, DataInv, [ExportsNext]_exportVars
    PROVE  DataInv'
<1>1. ASSUME UNCHANGED exports PROVE DataInv'
  <2>1. JobNumbers' = JobNumbers
    BY <1>1 DEF JobNumbers
  <2>2. ASSUME NEW j \in JobNumbers' PROVE DataFits(exports'[j])
    BY <1>1, <2>1 DEF DataInv
  <2>3. QED
    BY <2>2 DEF DataInv
<1>2. \/ \E r \in Requests : CreateExportJob(r)
      \/ \E j \in JobNumbers : ProcessExportJob(j)
      \/ UNCHANGED exports
      \/ RestartController
  BY DEF ExportsNext, exportVars, StartDownload, Resume, EndDownload, SecondPasses
<1>3. QED
  BY <1>1, <1>2, CreatesData, JobData, RestartData

LEMMA DataInvariant == ExportSpec => []ExportInv /\ []DataInv
<1>1. ExportsInit => DataInv
  BY DEF ExportsInit, DataInv, JobNumbers
<1>2. ExportInv /\ DataInv /\ [ExportsNext]_exportVars => DataInv'
  BY DataKept
<1>3. ExportSpec => []ExportInv
  BY ExportInvariant, PTL
<1>4. QED
  BY <1>1, <1>2, <1>3, PTL DEF ExportSpec

Selected(filters) == {r \in 1..Len(Source) : MatchesFilters(Source[r], filters)}

Loaded(n) == LoadDataFromManifest(manifests[exports[n].id], chunkFiles)

\* The records of an export are those its filters let through.
LEMMA RecordsOfFormat ==
    ASSUME NEW t \in Nat, NEW filters, NEW r
    PROVE  r \in RecordsOf(FormatData("ndjson", t, FetchFilteredData(filters)))
             <=> \E n \in Selected(filters) : r = Record(n, t)
<1> DEFINE numbers == FetchFilteredData(filters)
           data == FormatData("ndjson", t, numbers)
<1>1. \A n : Contains(numbers, n) <=> n \in Selected(filters)
  BY FetchMembers DEF Selected, Numbers
<1>2. \A p : Contains(data, p)
        <=> \E n : /\ Contains(numbers, n)
                   /\ \E k \in 1..(RecordSize[n] + 1) : p = <<"ndjson", n, t, k>>
  BY FetchType, FormatMembers
<1> HIDE DEF data, numbers
<1>3. ASSUME r \in RecordsOf(data) PROVE \E n \in Selected(filters) : r = Record(n, t)
  <2>1. PICK p \in Piece : Contains(data, p) /\ r = Record(p[2], p[3])
    BY <1>3 DEF RecordsOf
  <2>2. PICK n : /\ Contains(numbers, n)
                 /\ \E k \in 1..(RecordSize[n] + 1) : p = <<"ndjson", n, t, k>>
    BY <1>2, <2>1
  <2>3. p[2] = n /\ p[3] = t
    BY <2>2
  <2>4. QED
    BY <1>1, <2>1, <2>2, <2>3
<1>4. ASSUME NEW n \in Selected(filters), r = Record(n, t) PROVE r \in RecordsOf(data)
  <2> DEFINE p == <<"ndjson", n, t, 1>>
  <2>1. n \in Nat /\ 1 \in 1..(RecordSize[n] + 1)
    BY VerifierAssumption DEF Selected
  <2>2. Contains(data, p)
    BY <1>1, <1>2, <2>1
  <2>3. p \in Piece /\ p[2] = n /\ p[3] = t /\ p[4] = 1
    BY <2>1 DEF Piece, SupportedFormats
  <2> HIDE DEF p
  <2>4. BeginsRecord(p)
    BY <2>3 DEF BeginsRecord
  <2>5. p \in {q \in Piece : Contains(data, q) /\ BeginsRecord(q)} /\ r = Record(p[2], p[3])
    BY <1>4, <2>2, <2>3, <2>4
  <2>6. QED
    BY <2>5 DEF RecordsOf
<1>5. QED
  BY <1>3, <1>4 DEF data, numbers

\* Every piece but the first of a line has the one before it in front of it,
\* and every piece of text the next one behind it.
WholeLines(s) ==
    \A p \in 1..Len(s) :
        /\ s[p][2] \in 0..Len(Source) /\ s[p][4] \in 1..(RecordSize[s[p][2]] + 1)
        /\ ~BeginsRecord(s[p]) =>
             p > 1 /\ s[p - 1][2] = s[p][2] /\ s[p - 1][4] = s[p][4] - 1
        /\ IsText(s[p]) =>
             p < Len(s) /\ s[p + 1][2] = s[p][2] /\ s[p + 1][4] = s[p][4] + 1

LEMMA LineIsWhole ==
    ASSUME NEW format \in SupportedFormats, NEW n \in 0..Len(Source), NEW t \in Nat
    PROVE  Line(format, n, t) \in Seq(Piece) /\ WholeLines(Line(format, n, t))
<1> DEFINE m == RecordSize[n] + 1
           line == [k \in 1..m |-> <<format, n, t, k>>]
<1>1. n \in Nat /\ RecordSize[n] \in Nat \ {0}
  BY VerifierAssumption
<1>2. Line(format, n, t) = line
  BY DEF Line
<1>3. \A k \in 1..m : <<format, n, t, k>> \in Piece
  BY <1>1 DEF Piece
<1>4. line \in Seq(Piece) /\ Len(line) = m
  BY <1>1, <1>3
<1>5. \A k \in 1..m : line[k][2] = n /\ line[k][4] = k
  OBVIOUS
<1> HIDE DEF line
<1>6. ASSUME NEW p \in 1..m
      PROVE  /\ line[p][2] = n /\ line[p][4] = p
             /\ p # 1 => p > 1 /\ line[p - 1][2] = n /\ line[p - 1][4] = p - 1
             /\ p <= RecordSize[n] =>
                  p < m /\ line[p + 1][2] = n /\ line[p + 1][4] = p + 1
  <2>1. (p # 1 => p > 1 /\ p - 1 \in 1..m) /\ (p <= RecordSize[n] => p < m /\ p + 1 \in 1..m)
    BY <1>1
  <2> HIDE DEF m
  <2>2. QED
    BY <1>5, <2>1
<1>7. ASSUME NEW p \in 1..m
      PROVE  /\ line[p][2] \in 0..Len(Source)
             /\ line[p][4] \in 1..(RecordSize[line[p][2]] + 1)
             /\ ~BeginsRecord(line[p]) =>
                  /\ p > 1 /\ line[p - 1][2] = line[p][2]
                  /\ line[p - 1][4] = line[p][4] - 1
             /\ IsText(line[p]) =>
                  /\ p < m /\ line[p + 1][2] = line[p][2]
                  /\ line[p + 1][4] = line[p][4] + 1
  <2>1. line[p][2] = n /\ line[p][4] = p
    BY <1>6
  <2>2. p \in 1..(RecordSize[n] + 1)
    OBVIOUS
  <2>3. /\ ~BeginsRecord(line[p]) => p # 1
        /\ IsText(line[p]) => p <= RecordSize[n]
    BY <2>1 DEF BeginsRecord, IsText
  <2> HIDE DEF m
  <2>4. QED
    BY <1>6, <2>1, <2>2, <2>3
<1>8. QED
  BY <1>2, <1>4, <1>7 DEF WholeLines

LEMMA WholeConcat ==
    ASSUME NEW S, NEW s \in Seq(S), NEW t \in Seq(S), WholeLines(s), WholeLines(t)
    PROVE  WholeLines(s \o t)
<1> DEFINE m == Len(s)  n == Len(t)  u == s \o t
<1>1. m \in Nat /\ n \in Nat
  BY LenProperties
<1>2. /\ Len(u) = m + n
      /\ \A i \in 1..(m + n) : u[i] = IF i <= m THEN s[i] ELSE t[i - m]
  BY ConcatProperties
<1> HIDE DEF u
<1>3. ASSUME NEW p \in 1..(m + n)
      PROVE  /\ u[p][2] \in 0..Len(Source) /\ u[p][4] \in 1..(RecordSize[u[p][2]] + 1)
             /\ ~BeginsRecord(u[p]) =>
                  p > 1 /\ u[p - 1][2] = u[p][2] /\ u[p - 1][4] = u[p][4] - 1
             /\ IsText(u[p]) =>
                  p < m + n /\ u[p + 1][2] = u[p][2] /\ u[p + 1][4] = u[p][4] + 1
  <2>1. CASE p <= m
    <3>1. p \in 1..m /\ u[p] = s[p]
      BY <1>1, <1>2, <2>1
    <3>2. p > 1 => u[p - 1] = s[p - 1]
      BY <1>1, <1>2, <3>1
    <3>3. p < m => p < m + n /\ u[p + 1] = s[p + 1]
      BY <1>1, <1>2, <3>1
    <3>4. QED
      BY <1>1, <3>1, <3>2, <3>3 DEF WholeLines
  <2>2. CASE p > m
    <3> DEFINE q == p - m
    <3>1. q \in 1..n /\ u[p] = t[q]
      BY <1>1, <1>2, <2>2
    <3>2. q > 1 => p > 1 /\ u[p - 1] = t[q - 1]
      <4>1. q > 1 => p - 1 \in 1..(m + n) /\ p - 1 > m /\ p - 1 - m = q - 1
        BY <1>1, <2>2
      <4>2. QED
        BY <1>1, <1>2, <4>1
    <3>3. q < n => p < m + n /\ u[p + 1] = t[q + 1]
      <4>1. q < n => p + 1 \in 1..(m + n) /\ p + 1 > m /\ p + 1 - m = q + 1
        BY <1>1, <2>2
      <4>2. QED
        BY <1>1, <1>2, <4>1
    <3> HIDE DEF q
    <3>4. /\ t[q][2] \in 0..Len(Source) /\ t[q][4] \in 1..(RecordSize[t[q][2]] + 1)
          /\ ~BeginsRecord(t[q]) =>
               q > 1 /\ t[q - 1][2] = t[q][2] /\ t[q - 1][4] = t[q][4] - 1
          /\ IsText(t[q]) =>
               q < n /\ t[q + 1][2] = t[q][2] /\ t[q + 1][4] = t[q][4] + 1
      BY <3>1 DEF WholeLines
    <3>5. QED
      BY <3>1, <3>2, <3>3, <3>4
  <2>3. QED
    BY <1>1, <2>1, <2>2
<1>4. QED
  BY <1>2, <1>3 DEF WholeLines, u

LEMMA WholeFlatten ==
    ASSUME NEW S, NEW ss \in Seq(Seq(S)), \A i \in 1..Len(ss) : WholeLines(ss[i])
    PROVE  WholeLines(FlattenSeq(ss))
<1> DEFINE L == Len(ss)
<1>1. L \in Nat /\ \A i \in 1..L : ss[i] \in Seq(S)
  BY LenProperties, ElementOfSeq
<1>2. PICK F : Concatenates(F, ss, S)
  BY ConcatenationExists
<1>3. /\ F[0] = <<>> /\ FlattenSeq(ss) = F[L]
      /\ \A i \in 0..L : F[i] \in Seq(S)
      /\ \A i \in 1..L : F[i] = F[i - 1] \o ss[i]
  BY <1>2, FlattenSteps DEF Concatenates
<1>4. \A i \in 1..L : WholeLines(ss[i])
  OBVIOUS
<1> HIDE DEF L
<1> DEFINE N == {i \in Nat : WholeLines(F[i])}
<1>5. 0 \in N
  <2>1. WholeLines(<<>>)
    BY DEF WholeLines
  <2>2. QED
    BY <1>3, <2>1
<1>6. ASSUME NEW i \in 1..L, i - 1 \in N PROVE i \in N
  <2>1. i \in Nat /\ i - 1 \in 0..L
    BY <1>1
  <2>2. WholeLines(F[i - 1] \o ss[i])
    BY <1>1, <1>3, <1>4, <1>6, <2>1, WholeConcat
  <2>3. QED
    BY <1>3, <2>1, <2>2
<1> HIDE DEF N
<1>7. 0..L \subseteq N
  BY <1>1, <1>5, <1>6, InductionUpTo
<1>8. L \in N
  BY <1>1, <1>7
<1>9. QED
  BY <1>3, <1>8 DEF N

\* formatData prints whole lines, in every format.
LEMMA FormatIsWhole ==
    ASSUME NEW format \in SupportedFormats, NEW t \in Nat, NEW numbers \in Seq(Numbers)
    PROVE  WholeLines(FormatData(format, t, numbers))
<1> DEFINE L == Len(numbers)
           ss == [i \in 1..L |-> Line(format, numbers[i], t)]
           rows == FlattenSeq(ss)
           head == Line(format, 0, t)
<1>1. L \in Nat /\ \A i \in 1..L : numbers[i] \in Numbers
  BY LenProperties, ElementOfSeq
<1>2. Len(Source) \in Nat /\ Numbers \subseteq 0..Len(Source)
  BY VerifierAssumption DEF Numbers
<1>3. \A i \in 1..L : /\ Line(format, numbers[i], t) \in Seq(Piece)
                       /\ WholeLines(Line(format, numbers[i], t))
  BY <1>1, <1>2, LineIsWhole
<1>4. head \in Seq(Piece) /\ WholeLines(head)
  BY <1>2, LineIsWhole
<1>5. ss \in Seq(Seq(Piece)) /\ Len(ss) = L /\ \A i \in 1..L : WholeLines(ss[i])
  BY <1>1, <1>3
<1>6. FormatData(format, t, numbers) \in {<<>>, rows, head \o rows}
  BY DEF FormatData, Line, SupportedFormats
<1> HIDE DEF ss, head
<1>7. rows \in Seq(Piece) /\ WholeLines(rows)
  BY <1>5, FlattenType, WholeFlatten
<1>8. WholeLines(<<>>)
  BY DEF WholeLines
<1> HIDE DEF rows
<1>9. WholeLines(head \o rows)
  BY <1>4, <1>7, WholeConcat
<1>10. QED
  BY <1>6, <1>7, <1>8, <1>9

\* Where the chunks end, but for the last one.
Ends(data) == {i * ChunkSize : i \in 1..(ChunkCount(data) - 1)}

LEMMA EndOfChunk ==
    ASSUME NEW data, Len(data) \in Nat, NEW i \in 0..(ChunkCount(data) - 1),
           NEW p \in (i * ChunkSize + 1)..Until(data, i + 1)
    PROVE  /\ i * ChunkSize \in Nat /\ Until(data, i + 1) \in Nat
           /\ Until(data, i + 1) <= Len(data)
           /\ i # 0 => i * ChunkSize \in Ends(data)
           /\ p \in Ends(data) <=> p = Until(data, i + 1) /\ p < Len(data)
<1> DEFINE K == ChunkCount(data)  c == ChunkSize  L == Len(data)
<1>1. K \in Nat /\ K * c >= L /\ L \in Nat /\ c \in Nat \ {0}
  BY ChunkBounds, ExportsAssumption
<1>2. i \in Nat /\ i + 1 \in Nat /\ i + 1 <= K
  BY <1>1
<1>3. /\ i * c \in Nat /\ (i + 1) * c = i * c + c
      /\ \A j \in Nat : j <= i => j * c <= i * c
      /\ \A j \in Nat : i + 1 <= j => (i + 1) * c <= j * c
      /\ K * c \in Nat
  BY <1>1, <1>2, Products
<1>4. Until(data, i + 1) = IF (i + 1) * c > L THEN L ELSE (i + 1) * c
  BY DEF Until
<1>5. i # 0 => i * c \in Ends(data)
  BY <1>1, <1>2 DEF Ends
<1> HIDE DEF K, c, L
<1>6. p \in Nat /\ i * c < p /\ p <= (i + 1) * c /\ p <= L
  <2>1. p \in (i * c + 1)..Until(data, i + 1)
    BY DEF c
  <2> HIDE DEF Until
  <2>2. QED
    BY <1>1, <1>3, <1>4, <2>1
<1>7. ASSUME p \in Ends(data) PROVE p = Until(data, i + 1) /\ p < L
  <2>1. PICK j \in 1..(K - 1) : p = j * c
    BY <1>7 DEF Ends, K, c
  <2>2. j \in Nat /\ j + 1 \in Nat /\ j <= K - 1
    BY <1>1, <2>1
  <2>3. ~(j <= i)
    BY <1>1, <1>3, <1>6, <2>1, <2>2
  <2>4. i + 1 <= j
    BY <1>2, <2>2, <2>3
  <2>5. p = (i + 1) * c
    BY <1>1, <1>3, <1>6, <2>1, <2>2, <2>4
  <2>6. p < L
    <3>1. j \in 0..(K - 1)
      BY <2>2
    <3>2. QED
      BY <2>1, <3>1, ChunkBounds DEF K, L, c
  <2>7. QED
    BY <1>1, <1>3, <1>4, <2>5, <2>6
<1>8. ASSUME p = Until(data, i + 1), p < L PROVE p \in Ends(data)
  <2>1. p = (i + 1) * c /\ (i + 1) * c < L
    BY <1>1, <1>3, <1>4, <1>8
  <2>2. i + 1 # K
    BY <1>1, <1>2, <1>3, <2>1
  <2>3. i + 1 \in 1..(K - 1)
    BY <1>1, <1>2, <2>2
  <2>4. QED
    BY <2>1, <2>3 DEF Ends, K, c
<1>9. Until(data, i + 1) \in Nat /\ Until(data, i + 1) <= L
  BY <1>1, <1>3, <1>4
<1>10. QED
  BY <1>3, <1>5, <1>7, <1>8, <1>9 DEF c, L

\* What a piece of text at place p must be for `diff` to load it.
ReadsAt(data, p) ==
    IsText(data[p]) =>
        data[p][1] = "ndjson" /\ (p \in Ends(data) => EndsRecord(data[p]))

\* A chunk is loaded exactly when its text is NDJSON and ends with a record: it
\* then begins with one too, since the chunk before ends with one.
LEMMA ChunkLoads ==
    ASSUME NEW data \in Seq(Piece), WholeLines(data), NEW i \in 0..(ChunkCount(data) - 1),
           i # 0 => ReadsAt(data, i * ChunkSize)
    PROVE  Loads(Chunk(data, i)) <=>
             \A p \in (i * ChunkSize + 1)..Until(data, i + 1) : ReadsAt(data, p)
<1> DEFINE m == i * ChunkSize
           u == Until(data, i + 1)
           L == Len(data)
           c == Chunk(data, i)
           text == {q \in 1..Len(c) : IsText(c[q])}
<1>1. L \in Nat /\ m \in Nat /\ u \in Nat /\ m <= u /\ u <= L
  BY ChunkType, LenProperties
<1>2. Len(c) = u - m /\ \A q \in 1..(u - m) : c[q] = data[m + q]
  <2>1. c = SubSeq(data, m + 1, u)
    BY ChunkType
  <2>2. \A q \in (m + 1)..u : data[q] \in Piece
    BY <1>1, ElementOfSeq
  <2> HIDE DEF c, m, u, L
  <2>3. QED
    BY <1>1, <2>1, <2>2, SubSeqProperties
<1>3. /\ \A p \in (m + 1)..u : p \in Ends(data) <=> p = u /\ p < L
      /\ i # 0 => m \in Ends(data)
  <2>1. \A p \in (m + 1)..u : p \in Ends(data) <=> p = u /\ p < L
    BY EndOfChunk, LenProperties
  <2>2. i # 0 => m \in Ends(data)
    <3>1. Len(data) \in Nat
      BY LenProperties
    <3>2. ChunkCount(data) \in Nat
      BY <3>1, ChunkBounds
    <3>3. i # 0 => i \in 1..(ChunkCount(data) - 1)
      BY <3>2
    <3>4. QED
      BY <3>3 DEF Ends
  <2>3. QED
    BY <2>1, <2>2
<1>4. i = 0 => m = 0
  BY ExportsAssumption
<1>5. i # 0 => ReadsAt(data, m)
  OBVIOUS
<1>6. Loads(c) <=> (text # {} => /\ \A q \in text : c[q][1] = "ndjson"
                               /\ BeginsRecord(c[Min(text)])
                               /\ EndsRecord(c[Max(text)]))
  BY DEF Loads
<1>7. ASSUME NEW p \in 1..L
      PROVE  /\ data[p][2] \in 0..Len(Source) /\ RecordSize[data[p][2]] \in Nat
             /\ data[p][4] \in Nat
             /\ ~BeginsRecord(data[p]) =>
                  /\ p > 1
                  /\ IsText(data[p]) => IsText(data[p - 1]) /\ ~EndsRecord(data[p - 1])
             /\ IsText(data[p]) /\ ~EndsRecord(data[p]) => p < L /\ IsText(data[p + 1])
  <2>1. /\ data[p][2] \in 0..Len(Source) /\ data[p][4] \in 1..(RecordSize[data[p][2]] + 1)
        /\ ~BeginsRecord(data[p]) =>
             p > 1 /\ data[p - 1][2] = data[p][2] /\ data[p - 1][4] = data[p][4] - 1
        /\ IsText(data[p]) =>
             p < L /\ data[p + 1][2] = data[p][2] /\ data[p + 1][4] = data[p][4] + 1
    BY DEF WholeLines
  <2>2. RecordSize[data[p][2]] \in Nat
    BY <2>1, VerifierAssumption
  <2>3. data[p][4] \in Nat
    BY <2>1, <2>2
  <2> DEFINE a == data[p]  b == data[p - 1]  e == data[p + 1]
  <2> HIDE DEF L, a, b, e
  <2>4. ASSUME ~BeginsRecord(a), IsText(a) PROVE IsText(b) /\ ~EndsRecord(b)
    <3>1. b[2] = a[2] /\ b[4] = a[4] - 1
      BY <2>1, <2>4 DEF a, b
    <3>2. a[4] \in Nat /\ RecordSize[a[2]] \in Nat /\ a[4] <= RecordSize[a[2]]
      BY <2>2, <2>3, <2>4 DEF IsText, a
    <3>3. QED
      BY <3>1, <3>2 DEF IsText, EndsRecord
  <2>5. ASSUME IsText(a), ~EndsRecord(a) PROVE p < L /\ IsText(e)
    <3>1. p < L /\ e[2] = a[2] /\ e[4] = a[4] + 1
      BY <2>1, <2>5 DEF a, e
    <3>2. a[4] \in Nat /\ RecordSize[a[2]] \in Nat
      BY <2>2, <2>3 DEF a
    <3>3. a[4] <= RecordSize[a[2]] /\ a[4] # RecordSize[a[2]]
      BY <2>5 DEF IsText, EndsRecord
    <3>4. QED
      BY <3>1, <3>2, <3>3 DEF IsText
  <2>6. ~BeginsRecord(a) => p > 1
    BY <2>1 DEF a
  <2>7. QED
    BY <2>1, <2>2, <2>3, <2>4, <2>5, <2>6 DEF a, b, e
<1> HIDE DEF m, u, c, L
<1>8. text \subseteq 0..L /\ text \subseteq Nat
  BY <1>1, <1>2
<1>9. \A q \in 1..(u - m) : /\ m + q \in (m + 1)..u /\ m + q \in 1..L
                           /\ q \in text <=> IsText(data[m + q])
  BY <1>1, <1>2
<1>10. \A p \in (m + 1)..u : p - m \in 1..(u - m) /\ m + (p - m) = p /\ p \in 1..L
  BY <1>1
<1>11. \A q \in text : /\ q \in 1..(u - m) /\ c[q] = data[m + q] /\ IsText(data[m + q])
                       /\ m + q \in (m + 1)..u /\ m + q \in 1..L
  BY <1>2, <1>9
<1> HIDE DEF text
<1>12. text # {} => Min(text) \in text /\ \A q \in text : Min(text) <= q
  BY <1>8, MinOfNumbers
<1>13. text # {} => Max(text) \in text /\ \A q \in text : Max(text) >= q
  BY <1>1, <1>8, MaxOfNumbers
<1>14. ASSUME Loads(c), NEW p \in (m + 1)..u PROVE ReadsAt(data, p)
  <2>1. SUFFICES ASSUME IsText(data[p])
                 PROVE  data[p][1] = "ndjson" /\ (p \in Ends(data) => EndsRecord(data[p]))
    BY DEF ReadsAt
  <2>2. p - m \in text /\ c[p - m] = data[p]
    BY <1>9, <1>10, <1>11, <2>1
  <2>3. data[p][1] = "ndjson"
    BY <1>6, <1>14, <2>2
  <2>4. ASSUME p = u PROVE EndsRecord(data[p])
    <3>1. Max(text) = p - m
      <4>1. Max(text) \in 1..(u - m) /\ Max(text) >= p - m
        BY <1>11, <1>13, <2>2
      <4>2. QED
        BY <1>1, <2>4, <4>1
    <3>2. QED
      BY <1>6, <1>14, <2>2, <3>1
  <2>5. QED
    BY <1>3, <2>3, <2>4
<1>15. ASSUME \A p \in (m + 1)..u : ReadsAt(data, p), text # {}
       PROVE  /\ \A q \in text : c[q][1] = "ndjson"
              /\ BeginsRecord(c[Min(text)])
              /\ EndsRecord(c[Max(text)])
  <2>1. ASSUME NEW q \in text PROVE c[q][1] = "ndjson"
    <3>1. ReadsAt(data, m + q) /\ IsText(data[m + q])
      BY <1>11, <1>15
    <3>2. QED
      BY <1>11, <3>1 DEF ReadsAt
  <2>2. ASSUME ~BeginsRecord(c[Min(text)]) PROVE FALSE
    <3> DEFINE q == Min(text)  p == m + q
    <3>1. q \in text /\ q \in 1..(u - m) /\ c[q] = data[p] /\ p \in 1..L /\ IsText(data[p])
      BY <1>11, <1>12, <1>15
    <3>2. \A x \in text : q <= x
      BY <1>12, <1>15
    <3> HIDE DEF q
    <3>3. p > 1 /\ IsText(data[p - 1]) /\ ~EndsRecord(data[p - 1])
      <4> HIDE DEF p
      <4>1. ~BeginsRecord(data[p])
        BY <2>2, <3>1 DEF q
      <4>2. QED
        BY <1>7, <3>1, <4>1
    <3>4. CASE q > 1
      <4>1. q - 1 \in 1..(u - m) /\ m + (q - 1) = p - 1
        BY <1>1, <3>1, <3>4
      <4>2. q - 1 \in text
        BY <1>9, <3>3, <4>1
      <4>3. QED
        BY <1>1, <3>1, <3>2, <4>2
    <3>5. CASE q = 1
      <4>1. p - 1 = m /\ m # 0
        BY <1>1, <3>3, <3>5
      <4>2. m \in Ends(data) /\ ReadsAt(data, m)
        BY <1>3, <1>4, <1>5, <4>1
      <4>3. IsText(data[m]) /\ ~EndsRecord(data[m])
        BY <3>3, <4>1
      <4>4. QED
        BY <4>2, <4>3 DEF ReadsAt
    <3>6. QED
      BY <1>1, <3>1, <3>4, <3>5
  <2>3. ASSUME ~EndsRecord(c[Max(text)]) PROVE FALSE
    <3> DEFINE q == Max(text)  p == m + q
    <3>1. q \in text /\ q \in 1..(u - m) /\ c[q] = data[p] /\ p \in (m + 1)..u /\ p \in 1..L
          /\ IsText(data[p])
      BY <1>11, <1>13, <1>15
    <3>2. \A x \in text : q >= x
      BY <1>13, <1>15
    <3> HIDE DEF q
    <3>3. p < L /\ IsText(data[p + 1]) /\ ~EndsRecord(data[p])
      <4> HIDE DEF p
      <4>1. ~EndsRecord(data[p])
        BY <2>3, <3>1 DEF q
      <4>2. QED
        BY <1>7, <3>1, <4>1
    <3>4. CASE p < u
      <4>1. q + 1 \in 1..(u - m) /\ m + (q + 1) = p + 1
        BY <1>1, <3>1, <3>4
      <4>2. q + 1 \in text
        BY <1>9, <3>3, <4>1
      <4>3. QED
        BY <1>1, <3>1, <3>2, <4>2
    <3>5. CASE p = u
      <4>1. p \in Ends(data) /\ ReadsAt(data, p)
        BY <1>3, <1>15, <3>1, <3>3, <3>5
      <4>2. QED
        BY <3>1, <3>3, <4>1 DEF ReadsAt
    <3>6. QED
      BY <1>1, <3>1, <3>4, <3>5
  <2>4. QED
    BY <2>1, <2>2, <2>3
<1>16. QED
  BY <1>6, <1>14, <1>15 DEF m, u, c

\* All the chunks are loaded exactly when all the text can be.
LEMMA LoadsWhatReads ==
    ASSUME NEW data \in Seq(Piece), WholeLines(data), NEW id, NEW dir,
           \A i \in 0..(ChunkCount(data) - 1) :
             <<id, i>> \in DOMAIN dir /\ dir[<<id, i>>] = Chunk(data, i)
    PROVE  ManifestLoads(CreateManifest(id, data), dir)
             <=> \A p \in 1..Len(data) : ReadsAt(data, p)
<1> DEFINE L == Len(data)
           K == ChunkCount(data)
           c == ChunkSize
           loads(i) == Loads(Chunk(data, i))
           reads(p) == ReadsAt(data, p)
<1>1. L \in Nat /\ K \in Nat /\ c \in Nat \ {0} /\ K * c >= L
  BY LenProperties, ChunkBounds, ExportsAssumption
<1>2. ManifestLoads(CreateManifest(id, data), dir) <=> \A i \in 0..(K - 1) : loads(i)
  <2>1. /\ Len(CreateManifest(id, data).Files) = K
        /\ \A n \in 1..K : CreateManifest(id, data).Files[n].Name = <<id, n - 1>>
    BY <1>1, ManifestLists
  <2>2. ManifestLoads(CreateManifest(id, data), dir)
          <=> \A n \in 1..K : /\ <<id, n - 1>> \in DOMAIN dir
                              /\ Loads(dir[<<id, n - 1>>])
    BY <2>1 DEF ManifestLoads
  <2>3. \A i \in 0..(K - 1) : <<id, i>> \in DOMAIN dir /\ (Loads(dir[<<id, i>>]) <=> loads(i))
    OBVIOUS
  <2> HIDE DEF K, loads
  <2>4. /\ \A n \in 1..K : n - 1 \in 0..(K - 1)
        /\ \A i \in 0..(K - 1) : i + 1 \in 1..K /\ (i + 1) - 1 = i
    BY <1>1
  <2>5. QED
    BY <2>2, <2>3, <2>4
<1>3. ASSUME NEW i \in 0..(K - 1), i # 0 => reads(i * c)
      PROVE  loads(i) <=> \A p \in (i * c + 1)..Until(data, i + 1) : reads(p)
  BY <1>3, ChunkLoads
<1>4. ASSUME NEW i \in 0..(K - 1)
      PROVE  /\ i \in Nat /\ i * c \in Nat /\ i * c < L /\ (i # 0 => i * c >= 1)
             /\ (i + 1) * c = i * c + c
             /\ Until(data, i + 1) = IF (i + 1) * c > L THEN L ELSE (i + 1) * c
  <2>1. i \in Nat /\ i * c < L
    BY <1>1, ChunkBounds
  <2>2. /\ i * c \in Nat /\ (i + 1) * c = i * c + c
        /\ i # 0 => 1 * c <= i * c
    BY <1>1, <2>1, Products
  <2>3. 1 * c = c
    BY <1>1
  <2>4. Until(data, i + 1) = IF (i + 1) * c > L THEN L ELSE (i + 1) * c
    BY DEF Until
  <2> DEFINE m == i * c  o == 1 * c
  <2> HIDE DEF L, K, c, m, o
  <2>5. i # 0 => m >= 1
    <3>1. i # 0 => o <= m
      BY <2>2 DEF m, o
    <3>2. m \in Nat /\ o = c
      BY <2>2, <2>3 DEF m, o
    <3>3. QED
      BY <1>1, <3>1, <3>2
  <2>6. QED
    BY <2>1, <2>2, <2>4, <2>5 DEF m
<1> HIDE DEF L, K, c, loads, reads
<1>5. ASSUME \A p \in 1..L : reads(p), NEW i \in 0..(K - 1) PROVE loads(i)
  <2> DEFINE m == i * c
  <2>1. /\ m \in Nat /\ m < L /\ (i # 0 => m >= 1)
        /\ Until(data, i + 1) \in Nat /\ Until(data, i + 1) <= L
    <3> DEFINE n == (i + 1) * c
    <3>1. m \in Nat /\ m < L /\ (i # 0 => m >= 1) /\ n = m + c
      BY <1>4
    <3>2. Until(data, i + 1) = IF n > L THEN L ELSE n
      BY <1>4
    <3> HIDE DEF m, n, Until
    <3>3. QED
      BY <1>1, <3>1, <3>2
  <2> DEFINE u == Until(data, i + 1)
  <2> HIDE DEF m, u
  <2>2. i # 0 => reads(m)
    BY <1>1, <1>5, <2>1
  <2>3. \A p \in (m + 1)..u : reads(p)
    BY <1>1, <1>5, <2>1 DEF u
  <2>4. QED
    BY <1>3, <2>2, <2>3 DEF m, u
<1>6. ASSUME \A i \in 0..(K - 1) : loads(i) PROVE \A p \in 1..L : reads(p)
  <2> DEFINE N == {n \in Nat : \A p \in 1..L : p <= n * c => reads(p)}
  <2>1. 0 \in N
    <3>1. 0 * c = 0
      BY <1>1
    <3>2. QED
      BY <1>1, <3>1
  <2>2. ASSUME NEW n \in 1..K, n - 1 \in N PROVE n \in N
    <3> DEFINE i == n - 1
               m == i * c
               u == Until(data, i + 1)
    <3>1. i \in 0..(K - 1) /\ i + 1 = n /\ n \in Nat
      BY <1>1
    <3>2. \A p \in 1..L : p <= m => reads(p)
      BY <2>2
    <3> HIDE DEF i
    <3>3. /\ m \in Nat /\ m < L /\ (i # 0 => m >= 1) /\ n * c = m + c
          /\ u = IF n * c > L THEN L ELSE n * c
      BY <1>4, <3>1
    <3> HIDE DEF m, u
    <3>4. i # 0 => reads(m)
      BY <1>1, <3>2, <3>3
    <3>5. \A p \in (m + 1)..u : reads(p)
      BY <1>3, <1>6, <3>1, <3>4 DEF m, u
    <3>6. ASSUME NEW p \in 1..L, p <= n * c PROVE reads(p)
      <4>1. p <= m \/ p \in (m + 1)..u
        BY <1>1, <3>3, <3>6
      <4>2. QED
        BY <3>2, <3>5, <4>1
    <3>7. QED
      BY <3>1, <3>6
  <2> HIDE DEF N
  <2>3. 0..K \subseteq N
    BY <1>1, <2>1, <2>2, InductionUpTo
  <2>4. K \in N
    BY <1>1, <2>3
  <2>5. \A p \in 1..L : p <= K * c => reads(p)
    BY <2>4 DEF N
  <2>6. K * c \in Nat
    BY <1>1, Products
  <2>7. QED
    BY <1>1, <2>5, <2>6
<1>7. QED
  BY <1>2, <1>5, <1>6 DEF L, reads

\* Data of another format that load are empty, as NDJSON of no records is.
LEMMA OtherFormats ==
    ASSUME NEW format \in SupportedFormats, NEW t \in Nat, NEW numbers \in Seq(Numbers),
           \A p \in 1..Len(FormatData(format, t, numbers)) :
             ReadsAt(FormatData(format, t, numbers), p)
    PROVE  FormatData(format, t, numbers) = FormatData("ndjson", t, numbers)
<1> DEFINE data == FormatData(format, t, numbers)
           ss(f) == [i \in 1..Len(numbers) |-> Line(f, numbers[i], t)]
           head == Line(format, 0, t)
           rows == FlattenSeq(ss(format))
<1>1. CASE format = "ndjson"
  BY <1>1
<1>2. CASE format # "ndjson"
  <2>1. /\ data = head \o rows \/ (numbers = <<>> /\ data = <<>>)
        /\ FormatData("ndjson", t, numbers) = FlattenSeq(ss("ndjson"))
    BY <1>2 DEF FormatData, Line, SupportedFormats
  <2>2. data # head \o rows
    <3>1. /\ Len(Source) \in Nat /\ RecordSize[0] \in Nat \ {0}
          /\ Numbers \subseteq 0..Len(Source)
      BY VerifierAssumption DEF Numbers
    <3>2. Len(numbers) \in Nat /\ \A i \in 1..Len(numbers) : numbers[i] \in Numbers
      BY LenProperties, ElementOfSeq
    <3>3. /\ \A i \in 1..Len(numbers) : Line(format, numbers[i], t) \in Seq(Piece)
          /\ head \in Seq(Piece)
      <4>1. \A n \in 0..Len(Source) : Line(format, n, t) \in Seq(Piece)
        BY LineIsWhole
      <4>2. 0 \in 0..Len(Source)
        BY <3>1
      <4>3. \A n \in Numbers : Line(format, n, t) \in Seq(Piece)
        BY <3>1, <4>1
      <4>4. QED
        BY <3>2, <4>1, <4>2, <4>3
    <3>4. ss(format) \in Seq(Seq(Piece))
      <4> DEFINE len == Len(numbers)
      <4> HIDE DEF len, head
      <4>1. \A i \in 1..len : Line(format, numbers[i], t) \in Seq(Piece)
        BY <3>3 DEF len
      <4>2. [i \in 1..len |-> Line(format, numbers[i], t)] \in Seq(Seq(Piece))
        BY <3>2, <4>1 DEF len
      <4>3. QED
        BY <4>2 DEF len
    <3>5. rows \in Seq(Piece)
      BY <3>4, FlattenType
    <3>6. Len(head) = RecordSize[0] + 1 /\ head[1] = <<format, 0, t, 1>>
      BY <3>1 DEF Line
    <3> HIDE DEF head, rows, data
    <3>7. SUFFICES ASSUME data = head \o rows PROVE FALSE
      OBVIOUS
    <3>8. Len(data) >= 1 /\ Len(data) \in Nat /\ data[1] = <<format, 0, t, 1>>
      BY <3>1, <3>3, <3>5, <3>6, <3>7, ConcatProperties, LenProperties
    <3>9. ReadsAt(data, 1)
      BY <3>8 DEF data
    <3>10. IsText(data[1])
      BY <3>1, <3>8 DEF IsText
    <3>11. QED
      BY <1>2, <3>8, <3>9, <3>10 DEF ReadsAt
  <2>3. numbers = <<>> => FlattenSeq(ss("ndjson")) = <<>>
    <3>1. <<>> \in Seq(Seq(Piece)) /\ Len(<<>>) = 0
      OBVIOUS
    <3>2. PICK F : Concatenates(F, <<>>, Piece)
      BY <3>1, ConcatenationExists
    <3>3. FlattenSeq(<<>>) = <<>>
      BY <3>1, <3>2, FlattenSteps DEF Concatenates
    <3>4. numbers = <<>> => ss("ndjson") = <<>>
      OBVIOUS
    <3>5. QED
      BY <3>3, <3>4
  <2>4. QED
    BY <2>1, <2>2, <2>3
<1>3. QED
  BY <1>1, <1>2

LEMMA LinesRead ==
    ASSUME NEW data
    PROVE  LinesPerChunk(data) <=> \A p \in 1..Len(data) : ReadsAt(data, p)
BY DEF LinesPerChunk, ReadsAt, Ends

\* What is in the storage of a completed export, and what its data are.
LEMMA CompletedStored ==
    ASSUME ExportInv, DataInv, NEW n \in JobNumbers, Unshared(n),
           exports[n].status = "completed"
    PROVE  LET id   == exports[n].id
               data == exports[n].data
           IN  /\ manifests[id] = CreateManifest(id, data)
               /\ \A i \in 0..(ChunkCount(data) - 1) :
                    /\ <<id, i>> \in DOMAIN chunkFiles
                    /\ chunkFiles[<<id, i>>] = Chunk(data, i)
               /\ data \in Seq(Piece)
               /\ exports[n].format \in SupportedFormats
               /\ \E t \in 0..MaxSecond :
                    data = FormatData(exports[n].format, t, FetchFilteredData(exports[n].filters))
<1> DEFINE id == exports[n].id
           data == exports[n].data
<1>1. ExportOf(n) /\ DataFits(exports[n])
  BY DEF ExportInv, DataInv
<1>2. data \in Seq(Piece) /\ HasManifest(n)
  BY <1>1 DEF ExportOf
<1>3. id \in DOMAIN manifests /\ manifests[id].Whole /\ manifests[id] = CreateManifest(id, data)
  BY <1>2, WholeOrTorn DEF HasManifest
<1>4. HasChunks(n, ChunkCount(data))
  BY <1>1, <1>3 DEF ExportOf
<1>5. \A i \in 0..(ChunkCount(data) - 1) :
        <<id, i>> \in DOMAIN chunkFiles /\ chunkFiles[<<id, i>>] = Chunk(data, i)
  BY <1>4 DEF HasChunks
<1>6. /\ exports[n].format \in SupportedFormats
      /\ \E t \in 0..MaxSecond :
           data = FormatData(exports[n].format, t, FetchFilteredData(exports[n].filters))
  BY <1>1 DEF DataFits
<1> HIDE DEF id, data
<1>7. QED
  BY <1>2, <1>3, <1>5, <1>6 DEF id, data

\* Which completed exports the tool loads.
LEMMA CompletedLoads ==
    ASSUME ExportInv, DataInv, NEW n \in JobNumbers, Unshared(n),
           exports[n].status = "completed"
    PROVE  ManifestLoads(manifests[exports[n].id], chunkFiles)
             <=> LinesPerChunk(exports[n].data)
<1> DEFINE id == exports[n].id
           data == exports[n].data
<1>1. /\ manifests[id] = CreateManifest(id, data)
      /\ \A i \in 0..(ChunkCount(data) - 1) :
           <<id, i>> \in DOMAIN chunkFiles /\ chunkFiles[<<id, i>>] = Chunk(data, i)
      /\ data \in Seq(Piece) /\ exports[n].format \in SupportedFormats
      /\ \E t \in 0..MaxSecond :
           data = FormatData(exports[n].format, t, FetchFilteredData(exports[n].filters))
  BY CompletedStored
<1>2. WholeLines(data)
  <2>1. PICK t \in 0..MaxSecond :
          data = FormatData(exports[n].format, t, FetchFilteredData(exports[n].filters))
    BY <1>1
  <2>2. t \in Nat /\ FetchFilteredData(exports[n].filters) \in Seq(Numbers)
    BY FetchType
  <2> HIDE DEF data
  <2>3. QED
    BY <1>1, <2>1, <2>2, FormatIsWhole
<1> HIDE DEF id, data
<1>3. ManifestLoads(CreateManifest(id, data), chunkFiles)
        <=> \A p \in 1..Len(data) : ReadsAt(data, p)
  BY <1>1, <1>2, LoadsWhatReads
<1>4. QED
  BY <1>1, <1>3, LinesRead DEF id, data

\* What the tool loads of a completed export that it can load.
LEMMA CompletedReads ==
    ASSUME ExportInv, DataInv, NEW n \in JobNumbers, Unshared(n),
           exports[n].status = "completed", LinesPerChunk(exports[n].data)
    PROVE  \E t : /\ Reads(Loaded(n), Selected(exports[n].filters), t)
                  /\ Loaded(n) \in Seq({Record(p[2], p[3]) : p \in Piece})
<1> DEFINE id == exports[n].id
           data == exports[n].data
           numbers == FetchFilteredData(exports[n].filters)
<1>1. /\ manifests[id] = CreateManifest(id, data)
      /\ \A i \in 0..(ChunkCount(data) - 1) : chunkFiles[<<id, i>>] = Chunk(data, i)
      /\ data \in Seq(Piece) /\ exports[n].format \in SupportedFormats
      /\ \E t \in 0..MaxSecond : data = FormatData(exports[n].format, t, numbers)
  BY CompletedStored
<1>2. PICK t \in 0..MaxSecond : data = FormatData(exports[n].format, t, numbers)
  BY <1>1
<1>3. t \in Nat /\ numbers \in Seq(Numbers)
  BY FetchType
<1>4. \A p \in 1..Len(data) : ReadsAt(data, p)
  BY LinesRead
<1> HIDE DEF data, id, numbers
<1>5. data = FormatData("ndjson", t, numbers)
  BY <1>1, <1>2, <1>3, <1>4, OtherFormats
<1>6. /\ LoadDataFromManifest(CreateManifest(id, data), chunkFiles)
           \in Seq({Record(p[2], p[3]) : p \in Piece})
      /\ \A r : Contains(LoadDataFromManifest(CreateManifest(id, data), chunkFiles), r)
           <=> r \in RecordsOf(data)
  BY <1>1, ManifestRecords
<1>7. Loaded(n) = LoadDataFromManifest(CreateManifest(id, data), chunkFiles)
  BY <1>1 DEF Loaded, id
<1>8. \A r : r \in RecordsOf(data)
         <=> \E m \in Selected(exports[n].filters) : r = Record(m, t)
  BY <1>3, <1>5, RecordsOfFormat DEF numbers
<1>9. Reads(Loaded(n), Selected(exports[n].filters), t)
  BY <1>6, <1>7, <1>8 DEF Reads
<1>10. QED
  BY <1>6, <1>7, <1>9

\* A diff refuses a completed export exactly when a chunk cuts a record or the
\* data are no NDJSON; of two exports that it loads, in whatever chunks, it
\* finds exactly the records that one filter lets through and the other does
\* not, and no change in the others (loadDataFromManifest and compareExports,
\* over createChunks, formatData and fetchFilteredData).
THEOREM DiffsAreExact == ExportSpec => []DiffExact
<1> DEFINE Done(n) == Unshared(n) /\ exports[n].status = "completed"
           LoadsExport(n) == ManifestLoads(manifests[exports[n].id], chunkFiles)
           IDs(n) == {Source[r].id : r \in Selected(exports[n].filters)}
<1>1. ASSUME ExportInv, DataInv, NEW i \in JobNumbers, Done(i)
      PROVE  LoadsExport(i) <=> LinesPerChunk(exports[i].data)
  BY <1>1, CompletedLoads
<1>2. ASSUME ExportInv, DataInv, NEW i \in JobNumbers, NEW j \in JobNumbers,
             Done(i), Done(j), LoadsExport(i), LoadsExport(j)
      PROVE  ExactDiff(CompareExports(Loaded(i), Loaded(j), {"created_at"}), IDs(i), IDs(j))
  <2> DEFINE S == {Record(p[2], p[3]) : p \in Piece}
  <2>1. LinesPerChunk(exports[i].data) /\ LinesPerChunk(exports[j].data)
    BY <1>1, <1>2
  <2>2. PICK t : Reads(Loaded(i), Selected(exports[i].filters), t) /\ Loaded(i) \in Seq(S)
    BY <1>2, <2>1, CompletedReads
  <2>3. PICK u : Reads(Loaded(j), Selected(exports[j].filters), u) /\ Loaded(j) \in Seq(S)
    BY <1>2, <2>1, CompletedReads
  <2>4. /\ Selected(exports[i].filters) \in SUBSET Numbers
        /\ Selected(exports[j].filters) \in SUBSET Numbers
    BY DEF Selected, Numbers
  <2> HIDE DEF S
  <2>5. QED
    BY <2>2, <2>3, <2>4, ComparedReads
<1>3. ExportInv /\ DataInv => DiffExact
  <2>1. SUFFICES ASSUME ExportInv, DataInv, NEW i \in JobNumbers, Done(i)
                 PROVE  /\ LoadsExport(i) <=> LinesPerChunk(exports[i].data)
                        /\ \A j \in i..Len(exports) :
                             Done(j) /\ LoadsExport(i) /\ LoadsExport(j) =>
                               ExactDiff(CompareExports(Loaded(i), Loaded(j), {"created_at"}),
                                         IDs(i), IDs(j))
    BY DEF DiffExact, ExactDiff, Loaded, Selected
  <2>2. \A j \in i..Len(exports) : j \in JobNumbers
    BY DEF JobNumbers
  <2> HIDE DEF IDs, LoadsExport, Done
  <2>3. QED
    BY <1>1, <1>2, <2>1, <2>2
<1>4. QED
  BY <1>3, DataInvariant, PTL
=============================================================================
