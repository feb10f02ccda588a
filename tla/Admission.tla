----------------------------- MODULE Admission -----------------------------
(***************************************************************************)
(* The controller's middleware (controller/middleware.go): a token bucket  *)
(* for every pair of API key and role, removed when idle, and the ETag of  *)
(* the experiment list, which changes once a minute whatever the list      *)
(* does.  rate.Limiter (golang.org/x/time/rate) is external: Allow refills *)
(* the bucket for the time that has passed and takes a token if it can.    *)
(* What the handlers behind it do is left to ControlPlane; here a request  *)
(* to /start adds to the list, and one to /experiments reads it.           *)
(***************************************************************************)
EXTENDS Naturals, Sequences, FiniteSetsExt

CONSTANTS
    Keys,           \* API keys; "anonymous" is one of them
    Roles,          \* roles, named by the client or derived from the key
    DefaultRPS, RoleRPS, KeyRPS,   \* RateLimitConfig, per unit of the clock
    BurstSize, CleanupPeriod,
    Minute,         \* granularity of the ETag
    MaxTime,        \* bound on the clock
    MaxAdmitted     \* bound on the requests that pass

Rates == {DefaultRPS} \cup {RoleRPS[r] : r \in DOMAIN RoleRPS}
                      \cup {KeyRPS[k] : k \in DOMAIN KeyRPS}

ASSUME ConfigAssumption ==
    /\ Rates \subseteq Nat \ {0}
    /\ BurstSize \in Nat \ {0} /\ CleanupPeriod \in Nat \ {0}
    /\ Minute \in Nat \ {0} /\ MaxTime \in Nat /\ MaxAdmitted \in Nat

\* A bucket that has been idle long enough to be removed is full again.
ASSUME IdleRefillsAssumption ==
    \A rps \in Rates : rps * 2 * CleanupPeriod >= BurstSize

VARIABLES
    now,        \* the clock
    limiters,   \* rlm.limiters: at most one bucket for each pair
    admitted,   \* history: the times at which requests of a pair passed
    experimentList, \* the time at which each experiment was listed
    view        \* what each client has cached of GET /experiments

Pairs == Keys \X Roles
Bucket == [tokens : 0..BurstSize, last : 0..MaxTime, lastSeen : 0..MaxTime]

admissionVars == <<now, limiters, admitted, experimentList, view>>

\* The type of every variable; limiters is a partial function.
AdmissionTypeOK ==
    /\ now \in 0..MaxTime
    /\ DOMAIN limiters \subseteq Pairs
    /\ \A p \in DOMAIN limiters : limiters[p] \in Bucket
    /\ admitted \in [Pairs -> Seq(0..MaxTime)]
    /\ experimentList \in Seq(0..MaxTime)
    /\ view \in [Keys -> [etag : Nat, asked : 0..MaxTime, list : Seq(0..MaxTime)]]

AdmissionInit ==
    /\ now = 0
    /\ limiters = <<>>
    /\ admitted = [p \in Pairs |-> <<>>]
    /\ experimentList = <<>>
    /\ view = [k \in Keys |-> [etag |-> 0, asked |-> 0, list |-> <<>>]]

\* GetLimiter: the limit of the key, else of the role, else the default.
RPS(k, r) ==
    IF k \in DOMAIN KeyRPS THEN KeyRPS[k]
    ELSE IF r \in DOMAIN RoleRPS THEN RoleRPS[r] ELSE DefaultRPS

\* A new limiter starts full.
GetLimiter(k, r) ==
    IF <<k, r>> \in DOMAIN limiters
    THEN [limiters[<<k, r>>] EXCEPT !.lastSeen = now]
    ELSE [tokens |-> BurstSize, last |-> now, lastSeen |-> now]

\* rate.Limiter: the tokens in the bucket now.
Tokens(b, rps) == Min({BurstSize, b.tokens + rps * (now - b.last)})

Store(p, b) ==
    limiters' = [q \in DOMAIN limiters \cup {p} |->
                    IF q = p THEN b ELSE limiters[q]]

\* Middleware: the request of a pair passes...
Allow(k, r) ==
    LET b == GetLimiter(k, r)
        n == Tokens(b, RPS(k, r))
    IN  /\ MapThenSumSet(LAMBDA p : Len(admitted[p]), Pairs) < MaxAdmitted
        /\ n >= 1
        /\ Store(<<k, r>>, [b EXCEPT !.tokens = n - 1, !.last = now])
        /\ admitted' = [admitted EXCEPT ![<<k, r>>] = Append(@, now)]

\* ... or is answered with 429; the limiter has been seen all the same.
Refuse(k, r) ==
    LET b == GetLimiter(k, r) IN
    /\ Tokens(b, RPS(k, r)) < 1
    /\ Store(<<k, r>>, b)
    /\ UNCHANGED <<now, admitted, experimentList, view>>

\* POST /start, of a request that is valid.
StartExperiment(k, r) ==
    /\ Allow(k, r)
    /\ experimentList' = Append(experimentList, now)
    /\ UNCHANGED <<now, view>>

\* Mutant: the ETag does not depend on the time.
ETagFixed == 1

\* ConditionalGetMiddleware; 0 is no ETag, and matches none.
ETag == 1 + now \div Minute

\* GET /experiments by a client that revalidates what it has; 304 keeps it.
GetExperiments(k, r) ==
    /\ Allow(k, r)
    /\ view' = [view EXCEPT ![k] =
           IF @.etag = ETag
           THEN [@ EXCEPT !.asked = now]
           ELSE [etag |-> ETag, asked |-> now, list |-> experimentList]]
    /\ UNCHANGED <<now, experimentList>>

\* Mutant: every bucket not used at this moment is removed.
CleanupAll ==
    /\ limiters' = [p \in {q \in DOMAIN limiters : limiters[q].lastSeen >= now}
                       |-> limiters[p]]
    /\ UNCHANGED <<now, admitted, experimentList, view>>

\* cleanup: buckets not seen for two periods go.
Cleanup ==
    /\ limiters' = [p \in {q \in DOMAIN limiters :
                              limiters[q].lastSeen + 2 * CleanupPeriod >= now}
                       |-> limiters[p]]
    /\ UNCHANGED <<now, admitted, experimentList, view>>

Tick ==
    /\ now < MaxTime
    /\ now' = now + 1
    /\ UNCHANGED <<limiters, admitted, experimentList, view>>

\* The controller starts again with no limiters and no experiments; clients
\* keep what they have cached.
Restart ==
    /\ limiters' = <<>>
    /\ admitted' = [p \in Pairs |-> <<>>]
    /\ experimentList' = <<>>
    /\ UNCHANGED <<now, view>>

AdmissionNext ==
    \/ \E k \in Keys, r \in Roles :
          StartExperiment(k, r) \/ GetExperiments(k, r) \/ Refuse(k, r)
    \/ Cleanup
    \/ Restart
    \/ Tick

AdmissionSpec == AdmissionInit /\ [][AdmissionNext]_admissionVars

-----------------------------------------------------------------------------
(* Properties. *)

\* In no window of time does a pair get more requests through than a burst
\* plus its rate over the window: removing idle limiters and creating new
\* ones (GetLimiter, cleanup) gives nothing away.
RateBound ==
    \A p \in Pairs : \A i, j \in DOMAIN admitted[p] :
        i <= j => j - i + 1 <= BurstSize
                      + RPS(p[1], p[2]) * (admitted[p][j] - admitted[p][i])

\* A client that revalidates sees every listed experiment accepted before the
\* minute of its last request, also after a restart of the controller: the
\* ETag, which does not depend on the list, hides an experiment for less than
\* a minute (ConditionalGetMiddleware).
ListLagBelowMinute ==
    \A k \in Keys, m \in DOMAIN experimentList :
        experimentList[m] < Minute * (view[k].asked \div Minute)
            => m \in DOMAIN view[k].list /\ view[k].list[m] = experimentList[m]
=============================================================================
