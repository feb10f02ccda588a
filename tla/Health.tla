------------------------------- MODULE Health -------------------------------
(***************************************************************************)
(* HealthChecker (controller/health.go): periodic checks of dependencies,  *)
(* each with a timeout, and the readiness they add up to.                  *)
(*                                                                         *)
(* A dependency is checked by probing its endpoints in order until one     *)
(* answers; the database has none, and its check always succeeds.  Times   *)
(* are ages, which a unit of time makes older; what is due at an instant   *)
(* happens before time goes on.  A check that timed out leaves its         *)
(* CheckFunc running, whose result nobody reads: it is left out.           *)
(***************************************************************************)
EXTENDS Integers, Sequences, FiniteSets

CONSTANTS
    Dependencies,   \* names of the registered dependencies
    Endpoints,      \* the endpoints of each, a sequence
    Critical,       \* those that readiness depends on
    CheckInterval,  \* Interval of each
    CheckTimeout,   \* Timeout of each
    TickerPeriod,   \* the ticker of startPeriodicChecks
    ProbeTimeout,   \* timeout of the request to an endpoint
    Horizon         \* bound on the ages that are told apart

\* The longest a status stays without a new one: it is due at the tick after
\* Interval, and the check may take its timeout.
StaleAfter(d) == CheckInterval[d] + TickerPeriod + CheckTimeout[d]

ASSUME HealthAssumption ==
    /\ Critical \subseteq Dependencies
    /\ ProbeTimeout \in Nat \ {0} /\ TickerPeriod \in Nat \ {0}
    /\ \A d \in Dependencies :
         /\ CheckInterval[d] \in Nat
         /\ CheckTimeout[d] \in 1..(TickerPeriod - 1)
         /\ Endpoints[d] \in Seq(STRING)
         /\ StaleAfter(d) < Horizon
    /\ Horizon \in Nat

VARIABLES
    phase,     \* time since the ticker fired, or TickerPeriod: it fires now
    deps,      \* hc.dependencies: the status and the age of LastCheck
    check,     \* the running check of each dependency
    answers,   \* how each endpoint of each dependency answers
    steady,    \* has no endpoint changed since the check began?
    sinceUp,   \* time since an endpoint of the dependency last was up
    uptime     \* time since the start, up to when all must have been checked

healthVars == <<phase, deps, check, answers, steady, sinceUp, uptime>>

NoCheck  == [running |-> FALSE, elapsed |-> 0, endpoint |-> 1, spent |-> 0]
NewCheck == [running |-> TRUE, elapsed |-> 0, endpoint |-> 1, spent |-> 0]

Older(age) == IF age < Horizon THEN age + 1 ELSE age

\* Is an endpoint of the dependency up?  The database always is.
Up(d, world) ==
    Endpoints[d] = <<>> \/ \E i \in DOMAIN Endpoints[d] : world[d][i] = "up"

\* The type of every variable.
HealthTypeOK ==
    /\ phase \in 0..TickerPeriod
    /\ deps \in [Dependencies ->
                   [status : {"unknown", "healthy", "unhealthy"}, age : 0..Horizon]]
    /\ check \in [Dependencies ->
                    [running : BOOLEAN, elapsed : Nat, endpoint : Nat \ {0},
                     spent : 0..ProbeTimeout]]
    /\ DOMAIN answers = Dependencies
    /\ \A d \in Dependencies :
         /\ check[d].elapsed <= CheckTimeout[d]
         /\ check[d].endpoint <= Len(Endpoints[d]) + 1
         /\ answers[d] \in [DOMAIN Endpoints[d] -> {"up", "refuses", "hangs"}]
    /\ steady \in [Dependencies -> BOOLEAN]
    /\ sinceUp \in [Dependencies -> 0..Horizon]
    /\ uptime \in 0..Horizon

\* NewHealthChecker, RegisterDependency.
HealthInit ==
    /\ phase = 0
    /\ deps = [d \in Dependencies |-> [status |-> "unknown", age |-> 0]]
    /\ check = [d \in Dependencies |-> NoCheck]
    /\ answers = [d \in Dependencies |-> [i \in DOMAIN Endpoints[d] |-> "up"]]
    /\ steady = [d \in Dependencies |-> TRUE]
    /\ sinceUp = [d \in Dependencies |-> 0]
    /\ uptime = 0

----------------------------------------------------------------------------
(* Actions. *)

\* Mutant: checks of dependencies that are not critical are due after twice
\* the interval.
MustStartLazy(d) ==
    deps[d].age > (IF d \in Critical THEN 1 ELSE 2) * CheckInterval[d]

\* Is a check of d due?  LastCheck is set a moment after the tick that began
\* the check, so an age of exactly Interval may or may not be enough.
MayStart(d)  == deps[d].age >= CheckInterval[d]
MustStart(d) == deps[d].age > CheckInterval[d]

\* The ticker of startPeriodicChecks fires: the checks that are due start.
PeriodicChecks ==
    /\ phase = TickerPeriod
    /\ phase' = 0
    /\ \E started \in SUBSET {d \in Dependencies : MayStart(d)} :
         /\ {d \in Dependencies : MustStart(d)} \subseteq started
         /\ check' = [d \in Dependencies |->
              IF d \in started THEN NewCheck ELSE check[d]]
         /\ steady' = [d \in Dependencies |-> d \in started \/ steady[d]]
    /\ UNCHANGED <<deps, answers, sinceUp, uptime>>

\* The end of checkDependency: the status and LastCheck are updated.
Finish(d, status) ==
    /\ deps' = [deps EXCEPT ![d] = [status |-> status, age |-> 0]]
    /\ check' = [check EXCEPT ![d] = NoCheck]
    /\ UNCHANGED <<phase, answers, steady, sinceUp, uptime>>

\* checkAgents, checkTracingBackend: the endpoint whose turn it is.
Answer(d) == answers[d][check[d].endpoint]
Probing(d) == check[d].running /\ check[d].endpoint <= Len(Endpoints[d])

\* An endpoint answers, or the database check returns at once.
ProbeSucceeds(d) ==
    /\ \/ Probing(d) /\ Answer(d) = "up"
       \/ check[d].running /\ Endpoints[d] = <<>>
    /\ Finish(d, "healthy")

\* Mutant: the first endpoint that fails ends the check.
ProbeFailsForGood(d) ==
    /\ Probing(d)
    /\ Answer(d) = "refuses" \/ (Answer(d) = "hangs" /\ check[d].spent = ProbeTimeout)
    /\ check' = [check EXCEPT ![d].endpoint = Len(Endpoints[d]) + 1, ![d].spent = 0]
    /\ UNCHANGED <<phase, deps, answers, steady, sinceUp, uptime>>

\* An endpoint refuses, or does not answer in time: the next one is tried.
ProbeFails(d) ==
    /\ Probing(d)
    /\ Answer(d) = "refuses" \/ (Answer(d) = "hangs" /\ check[d].spent = ProbeTimeout)
    /\ check' = [check EXCEPT ![d].endpoint = @ + 1, ![d].spent = 0]
    /\ UNCHANGED <<phase, deps, answers, steady, sinceUp, uptime>>

\* No endpoint is left.
NoneAnswered(d) ==
    /\ check[d].running /\ Endpoints[d] # <<>> /\ ~Probing(d)
    /\ Finish(d, "unhealthy")

\* checkDependency does not wait any longer.
CheckTimesOut(d) ==
    /\ check[d].running /\ check[d].elapsed = CheckTimeout[d]
    /\ Finish(d, "unhealthy")

\* Time goes on when nothing is due: running probes hang within their limits.
Waiting(d) ==
    check[d].running =>
        /\ Probing(d) /\ Answer(d) = "hangs" /\ check[d].spent < ProbeTimeout
        /\ check[d].elapsed < CheckTimeout[d]

TimePasses ==
    /\ phase < TickerPeriod
    /\ \A d \in Dependencies : Waiting(d)
    /\ phase' = phase + 1
    /\ deps' = [d \in Dependencies |-> [deps[d] EXCEPT !.age = Older(@)]]
    /\ check' = [d \in Dependencies |->
         IF check[d].running
         THEN [check[d] EXCEPT !.elapsed = @ + 1, !.spent = @ + 1]
         ELSE check[d]]
    /\ sinceUp' = [d \in Dependencies |-> IF Up(d, answers) THEN 0 ELSE Older(sinceUp[d])]
    /\ uptime' = Older(uptime)
    /\ UNCHANGED <<answers, steady>>

\* An endpoint starts or ceases to answer.
EndpointChanges(d, i, answer) ==
    /\ answers[d][i] # answer
    /\ answers' = [answers EXCEPT ![d][i] = answer]
    /\ steady' = [steady EXCEPT ![d] = FALSE]
    /\ sinceUp' = [sinceUp EXCEPT ![d] =
                      IF Up(d, answers) \/ Up(d, answers') THEN 0 ELSE @]
    /\ UNCHANGED <<phase, deps, check, uptime>>

HealthNext ==
    \/ PeriodicChecks
    \/ \E d \in Dependencies :
         \/ ProbeSucceeds(d) \/ ProbeFails(d) \/ NoneAnswered(d) \/ CheckTimesOut(d)
         \/ \E i \in DOMAIN Endpoints[d] :
              \E answer \in {"up", "refuses", "hangs"} : EndpointChanges(d, i, answer)
    \/ TimePasses

HealthSpec == HealthInit /\ [][HealthNext]_healthVars

----------------------------------------------------------------------------
(* Properties. *)

\* GetReadinessStatus, and the status GetHealthStatus computes.
Ready == \A d \in Critical : deps[d].status = "healthy"

\* A dependency reported healthy was up not longer ago than it takes to be
\* due, ticked and timed out (startPeriodicChecks, checkDependency).
HealthyWasUp ==
    \A d \in Dependencies :
        deps[d].status = "healthy" => sinceUp[d] <= StaleAfter(d)

\* Two checks of a dependency never run side by side, so that a status is
\* never overwritten by an older one: when the ticker fires all are over.
ChecksDoNotOverlap ==
    phase = TickerPeriod => \A d \in Dependencies : ~check[d].running

\* A check during which no endpoint changes tells whether one is up, as far as
\* its timeout lets it: if it finds the dependency healthy, an endpoint is up
\* behind no more than CheckTimeout of probes that hang, and if one is up
\* behind less than that, it does find it healthy.  Between the two the answer
\* and the timeout come together (checkAgents in checkDependency).
ReachableIn(d, time) ==
    \/ Endpoints[d] = <<>>
    \/ \E i \in DOMAIN Endpoints[d] :
         /\ answers[d][i] = "up"
         /\ ProbeTimeout * Cardinality({j \in 1..(i - 1) : answers[d][j] = "hangs"})
              <= time
CheckIsExact ==
    [][\A d \in Dependencies :
         check[d].running /\ ~check'[d].running /\ steady[d] =>
             /\ deps'[d].status = "healthy" => ReachableIn(d, CheckTimeout[d])
             /\ ReachableIn(d, CheckTimeout[d] - 1) => deps'[d].status = "healthy"
      ]_healthVars

\* The critical dependency, whose check cannot fail, makes the controller
\* ready within the first interval and tick, and ready it stays.  Until its
\* first check its status is "unknown" and the controller is not ready, where
\* TestHealthEndpoints (middleware_test.go:203, 221) expects that it is.
ReadyInTime ==
    (\A d \in Critical : Endpoints[d] = <<>> /\ uptime > CheckInterval[d] + TickerPeriod)
        => Ready

\* A status is neither stale, nor replaced by an older one, nor late.
StatusInTime == HealthyWasUp /\ ChecksDoNotOverlap /\ ReadyInTime
=============================================================================
