---------------------------- MODULE ControlPlane ----------------------------
(***************************************************************************)
(* The deployed system: clients send experiments to the controller         *)
(* (Dispatch), which posts them to the agents (Injection).  A post may be  *)
(* lost; nobody repeats it.  What the middleware in front refuses          *)
(* (Admission) does not get here.                                          *)
(***************************************************************************)
EXTENDS Dispatch, Injection, FiniteSetsExt

CONSTANTS
    Requests,      \* the requests clients may send to /start
    MaxRequests,   \* bound on the experiments accepted
    MaxCopies      \* bound on the posts of all of them

ASSUME RequestsAssumption == \A req \in Requests :
    /\ req.duration \in Nat /\ req.start \in 0..MaxTime
    /\ req.count \in 0..MaxAgentCount
    /\ req.parallel \in BOOLEAN /\ req.json \in BOOLEAN
ASSUME BoundsAssumption == MaxRequests \in Nat /\ MaxAgentCount \in Nat \ {0}
\* An agent may be listed more than once.
ASSUME EndpointsAssumption == Endpoints \in Seq(Agents)

\* No injection has the name of none.
ASSUME NoneAssumption == None \notin Nat \X Nat

dispatch == <<requests, experimentList, stage, posts>>
agents == <<injections, qdisc, mishap>>
vars == <<now, dispatch, agents>>

Experiments == 1..MaxRequests
Injections == Experiments \X (0..(MaxAgentCount - 1))  \* <<experiment, copy>>

\* The type of every variable.
TypeOK ==
    /\ now \in 0..MaxTime
    /\ \A x \in DOMAIN requests : requests[x] \in Requests
    /\ DOMAIN stage = DOMAIN requests /\ DOMAIN posts = DOMAIN requests
    /\ \A k \in DOMAIN experimentList : experimentList[k] \in DOMAIN requests
    /\ \A x \in DOMAIN requests :
          /\ stage[x] \in {"sleeping", "ready", "posting", "dispatched", "lost"}
          /\ posts[x] \subseteq Copies(requests[x])
    /\ DOMAIN injections \subseteq Injections
    /\ \A n \in DOMAIN injections :
          /\ n[1] \in DOMAIN requests
          /\ injections[n].agent \in Agents
          /\ injections[n].stage \in Stages
    /\ qdisc \in [Agents -> {None} \cup DOMAIN injections]
    /\ mishap \subseteq Agents

Init == now = 0 /\ DispatchInit /\ InjectionInit

\* The bounds: requests, and posts to agents.
WithinBounds(req) ==
    /\ Len(requests) < MaxRequests
    /\ MapThenSumSet(LAMBDA x : Cardinality(Copies(requests[x])),
                     DOMAIN requests) + Cardinality(Copies(req)) <= MaxCopies

\* POST /start; a request the validator refuses changes nothing.
StartRequest(req) ==
    /\ WithinBounds(req)
    /\ Start(req)
    /\ UNCHANGED <<now, agents>>

\* A post reaches its agent, whether or not the answer comes back...
Arrives(x, i) ==
    /\ MakeAgentRequest(x, i)
    /\ Inject(<<x, i>>, AgentOf(i), requests[x])
    /\ UNCHANGED now

\* ... or not.
Lost(x, i) == MakeAgentRequest(x, i) /\ UNCHANGED <<now, agents>>

Controller(x) ==
    /\ Wakes(x) \/ DispatchExperiment(x) \/ Dispatched(x)
    /\ UNCHANGED <<now, agents>>

Restart == ControllerRestart /\ UNCHANGED <<now, agents>>

Agent(n) == Step(n) /\ UNCHANGED <<now, dispatch>>

\* The clock stops at a time no start time lies beyond; sleeps go on.
Tick ==
    /\ now < MaxTime \/ Sleeping # {}
    /\ now' = IF now < MaxTime THEN now + 1 ELSE now
    /\ Elapse
    /\ UNCHANGED dispatch

Next ==
    \/ \E req \in Requests : StartRequest(req)
    \/ \E x \in DOMAIN requests :
          \/ Controller(x)
          \/ \E i \in posts[x] : Arrives(x, i) \/ Lost(x, i)
    \/ \E n \in DOMAIN injections : Agent(n)
    \/ Restart
    \/ Tick

Spec == Init /\ [][Next]_vars

\* Time passes and the goroutines of the agents run.  Nothing is assumed of
\* the controller: its posts have no timeout and may hang.
Fairness ==
    /\ WF_vars(Tick)
    /\ \A n \in Injections : WF_vars(n \in DOMAIN injections /\ Agent(n))

FairSpec == Spec /\ Fairness

-----------------------------------------------------------------------------
(* Properties. *)

\* What agents run of an experiment is what was asked for: no more copies
\* than agent_count, and than one without parallel; no agent more than its
\* share when they go round the endpoints, once for every time it is listed;
\* none before the start time; whatever is lost and whoever restarts
\* (dispatchExperiment).
InjectionsMatchRequest ==
    \A x \in DOMAIN requests :
        LET req == requests[x]
            N == IF req.parallel /\ req.count > 0 THEN req.count ELSE 1
            E == Len(Endpoints)
            of(A) == {n \in DOMAIN injections :
                         n[1] = x /\ injections[n].agent \in A}
        IN  /\ Cardinality(of(Agents)) <= N
            /\ \A a \in Agents :
                  Cardinality(of({a})) <=
                      Cardinality({k \in 1..E : Endpoints[k] = a})
                          * ((N + E - 1) \div E)
            /\ of(Agents) # {} => req.start <= now

\* The injections as clients see them.
Phase(s) ==
    CASE s = "accepted"                   -> "reached"
      [] s \in {"sleeping", "stressing"} -> "on"
      [] OTHER                            -> "over"

FaultOf(injection) ==
    [agent    |-> injection.agent,
     type     |-> injection.type,
     duration |-> injection.duration,
     phase    |-> Phase(injection.stage),
     left     |-> injection.left]

FaultsSeen     == [n \in DOMAIN injections |-> FaultOf(injections[n])]
ImpairedAgents == {a \in Agents : qdisc[a] # None}

\* Controller and agents together give what ExperimentService promises,
\* whatever posts are lost, however injections overlap on eth0 and whoever
\* restarts (startExperimentHandler, dispatchExperiment, simulateInjection).
Service == INSTANCE ExperimentService WITH
    asked <- requests,
    faults <- FaultsSeen,
    impaired <- ImpairedAgents,
    unclean <- mishap,
    InstallMayFail <- AddMayFail,
    RemovalMayFail <- DelMayFail,
    AgentMayDie <- KillMayHitAgent

ImplementsExperimentService == Service!Spec

\* Every network fault is removed, also one whose removal another injection
\* anticipated, unless a tc command fails or the agent dies (simulateInjection).
FaultsRemoved ==
    \A a \in Agents : qdisc[a] # None ~> (qdisc[a] = None \/ a \in mishap)

-----------------------------------------------------------------------------
(* What the documentation says and the code does not do. *)

\* "experiment_type: e.g. cpu-stress, network-latency, network-loss, mem-stress,
\* process-kill" (docs/api/openapi.yaml:91): an experiment that passed the
\* validation is one the agents know.
ValidatedIsKnown ==
    \A n \in DOMAIN injections :
        requests[n[1]].json => injections[n].stage # "unknown"
=============================================================================
