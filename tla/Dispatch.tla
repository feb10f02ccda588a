------------------------------ MODULE Dispatch ------------------------------
(***************************************************************************)
(* The controller's experiment handlers (controller/handlers.go): /start   *)
(* validates and lists an experiment and starts a goroutine that sleeps    *)
(* until its start time and posts it to the agents, in parallel if asked   *)
(* to.  A post that fails is logged and not repeated.  /stop changes       *)
(* nothing.  Everything is in memory.                                      *)
(* An action constrains the variables of this module only.                 *)
(***************************************************************************)
EXTENDS Naturals, Sequences

CONSTANTS
    MaxTime,       \* bound on the clock
    Endpoints,     \* AGENT_ENDPOINTS, a sequence of agents
    MaxAgentCount, \* the largest agent_count the validator accepts
    MaxDuration    \* the largest duration it accepts

ASSUME DispatchAssumption == MaxTime \in Nat /\ Len(Endpoints) > 0

VARIABLES
    now,            \* the clock
    requests,       \* history: every experiment accepted, in order
    experimentList, \* the numbers of those the controller has in memory
    stage,          \* what the goroutine of each experiment is doing
    posts           \* the posts each experiment still has to make

DispatchInit ==
    /\ requests = <<>> /\ experimentList = <<>>
    /\ stage = <<>> /\ posts = <<>>

\* validateExperimentType.
ValidTypes == {"network_latency", "network_loss", "cpu_stress",
               "memory_stress", "process_kill"}

\* The validate tags of ExperimentRequest; the text fields are left out.
Validate(req) ==
    /\ req.type \in ValidTypes
    /\ req.duration \in 1..MaxDuration
    /\ req.count \in 1..MaxAgentCount

\* The validator is in the context of requests with JSON content only.
Accepts(req) == req.json => Validate(req)

Parallel(req) == req.parallel /\ req.count > 1

\* dispatchExperiment: the indices it posts, and the agent of an index.
Copies(req) == IF Parallel(req) THEN 0..(req.count - 1) ELSE {0}
AgentOf(i) == Endpoints[(i % Len(Endpoints)) + 1]

\* Mutant: no goroutine is started.
StartUndispatched(req) ==
    /\ Accepts(req)
    /\ requests' = Append(requests, req)
    /\ experimentList' = Append(experimentList, Len(requests) + 1)
    /\ UNCHANGED <<stage, posts>>

\* startExperimentHandler, after the validation.  The start time is zero or
\* compared with the time; 0 never lies ahead.
Start(req) ==
    /\ Accepts(req)
    /\ requests' = Append(requests, req)
    /\ experimentList' = Append(experimentList, Len(requests) + 1)
    /\ stage' = Append(stage, IF req.start > now THEN "sleeping" ELSE "ready")
    /\ posts' = Append(posts, {})

\* Mutant: the start time is not waited for.
WakesEarly(x) ==
    /\ stage[x] = "sleeping"
    /\ stage' = [stage EXCEPT ![x] = "ready"]
    /\ UNCHANGED <<requests, experimentList, posts>>

\* time.Sleep(delay) returns, at its time or later.
Wakes(x) ==
    /\ stage[x] = "sleeping" /\ requests[x].start <= now
    /\ stage' = [stage EXCEPT ![x] = "ready"]
    /\ UNCHANGED <<requests, experimentList, posts>>

\* dispatchExperiment starts its posts...
DispatchExperiment(x) ==
    /\ stage[x] = "ready"
    /\ stage' = [stage EXCEPT ![x] = "posting"]
    /\ posts' = [posts EXCEPT ![x] = Copies(requests[x])]
    /\ UNCHANGED <<requests, experimentList>>

\* Mutant: a post may be made again.
MakeAgentRequestAgain(x, i) ==
    /\ i \in posts[x]
    /\ UNCHANGED <<requests, experimentList, stage, posts>>

\* ... makes each of them once, whether it arrives or not...
MakeAgentRequest(x, i) ==
    /\ i \in posts[x]
    /\ posts' = [posts EXCEPT ![x] = @ \ {i}]
    /\ UNCHANGED <<requests, experimentList, stage>>

\* ... and waits for all of them.
Dispatched(x) ==
    /\ stage[x] = "posting" /\ posts[x] = {}
    /\ stage' = [stage EXCEPT ![x] = "dispatched"]
    /\ UNCHANGED <<requests, experimentList, posts>>

\* The controller dies and starts again: goroutines and list are gone.
ControllerRestart ==
    /\ experimentList' = <<>>
    /\ stage' = [x \in DOMAIN stage |->
                    IF stage[x] = "dispatched" THEN stage[x] ELSE "lost"]
    /\ posts' = [x \in DOMAIN posts |-> {}]
    /\ UNCHANGED requests
=============================================================================
