----------------------------- MODULE Injection -----------------------------
(***************************************************************************)
(* The agents (agent/experiments.go): every request to /inject starts a    *)
(* goroutine that puts a fault in place, waits and removes it.  All the    *)
(* network faults of an agent share the root qdisc of eth0; tc qdisc add   *)
(* fails when one is there and may fail otherwise (no privileges, no       *)
(* eth0), tc qdisc del removes whichever is there, and both failures are   *)
(* only logged: a goroutine whose fault was never installed sleeps and     *)
(* cleans up all the same.  tc, stress-ng, ps and kill are external.       *)
(* An action constrains the variables of this module only.                 *)
(***************************************************************************)
EXTENDS Naturals

CONSTANTS
    Agents,
    None,           \* no netem on eth0
    AddMayFail,     \* may tc qdisc add fail with no netem there?
    DelMayFail,     \* may tc qdisc del fail with a qdisc there?
    KillMayHitAgent \* may the pattern of process-kill match the agent?

ASSUME InjectionAssumption ==
    /\ AddMayFail \in BOOLEAN /\ DelMayFail \in BOOLEAN
    /\ KillMayHitAgent \in BOOLEAN

VARIABLES
    injections, \* the goroutines of simulateInjection, by request
    qdisc,      \* per agent: the injection whose netem is on eth0, or None
    mishap      \* history: agents whose qdisc was left behind

Stages == {"accepted", "sleeping", "stressing", "completed", "unknown",
           "killed"}

InjectionInit ==
    /\ injections = <<>>
    /\ qdisc = [a \in Agents |-> None]
    /\ mishap = {}

\* injectHandler answers at once; the goroutine starts later.
Inject(n, a, req) ==
    /\ injections' = [m \in DOMAIN injections \cup {n} |->
           IF m = n THEN [agent |-> a, type |-> req.type,
                          duration |-> req.duration, stage |-> "accepted",
                          left |-> 0]
                    ELSE injections[m]]
    /\ UNCHANGED <<qdisc, mishap>>

To(n, stage, left) ==
    injections' = [injections EXCEPT ![n].stage = stage, ![n].left = left]

\* tc qdisc add dev eth0 root netem.
QdiscAdd(n, a) ==
    \/ qdisc[a] = None /\ qdisc' = [qdisc EXCEPT ![a] = n]
    \/ (AddMayFail \/ qdisc[a] # None) /\ UNCHANGED qdisc

\* Mutant: packet loss has no clean-up.
AddLossUncleaned(n) ==
    LET a == injections[n].agent IN
    /\ injections[n].stage = "accepted"
    /\ injections[n].type \in {"network-latency", "network-loss"}
    /\ QdiscAdd(n, a)
    /\ To(n, IF injections[n].type = "network-loss" THEN "completed"
                                                    ELSE "sleeping",
          injections[n].duration)
    /\ UNCHANGED mishap

\* addNetworkLatency, addNetworkLoss, and the sleep that follows also when
\* tc failed.
AddNetworkFault(n) ==
    LET a == injections[n].agent IN
    /\ injections[n].stage = "accepted"
    /\ injections[n].type \in {"network-latency", "network-loss"}
    /\ QdiscAdd(n, a)
    /\ To(n, "sleeping", injections[n].duration)
    /\ UNCHANGED mishap

\* Mutant: only latency is cleaned up.
RemoveLatencyOnly(n) ==
    LET a == injections[n].agent IN
    /\ injections[n].stage = "sleeping" /\ injections[n].left = 0
    /\ injections[n].type = "network-latency"
    /\ To(n, "completed", 0)
    /\ qdisc' = [qdisc EXCEPT ![a] = None]
    /\ mishap' = mishap \ {a}

\* removeNetworkLatency, whichever injection the qdisc belongs to.
RemoveNetworkFault(n) ==
    LET a == injections[n].agent IN
    /\ injections[n].stage = "sleeping" /\ injections[n].left = 0
    /\ To(n, "completed", 0)
    /\ \/ /\ qdisc' = [qdisc EXCEPT ![a] = None]
          /\ mishap' = mishap \ {a}
       \/ /\ DelMayFail /\ qdisc[a] # None
          /\ mishap' = mishap \cup {a}
          /\ UNCHANGED qdisc

\* runStressNGCPU, runStressNGMemory block while stress-ng runs, which ends
\* at its timeout or at any time with an error.
Stress(n) ==
    /\ injections[n].stage = "accepted"
    /\ injections[n].type \in {"cpu-stress", "mem-stress"}
    /\ To(n, "stressing", 0)
    /\ UNCHANGED <<qdisc, mishap>>

StressEnds(n) ==
    /\ injections[n].stage = "stressing"
    /\ To(n, "completed", 0)
    /\ UNCHANGED <<qdisc, mishap>>

\* killRandomProcess: some process, no process, or the agent itself; a dead
\* agent takes its goroutines with it and leaves the qdisc.  The supervisor
\* starts it again.
KillProcess(n) ==
    LET a == injections[n].agent IN
    /\ injections[n].stage = "accepted"
    /\ injections[n].type = "process-kill"
    /\ \/ To(n, "completed", 0) /\ UNCHANGED mishap
       \/ /\ KillMayHitAgent
          /\ injections' = [m \in DOMAIN injections |->
                 IF /\ injections[m].agent = a
                    /\ injections[m].stage \in {"accepted", "sleeping", "stressing"}
                 THEN [injections[m] EXCEPT !.stage = "killed", !.left = 0]
                 ELSE injections[m]]
          /\ mishap' = IF qdisc[a] = None THEN mishap ELSE mishap \cup {a}
    /\ UNCHANGED qdisc

\* simulateInjection: any other type is logged and ignored.
UnknownType(n) ==
    /\ injections[n].stage = "accepted"
    /\ injections[n].type \notin {"network-latency", "network-loss",
                                  "cpu-stress", "mem-stress", "process-kill"}
    /\ To(n, "unknown", 0)
    /\ UNCHANGED <<qdisc, mishap>>

\* A unit of every sleep passes.
Sleeping == {n \in DOMAIN injections : injections[n].left > 0}
Elapse ==
    /\ injections' = [n \in DOMAIN injections |->
           IF n \in Sleeping THEN [injections[n] EXCEPT !.left = @ - 1]
                             ELSE injections[n]]
    /\ UNCHANGED <<qdisc, mishap>>

Step(n) ==
    \/ AddNetworkFault(n)
    \/ RemoveNetworkFault(n)
    \/ Stress(n)
    \/ StressEnds(n)
    \/ KillProcess(n)
    \/ UnknownType(n)

-----------------------------------------------------------------------------
(* Properties. *)

\* The netem on eth0 belongs to an injection whose goroutine will remove it,
\* unless a tc command failed or the agent died since eth0 was last clean:
\* overlapping injections, of which all but one fail to add theirs, never
\* leave a fault behind (addNetworkLatency, removeNetworkLatency).
FaultHasOwner ==
    \A a \in Agents :
        qdisc[a] # None /\ a \notin mishap
            => /\ injections[qdisc[a]].stage = "sleeping"
               /\ injections[qdisc[a]].agent = a
=============================================================================
