---------------------------- MODULE FaultService ----------------------------
(***************************************************************************)
(* What a fault manager of the agent promises its callers: faults are      *)
(* started on a resource (a network interface, a cgroup) and stopped, and  *)
(* a resource is impaired exactly as long as a fault is active on it.      *)
(* NetemManager is shown to implement this in module Netem.                *)
(***************************************************************************)
CONSTANTS Faults, Resources

VARIABLES
    active,    \* active[r]: the faults active on resource r
    impaired   \* the resources that are impaired

vars == <<active, impaired>>

Init ==
    /\ active = [r \in Resources |-> {}]
    /\ impaired = {}

\* A fault lives on one resource; starting it there again changes nothing.
Start(f, r) ==
    /\ \A q \in Resources \ {r} : f \notin active[q]
    /\ active' = [active EXCEPT ![r] = @ \cup {f}]
    /\ impaired' = impaired \cup {r}

Stop(f, r) ==
    /\ f \in active[r]
    /\ active' = [active EXCEPT ![r] = @ \ {f}]
    /\ impaired' = IF active[r] = {f} THEN impaired \ {r} ELSE impaired

StopAll(r) ==
    /\ active' = [active EXCEPT ![r] = {}]
    /\ impaired' = impaired \ {r}

Next ==
    \/ \E f \in Faults, r \in Resources : Start(f, r) \/ Stop(f, r)
    \/ \E r \in Resources : StopAll(r)

Spec == Init /\ [][Next]_vars
=============================================================================
