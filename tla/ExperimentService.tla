------------------------- MODULE ExperimentService -------------------------
(***************************************************************************)
(* What ChaosLabs promises whoever asks for experiments.  An experiment    *)
(* becomes faults: no more than were asked for, none before its start,     *)
(* none a second time.  A network fault is on for as long as was asked.    *)
(* It impairs the network of its agent when it begins, unless it cannot be *)
(* installed, which nobody is told: a fault that is on may impair nothing. *)
(* The first of an agent's faults to end ends the impairment, unless its   *)
(* removal fails or the agent dies, which is remembered.  How requests     *)
(* wait, travel and get lost is left open.  ControlPlane is shown to       *)
(* implement this.                                                         *)
(***************************************************************************)
EXTENDS Naturals, Sequences

CONSTANTS Requests, Agents, InstallMayFail, RemovalMayFail, AgentMayDie

VARIABLES
    now,       \* the time
    asked,     \* the experiments accepted, in order
    faults,    \* by experiment and copy: the faults that reached an agent
    impaired,  \* the agents whose network is impaired
    unclean    \* those left impaired by accident

vars == <<now, asked, faults, impaired, unclean>>

Init ==
    /\ now = 0
    /\ asked = <<>>
    /\ faults = <<>>
    /\ impaired = {} /\ unclean = {}

NumberAsked(req) == IF req.parallel /\ req.count > 0 THEN req.count ELSE 1
IsNetworkFault(f) == f.type \in {"network-latency", "network-loss"}

Ask(req) ==
    /\ asked' = Append(asked, req)
    /\ UNCHANGED <<now, faults, impaired, unclean>>

\* Copy i of experiment x reaches an agent, once.
Reach(x, i, a) ==
    /\ i < NumberAsked(asked[x]) /\ asked[x].start <= now
    /\ <<x, i>> \notin DOMAIN faults
    /\ faults' = [n \in DOMAIN faults \cup {<<x, i>>} |->
           IF n = <<x, i>>
           THEN [agent |-> a, type |-> asked[x].type,
                 duration |-> asked[x].duration, phase |-> "reached", left |-> 0]
           ELSE faults[n]]
    /\ UNCHANGED <<now, asked, impaired, unclean>>

Turned(f, phase, left) == [f EXCEPT !.phase = phase, !.left = left]
To(n, phase, left) == faults' = [faults EXCEPT ![n] = Turned(@, phase, left)]

\* A fault begins; only a network fault has its time from here, whether or
\* not it could be installed.
Begin(n) ==
    LET f == faults[n] IN
    /\ f.phase = "reached"
    /\ To(n, "on", IF IsNetworkFault(f) THEN f.duration ELSE 0)
    /\ \/ IsNetworkFault(f) /\ impaired' = impaired \cup {f.agent}
       \/ (InstallMayFail \/ ~IsNetworkFault(f)) /\ UNCHANGED impaired
    /\ UNCHANGED <<now, asked, unclean>>

\* A fault that is over at once, or is none.
Pass(n) ==
    /\ faults[n].phase = "reached" /\ ~IsNetworkFault(faults[n])
    /\ To(n, "over", 0)
    /\ UNCHANGED <<now, asked, impaired, unclean>>

\* The time of a network fault is up, or another fault ends.
End(n) ==
    LET f == faults[n] IN
    /\ f.phase = "on" /\ f.left = 0
    /\ To(n, "over", 0)
    /\ \/ /\ ~IsNetworkFault(f)
          /\ UNCHANGED <<impaired, unclean>>
       \/ /\ IsNetworkFault(f)
          /\ impaired' = impaired \ {f.agent}
          /\ unclean' = unclean \ {f.agent}
       \/ /\ IsNetworkFault(f) /\ RemovalMayFail /\ f.agent \in impaired
          /\ unclean' = unclean \cup {f.agent}
          /\ UNCHANGED impaired
    /\ UNCHANGED <<now, asked>>

\* A process-kill hits the agent, and all its faults are over.
Die(a) ==
    /\ AgentMayDie
    /\ \E n \in DOMAIN faults :
          /\ faults[n].agent = a /\ faults[n].phase = "reached"
          /\ faults[n].type = "process-kill"
    /\ faults' = [n \in DOMAIN faults |->
           IF faults[n].agent = a /\ faults[n].phase # "over"
           THEN Turned(faults[n], "over", 0)
           ELSE faults[n]]
    /\ unclean' = IF a \in impaired THEN unclean \cup {a} ELSE unclean
    /\ UNCHANGED <<now, asked, impaired>>

Tick ==
    /\ now' \in {now, now + 1}
    /\ faults' = [n \in DOMAIN faults |->
           IF faults[n].left > 0 THEN [faults[n] EXCEPT !.left = @ - 1]
                                 ELSE faults[n]]
    /\ UNCHANGED <<asked, impaired, unclean>>

Next ==
    \/ \E req \in Requests : Ask(req)
    \/ \E x \in DOMAIN asked : \E i \in 0..(NumberAsked(asked[x]) - 1), a \in Agents :
          Reach(x, i, a)
    \/ \E n \in DOMAIN faults : Begin(n) \/ Pass(n) \/ End(n)
    \/ \E a \in Agents : Die(a)
    \/ Tick

Spec == Init /\ [][Next]_vars
=============================================================================
