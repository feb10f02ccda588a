---------------------------- MODULE MCLifetimes ----------------------------
(* The two components whose work ends by a timer of its own, in small      *)
(* instances for TLC: the cgroups of an agent and the replays of the       *)
(* controller.  They share no state, and a behaviour is one of either,     *)
(* chosen at the start; the other one stays in its initial state, where    *)
(* its fair steps are disabled or change nothing.                          *)
EXTENDS Cgroups, Replay

VARIABLE component

lifetimesVars == <<component, vars, replayVars>>

LifetimesInit ==
    /\ component \in {"cgroups", "replay"}
    /\ Init
    /\ ReplayInit

LifetimesNext ==
    /\ UNCHANGED component
    /\ \/ component = "cgroups" /\ Next /\ UNCHANGED replayVars
       \/ component = "replay" /\ ReplayNext /\ UNCHANGED vars

LifetimesSpec ==
    LifetimesInit /\ [][LifetimesNext]_lifetimesVars /\ Fairness /\ ReplayFairness

----------------------------------------------------------------------------
\* Cgroups: parts of the two stock configurations, so that a re-create
\* leaves limits of the earlier one, and CPUMax overwrites CPUQuota.
Only(c, fields) == [f \in Fields |-> IF f \in fields THEN c[f] ELSE 0]

MCConfigs ==
    {Only(GetDefaultConfig, {"CPUQuota", "CPUMax"}),
     Only(GetHighLoadConfig, {"PidsMax"})}

\* Replays: of the first of two events, and of a reversed range as a dry run.
StreamEvents == {[id |-> "a", type |-> "log"]}

Asked(from, to, types) == [from |-> from, to |-> to, types |-> types]

ReplayRanges == {Asked(1, 1, {"log"}), Asked(3, 1, {})}
============================================================================
