------------------------------- MODULE Netem -------------------------------
(***************************************************************************)
(* The agent's NetemManager (agent/netem.go): network faults installed     *)
(* with tc and ip, recorded per experiment, and removed by a caller, by    *)
(* the TTL timer of the experiment, or by the periodic cleanup routine.    *)
(*                                                                         *)
(* Every exported method runs under nm.mu, so it is one action.  The       *)
(* kernel is external: a tc or ip command either does what it says or      *)
(* fails and changes nothing.  It always fails when the kernel refuses it  *)
(* (adding a root qdisc over a configured one, changing a netem that is    *)
(* not there, deleting the default qdisc, adding a link that exists), and  *)
(* may fail for any other reason when CommandsMayFail.                     *)
(*                                                                         *)
(* A method that returns an error before its first assignment (an unknown  *)
(* interface, no tc, no netem or ifb module) changes nothing: that is a    *)
(* stuttering step.                                                        *)
(***************************************************************************)
EXTENDS Naturals, FiniteSetsExt

CONSTANTS
    ExpIDs,          \* experiment identifiers a caller may use
    Ifaces,          \* network interfaces of the host
    Configs,         \* configurations a caller may ask for
    MaxParam,        \* the largest value of a parameter
    TTLs,            \* TTLs a caller may ask for; 0 is no TTL
    MaxTime,         \* bound on the clock
    MaxApplies,      \* bound on the number of faults applied
    MaxCleaners,     \* bound on the cleanup routines ever started
    CommandsMayFail, \* may a command fail that the kernel would accept?
    None             \* no record: an absent map entry or a nil pointer

\* The fields of NetemConfig; a value of 0 leaves the parameter out.
Params == {"delay", "jitter", "loss", "duplicate", "corrupt", "reorder",
           "rate", "limit"}

\* Those that cap the traffic: a larger value is a weaker fault.
Caps == {"rate", "limit"}

NetemConfig == [Params -> 0..MaxParam]

ASSUME ConfigsAssumption == Configs \subseteq NetemConfig
ASSUME TTLsAssumption == TTLs \subseteq Nat
ASSUME BoundsAssumption ==
    /\ MaxParam \in Nat /\ MaxTime \in Nat
    /\ MaxApplies \in Nat /\ MaxCleaners \in Nat \ {0}
ASSUME CommandsAssumption == CommandsMayFail \in BOOLEAN

VARIABLES
    interfaces,   \* nm.interfaces
    experiments,  \* nm.experiments
    rootQdiscs,   \* nm.rootQdiscs
    root,         \* kernel: the kind of the root qdisc of each interface
    netem,        \* kernel: the parameters of the root netem qdisc
    ifb,          \* kernel: how far the IFB of each interface is set up
    now,          \* the clock
    timers,       \* armed time.AfterFunc timers
    applies,      \* faults applied so far; numbers the timers
    cleaners,     \* cleanup routines running
    expired,      \* per cleanup routine: scanned as expired, to be reverted
    saved         \* the last exported state, or None

manager == <<interfaces, experiments, rootQdiscs>>
kernel  == <<root, netem, ifb>>
clock   == <<now, timers, applies>>
routine == <<cleaners, expired>>
vars    == <<manager, kernel, clock, routine, saved>>

NoConfig == [p \in Params |-> 0]

InterfaceState ==
    [HasNetem      : BOOLEAN,
     CurrentConfig : NetemConfig \cup {None},
     HasIngress    : BOOLEAN]

RootQdiscState == [HasNetem : BOOLEAN, Filters : SUBSET ExpIDs]

ExperimentState ==
    [Interface : Ifaces,
     Config    : NetemConfig,
     StartTime : Nat,
     TTL       : Nat,
     Direction : {"none", "egress", "ingress"}]  \* "none": left empty

Maps ==
    [interfaces  : [Ifaces -> InterfaceState \cup {None}],
     experiments : [ExpIDs -> ExperimentState \cup {None}],
     rootQdiscs  : [Ifaces -> RootQdiscState \cup {None}]]

ASSUME NoneAssumption ==
    /\ None \notin InterfaceState /\ None \notin RootQdiscState
    /\ None \notin ExperimentState /\ None \notin Maps

\* The type of every variable.
TypeOK ==
    /\ interfaces \in [Ifaces -> InterfaceState \cup {None}]
    /\ experiments \in [ExpIDs -> ExperimentState \cup {None}]
    /\ rootQdiscs \in [Ifaces -> RootQdiscState \cup {None}]
    /\ root \in [Ifaces -> {"default", "foreign", "netem"}]
    /\ netem \in [Ifaces -> NetemConfig]
    /\ ifb \in [Ifaces -> {"absent", "partial", "redirecting"}]
    /\ now \in 0..MaxTime
    /\ timers \subseteq [exp : ExpIDs, due : Nat, id : Nat]
    /\ applies \in 0..MaxApplies
    /\ cleaners \in 1..MaxCleaners
    /\ expired \in [1..MaxCleaners -> SUBSET ExpIDs]
    /\ saved \in Maps \cup {None}

\* NewNetemManager on a host whose interfaces carry the default root qdisc
\* or one that an administrator configured.
Init ==
    /\ interfaces = [i \in Ifaces |-> None]
    /\ experiments = [e \in ExpIDs |-> None]
    /\ rootQdiscs = [i \in Ifaces |-> None]
    /\ root \in [Ifaces -> {"default", "foreign"}]
    /\ netem = [i \in Ifaces |-> NoConfig]
    /\ ifb = [i \in Ifaces |-> "absent"]
    /\ now = 0
    /\ timers = {}
    /\ applies = 0
    /\ cleaners = 1
    /\ expired = [k \in 1..MaxCleaners |-> {}]
    /\ saved = None

-----------------------------------------------------------------------------
(* The kernel, and the commands sent to it. *)

\* A command the kernel accepts may still fail; one it refuses always does.
Fails(accepted) == CommandsMayFail \/ ~accepted

MayAdd(i) == root[i] = "default"
MayChange(i) == root[i] = "netem"
MayDel(i) == root[i] # "default"

\* The parameters a netem command carries: jitter only rides on a delay.
BuildNetemArgs(c) ==
    [c EXCEPT !["jitter"] = IF c["delay"] > 0 THEN c["jitter"] ELSE 0]

SetNetem(i, c) ==
    /\ root' = [root EXCEPT ![i] = "netem"]
    /\ netem' = [netem EXCEPT ![i] = BuildNetemArgs(c)]

-----------------------------------------------------------------------------
(* Helpers of the methods. *)

NewInterface == [HasNetem |-> FALSE, CurrentConfig |-> None,
                 HasIngress |-> FALSE]

GetOrCreate(i) == IF interfaces[i] = None THEN NewInterface ELSE interfaces[i]

NewRootQdisc == [HasNetem |-> FALSE, Filters |-> {}]

GetOrCreateRoot(i) ==
    IF rootQdiscs[i] = None THEN NewRootQdisc ELSE rootQdiscs[i]

\* The experiments recorded on an interface.
On(i) == {e \in ExpIDs : experiments[e] # None /\ experiments[e].Interface = i}

\* applyNetemConfig: change the netem the manager believes is there, add it
\* otherwise.
NetemAccepted(st, i) == IF st.HasNetem THEN MayChange(i) ELSE MayAdd(i)

\* Mutant: the TTL is dropped.
RecordWithoutTTL(e, i, c, t, dir) ==
    /\ experiments' = [experiments EXCEPT ![e] =
           [Interface |-> i, Config |-> c, StartTime |-> now, TTL |-> 0,
            Direction |-> dir]]
    /\ applies' = applies + 1
    /\ UNCHANGED <<now, timers>>

\* Record the experiment, over any earlier one of the same identifier, and
\* arm its TTL timer.  Timers of earlier experiments stay armed.
Record(e, i, c, t, dir) ==
    /\ experiments' = [experiments EXCEPT ![e] =
           [Interface |-> i, Config |-> c, StartTime |-> now, TTL |-> t,
            Direction |-> dir]]
    /\ timers' = IF t > 0
                 THEN timers \cup {[exp |-> e, due |-> now + t, id |-> applies]}
                 ELSE timers
    /\ applies' = applies + 1
    /\ UNCHANGED now

\* Mutant: the smallest value is taken.
MergeConfigsMin(cs) == [p \in Params |-> Min({c[p] : c \in cs})]

\* mergeConfigs: the largest value of each parameter.
MergeConfigs(cs) == [p \in Params |-> Max({c[p] : c \in cs})]

\* The bounds: a number of faults, each with a TTL that the clock outlives.
WithinBounds(t) == applies < MaxApplies /\ now + t < MaxTime

\* Mutant: minutes are taken for seconds.
ExpiredInMinutes(e) ==
    /\ experiments[e] # None
    /\ experiments[e].TTL > 0
    /\ now - experiments[e].StartTime > 60 * experiments[e].TTL

Expired(e) ==
    /\ experiments[e] # None
    /\ experiments[e].TTL > 0
    /\ now - experiments[e].StartTime > experiments[e].TTL

-----------------------------------------------------------------------------
(* The exported methods. *)

\* The interface record is created first and stays when a command fails:
\* tc qdisc show for the backup, or tc qdisc add / change.
Apply(e, i, c, t) ==
    LET st == GetOrCreate(i) IN
    /\ WithinBounds(t)
    /\ \/ /\ Fails(NetemAccepted(st, i))
          /\ interfaces' = [interfaces EXCEPT ![i] = st]
          /\ UNCHANGED <<experiments, root, netem, clock>>
       \/ /\ NetemAccepted(st, i)
          /\ SetNetem(i, c)
          /\ interfaces' = [interfaces EXCEPT ![i] =
                 [st EXCEPT !.HasNetem = TRUE, !.CurrentConfig = c]]
          /\ Record(e, i, c, t, "none")
    /\ UNCHANGED <<rootQdiscs, ifb, routine, saved>>

\* The root record keeps the filter even when a command then fails, and the
\* netem qdisc stays when it is the filter command that fails.
ApplyWithFilter(e, i, c, t) ==
    LET rq     == GetOrCreateRoot(i)
        noted  == [rq EXCEPT !.Filters = @ \cup {e}]
        st     == GetOrCreate(i)
    IN
    /\ WithinBounds(t)
    /\ \/ \* the backup command fails, before the filter is noted
          /\ ~rq.HasNetem /\ CommandsMayFail
          /\ rootQdiscs' = [rootQdiscs EXCEPT ![i] = rq]
          /\ UNCHANGED <<interfaces, experiments, root, netem, clock>>
       \/ \* tc qdisc add fails
          /\ ~rq.HasNetem /\ Fails(MayAdd(i))
          /\ rootQdiscs' = [rootQdiscs EXCEPT ![i] = noted]
          /\ UNCHANGED <<interfaces, experiments, root, netem, clock>>
       \/ \* tc filter add fails
          /\ CommandsMayFail
          /\ rq.HasNetem \/ MayAdd(i)
          /\ rootQdiscs' = [rootQdiscs EXCEPT ![i] = noted]
          /\ IF rq.HasNetem THEN UNCHANGED <<root, netem>> ELSE SetNetem(i, c)
          /\ UNCHANGED <<interfaces, experiments, clock>>
       \/ /\ rq.HasNetem \/ MayAdd(i)
          /\ IF rq.HasNetem THEN UNCHANGED <<root, netem>> ELSE SetNetem(i, c)
          /\ rootQdiscs' = [rootQdiscs EXCEPT ![i] =
                 [noted EXCEPT !.HasNetem = TRUE]]
          /\ interfaces' = [interfaces EXCEPT ![i] =
                 [st EXCEPT !.HasNetem = TRUE, !.CurrentConfig = c]]
          /\ Record(e, i, c, t, "egress")
    /\ UNCHANGED <<ifb, routine, saved>>

\* Mutant: the error of setupIFBInterface is ignored.
ApplyIngressUnchecked(e, i, c, t) ==
    /\ WithinBounds(t)
    /\ ifb[i] = "absent"
    /\ \E stage \in {"partial", "redirecting"} :
           ifb' = [ifb EXCEPT ![i] = stage]
    /\ interfaces' = [interfaces EXCEPT ![i] =
           [GetOrCreate(i) EXCEPT !.HasIngress = TRUE]]
    /\ Record(e, i, c, t, "ingress")
    /\ UNCHANGED <<rootQdiscs, root, netem, routine, saved>>

\* setupIFBInterface starts with ip link add, which fails when the IFB is
\* there; a later command that fails leaves the set-up where it is.
ApplyIngress(e, i, c, t) ==
    LET st == GetOrCreate(i) IN
    /\ WithinBounds(t)
    /\ ifb[i] = "absent"
    /\ \/ /\ CommandsMayFail
          /\ \E stage \in {"partial", "redirecting"} :
                 ifb' = [ifb EXCEPT ![i] = stage]
          /\ UNCHANGED <<interfaces, experiments, clock>>
       \/ /\ ifb' = [ifb EXCEPT ![i] = "redirecting"]
          /\ interfaces' = [interfaces EXCEPT ![i] =
                 [st EXCEPT !.HasIngress = TRUE]]
          /\ Record(e, i, c, t, "ingress")
    /\ UNCHANGED <<rootQdiscs, root, netem, routine, saved>>

\* Mutant: the record is cleared although tc failed.
RestoreClearsFirst(i) ==
    /\ \/ Fails(MayDel(i)) /\ UNCHANGED <<root, netem>>
       \/ /\ MayDel(i)
          /\ root' = [root EXCEPT ![i] = "default"]
          /\ netem' = [netem EXCEPT ![i] = NoConfig]
    /\ interfaces' = [interfaces EXCEPT
           ![i].HasNetem = FALSE, ![i].CurrentConfig = None]

\* restoreOriginalQdisc deletes the root qdisc, whatever it was before; the
\* caller then clears the record of the interface, unless tc failed.
RestoreOriginalQdisc(i) ==
    \/ /\ Fails(MayDel(i))
       /\ UNCHANGED <<interfaces, root, netem>>
    \/ /\ MayDel(i)
       /\ root' = [root EXCEPT ![i] = "default"]
       /\ netem' = [netem EXCEPT ![i] = NoConfig]
       /\ interfaces' = [interfaces EXCEPT
              ![i].HasNetem = FALSE, ![i].CurrentConfig = None]

\* recalculateNetemConfig: install the merged configuration of the others.
RecalculateNetemConfig(i, others) ==
    /\ \/ /\ Fails(NetemAccepted(interfaces[i], i))
          /\ UNCHANGED <<root, netem>>
       \/ /\ NetemAccepted(interfaces[i], i)
          /\ SetNetem(i, MergeConfigs({experiments[x].Config : x \in others}))
    /\ UNCHANGED interfaces

Found(e) ==
    /\ experiments[e] # None
    /\ interfaces[experiments[e].Interface] # None

\* Mutant: other experiments on the interface are not looked for.
RevertAlwaysRestores(e) ==
    /\ \/ /\ ~Found(e)
          /\ UNCHANGED <<interfaces, experiments, root, netem>>
       \/ /\ Found(e)
          /\ experiments' = [experiments EXCEPT ![e] = None]
          /\ RestoreOriginalQdisc(experiments[e].Interface)
    /\ UNCHANGED <<rootQdiscs, ifb, saved>>

\* Revert: the record goes first, so a tc command that fails is not retried.
\* Shared by the callers, the timers and the cleanup routines.
Revert(e) ==
    /\ \/ /\ ~Found(e)
          /\ UNCHANGED <<interfaces, experiments, root, netem>>
       \/ /\ Found(e)
          /\ experiments' = [experiments EXCEPT ![e] = None]
          /\ LET i == experiments[e].Interface
                 others == On(i) \ {e}
             IN IF others = {} THEN RestoreOriginalQdisc(i)
                               ELSE RecalculateNetemConfig(i, others)
    /\ UNCHANGED <<rootQdiscs, ifb, saved>>

\* Mutant: the records go, the qdisc stays.
RevertAllRecords(i) ==
    /\ interfaces[i] # None
    /\ experiments' = [e \in ExpIDs |->
                          IF e \in On(i) THEN None ELSE experiments[e]]
    /\ UNCHANGED <<interfaces, rootQdiscs, kernel, clock, routine, saved>>

RevertAll(i) ==
    /\ interfaces[i] # None
    /\ experiments' = [e \in ExpIDs |->
                          IF e \in On(i) THEN None ELSE experiments[e]]
    /\ RestoreOriginalQdisc(i)
    /\ UNCHANGED <<rootQdiscs, ifb, clock, routine, saved>>

\* Mutant: the root qdisc records, a later addition, are not exported.
ExportWithoutRoots ==
    /\ saved' = [interfaces |-> interfaces, experiments |-> experiments]
    /\ UNCHANGED <<manager, kernel, clock, routine>>

ExportState ==
    /\ saved' = [interfaces |-> interfaces, experiments |-> experiments,
                 rootQdiscs |-> rootQdiscs]
    /\ UNCHANGED <<manager, kernel, clock, routine>>

\* ImportState replaces the maps and starts one more cleanup routine (the
\* cleanupTimer it stops is never set); it arms no TTL timer.
ImportState ==
    /\ saved # None
    /\ cleaners < MaxCleaners
    /\ interfaces' = saved.interfaces
    /\ experiments' = saved.experiments
    /\ rootQdiscs' = saved.rootQdiscs
    /\ cleaners' = cleaners + 1
    /\ UNCHANGED <<kernel, clock, expired, saved>>

-----------------------------------------------------------------------------
(* What runs without a caller. *)

\* time.AfterFunc(ttl, Revert): at its due time or later, in any order.
TimerFires(tm) ==
    /\ tm.due <= now
    /\ timers' = timers \ {tm}
    /\ Revert(tm.exp)
    /\ UNCHANGED <<now, applies, routine>>

\* cleanupRoutine collects the expired experiments under the lock...
CleanupScan(k) ==
    /\ k <= cleaners
    /\ expired[k] = {}
    /\ expired' = [expired EXCEPT ![k] = {e \in ExpIDs : Expired(e)}]
    /\ UNCHANGED <<manager, kernel, clock, cleaners, saved>>

\* ... and reverts them one by one after releasing it, by identifier.
CleanupRevert(k, e) ==
    /\ k <= cleaners
    /\ e \in expired[k]
    /\ expired' = [expired EXCEPT ![k] = @ \ {e}]
    /\ Revert(e)
    /\ UNCHANGED <<clock, cleaners>>

Tick ==
    /\ now < MaxTime
    /\ now' = now + 1
    /\ UNCHANGED <<manager, kernel, timers, applies, routine, saved>>

\* The agent process dies and starts again with a new manager; the kernel
\* keeps its qdiscs and what was exported is still on disk.
Restart ==
    /\ interfaces' = [i \in Ifaces |-> None]
    /\ experiments' = [e \in ExpIDs |-> None]
    /\ rootQdiscs' = [i \in Ifaces |-> None]
    /\ timers' = {}
    /\ cleaners' = 1
    /\ expired' = [k \in 1..MaxCleaners |-> {}]
    /\ UNCHANGED <<kernel, now, applies, saved>>

-----------------------------------------------------------------------------
(* Specifications, from the disciplined caller to every operation. *)

CallRevert(e) == Revert(e) /\ UNCHANGED <<clock, routine>>

\* A caller that never moves an active identifier to another interface.
Disciplined(e, i) == experiments[e] # None => experiments[e].Interface = i

Background ==
    \/ Tick
    \/ \E tm \in timers : TimerFires(tm)
    \/ \E k \in 1..MaxCleaners : CleanupScan(k)
    \/ \E k \in 1..MaxCleaners, e \in ExpIDs : CleanupRevert(k, e)

Removals ==
    \/ \E e \in ExpIDs : CallRevert(e)
    \/ \E i \in Ifaces : RevertAll(i)

EgressNext ==
    \/ \E e \in ExpIDs, i \in Ifaces, c \in Configs, t \in TTLs :
           Apply(e, i, c, t)
    \/ Removals
    \/ Background

DisciplinedNext ==
    \/ \E e \in ExpIDs, i \in Ifaces, c \in Configs, t \in TTLs :
           Disciplined(e, i) /\ Apply(e, i, c, t)
    \/ Removals
    \/ Background

Next ==
    \/ EgressNext
    \/ \E e \in ExpIDs, i \in Ifaces, c \in Configs, t \in TTLs :
           \/ ApplyWithFilter(e, i, c, t)
           \/ ApplyIngress(e, i, c, t)
    \/ ExportState
    \/ ImportState
    \/ Restart

EgressSpec == Init /\ [][EgressNext]_vars
DisciplinedSpec == Init /\ [][DisciplinedNext]_vars
Spec == Init /\ [][Next]_vars

\* The runtime fires due timers, ticks the cleanup routines and lets time
\* pass; callers need never call.
Fairness ==
    /\ WF_vars(Tick)
    /\ WF_vars(\E tm \in timers : TimerFires(tm))
    /\ \A k \in 1..MaxCleaners :
           /\ WF_vars(CleanupScan(k))
           /\ WF_vars(\E e \in ExpIDs : CleanupRevert(k, e))

FairSpec == Spec /\ Fairness
FairDisciplinedSpec == DisciplinedSpec /\ Fairness
-----------------------------------------------------------------------------
(* Properties. *)

\* Revert finds the interface of every experiment it finds (netem.go:319-322),
\* also after a restart and an import: no record can get stuck.
ExperimentInterfaceKnown ==
    \A e \in ExpIDs :
        experiments[e] # None => interfaces[experiments[e].Interface] # None

\* An ingress experiment is recorded only over a complete redirection to
\* its IFB (netem.go:257-266), whatever fails and whatever is imported.
IngressInForce ==
    \A e \in ExpIDs :
        experiments[e] # None /\ experiments[e].Direction = "ingress"
            => ifb[experiments[e].Interface] = "redirecting"

\* What a removal that leaves some experiments on an interface, and changes
\* its netem, may leave in force: every impairment asked for by those that
\* remain, at least as strong as they asked; a cap if one of them asked for
\* one; and nothing beyond what they asked, so nothing of those that went.
\* A cap is only as tight as the loosest that remains: mergeConfigs takes
\* the largest rate and limit too (netem.go:595-600).
OthersInForceAfter(i) ==
    /\ On(i)' # {} /\ On(i)' # On(i) /\ On(i)' \subseteq On(i)
    /\ netem'[i] # netem[i]
    => /\ \A e \in On(i)', p \in Params \ Caps :
              BuildNetemArgs(experiments'[e].Config)[p] <= netem'[i][p]
       /\ \A e \in On(i)', p \in Caps :
              experiments'[e].Config[p] > 0 => netem'[i][p] > 0
       /\ \A p \in Params : \E e \in On(i)' :
              netem'[i][p] <= experiments'[e].Config[p]

\* When one of several experiments goes, and tc does what it is told, the
\* others stay in force and nothing else does (Revert, mergeConfigs).
RemainingInForce == [][\A i \in Ifaces : OthersInForceAfter(i)]_vars

\* The manager is never wrong about the kernel: an interface is recorded as
\* having a netem qdisc exactly when it has one, so the next command is the
\* right one of tc qdisc add and change (applyNetemConfig).  Commands may
\* fail and identifiers may be reused.
BeliefMatchesKernel ==
    \A i \in Ifaces :
        (interfaces[i] # None /\ interfaces[i].HasNetem) <=> root[i] = "netem"

\* An experiment is recorded only while its interface carries a netem qdisc.
ImpairedWhileActive ==
    \A e \in ExpIDs :
        experiments[e] # None => root[experiments[e].Interface] = "netem"

\* With commands that work and identifiers that stay on one interface, the
\* manager implements FaultService: an interface is impaired exactly as long
\* as an experiment is recorded on it.
Service == INSTANCE FaultService WITH
    Faults <- ExpIDs, Resources <- Ifaces,
    active <- [i \in Ifaces |-> On(i)],
    impaired <- {i \in Ifaces : root[i] = "netem"}
ImplementsFaultService == Service!Spec

\* An experiment with a TTL does not stay for ever, although an import arms
\* no timer for it: the cleanup routines catch it.
TTLEnforced ==
    \A e \in ExpIDs :
        (experiments[e] # None /\ experiments[e].TTL > 0)
            ~> ~(experiments[e] # None /\ experiments[e].TTL > 0)

\* If every fault has a TTL, no interface stays impaired for ever.
ImpairmentEnds ==
    \A i \in Ifaces : (root[i] = "netem") ~> (root[i] # "netem")
-----------------------------------------------------------------------------
(* What comments of netem.go say and the code does not do. *)

\* "First ensure we have a netem qdisc" (netem.go:730): a filtered fault is
\* recorded only on an interface with a netem qdisc.
FilteredHasNetem ==
    \A e \in ExpIDs :
        experiments[e] # None /\ experiments[e].Direction = "egress"
            => root[experiments[e].Interface] = "netem"
=============================================================================
