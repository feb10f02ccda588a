------------------------------ MODULE Cgroups ------------------------------
(***************************************************************************)
(* The agent's CgroupManager (agent/cgroups.go): one cgroup v2 directory   *)
(* per experiment under /sys/fs/cgroup/chaoslabs, the limits written into  *)
(* it, the processes moved into it, and its removal by a caller, by a TTL  *)
(* timer or by the cleanup routine.                                        *)
(*                                                                         *)
(* Every exported method runs under cgm.mu, so it is one action.  The      *)
(* kernel is external.  Removing a cgroup fails while a process is in it;  *)
(* writing 0 to cgroup.procs moves the writing process, the agent; and any *)
(* other file operation, any kill and the agent may fail, MaxFailures times*)
(* in all.                                                                 *)
(*                                                                         *)
(* Time is relative: the age of a record with a TTL is now.Sub(Created),   *)
(* counted up to the first value above every TTL, and a timer counts down. *)
(***************************************************************************)
EXTENDS Naturals, Sequences, FiniteSetsExt

CONSTANTS
    ExpIDs,       \* experiment identifiers a caller may use
    Pids,         \* processes of the host
    Agent,        \* the process of the agent
    Configs,      \* configurations a caller may ask for
    TTLs,         \* TTLs a caller may ask for; 0 is no TTL
    MaxTTL,       \* the largest TTL
    MaxCreates,   \* bound on the cgroups created; numbers the timers
    MaxCleaners,  \* bound on the cleanup routines of one agent process
    MaxFailures,  \* bound on the failures of the kernel and of the agent
    None          \* an absent map entry

\* The directory name validateCgroupsV2 tries its permissions on; nothing
\* keeps a caller from using it as an experiment identifier.
Scratch == "test"

Groups == ExpIDs \cup {Scratch}
Procs  == Pids \cup {Agent}

\* The writes of applyResourceLimits in order: the field of the
\* configuration, the file it goes to, and the factor that converts it.
Writes ==
    <<[field |-> "CPUQuota",   file |-> "cpu.max",         factor |-> 1],
      [field |-> "CPUMax",     file |-> "cpu.max",         factor |-> 1000],
      [field |-> "MemoryHigh", file |-> "memory.high",     factor |-> 1],
      [field |-> "MemoryMax",  file |-> "memory.max",      factor |-> 1],
      [field |-> "MemorySwap", file |-> "memory.swap.max", factor |-> 1],
      [field |-> "PidsMax",    file |-> "pids.max",        factor |-> 1],
      [field |-> "IOWeight",   file |-> "io.weight",       factor |-> 1]>>

Fields == {Writes[i].field : i \in 1..Len(Writes)}
Files  == {Writes[i].file : i \in 1..Len(Writes)}

\* NetworkClass is a field of CgroupConfig too, but nothing writes it.
CgroupConfig == [Fields -> Nat]

MiB == 1024 * 1024

GetDefaultConfig ==
    [CPUQuota |-> 50000, CPUMax |-> 25, MemoryHigh |-> 100 * MiB,
     MemoryMax |-> 200 * MiB, MemorySwap |-> 50 * MiB,
     PidsMax |-> 10, IOWeight |-> 100]

GetHighLoadConfig ==
    [CPUQuota |-> 200000, CPUMax |-> 50, MemoryHigh |-> 500 * MiB,
     MemoryMax |-> 1024 * MiB, MemorySwap |-> 200 * MiB,
     PidsMax |-> 50, IOWeight |-> 200]

ASSUME ConfigsAssumption == Configs \subseteq CgroupConfig
ASSUME TTLsAssumption == MaxTTL \in Nat /\ TTLs \subseteq 0..MaxTTL
ASSUME GroupsAssumption == ExpIDs \cap {"outside", "dead"} = {}
ASSUME CgroupBoundsAssumption ==
    MaxCreates \in Nat /\ MaxCleaners \in Nat \ {0} /\ MaxFailures \in Nat

VARIABLES
    experiments,  \* cgm.experiments
    dir,          \* kernel: does the directory of a group exist?
    limits,       \* kernel: the limits in force in a group; 0 is none
    cgroup,       \* kernel: the group of each process, "outside" or "dead"
    timers,       \* armed time.AfterFunc timers, by the number of the create
    creates,      \* cgroups created so far
    cleaners,     \* cleanup routines running
    expired,      \* per cleanup routine: scanned as expired, to be destroyed
    saved,        \* the last exported state, or None
    failures,     \* failures so far
    suspect       \* history: IDs whose record and cgroup may disagree

kernel  == <<dir, limits, cgroup>>
routine == <<cleaners, expired>>
vars    == <<experiments, kernel, timers, creates, routine, saved, failures,
             suspect>>

CgroupState == [Config : CgroupConfig, Age : 0..(MaxTTL + 1), TTL : 0..MaxTTL]

Experiments == [ExpIDs -> CgroupState \cup {None}]

Timer == [exp : ExpIDs, left : 0..MaxTTL]

NoLimits == [f \in Files |-> 0]

ASSUME CgroupNoneAssumption ==
    None \notin CgroupState /\ None \notin Timer /\ None \notin Experiments

\* The type of every variable; a process is only in a group that exists.
TypeOK ==
    /\ experiments \in Experiments
    /\ dir \in [Groups -> BOOLEAN]
    /\ limits \in [Groups -> [Files -> Nat]]
    /\ cgroup \in [Procs -> Groups \cup {"outside", "dead"}]
    /\ timers \in [1..MaxCreates -> Timer \cup {None}]
    /\ creates \in 0..MaxCreates
    /\ cleaners \in 1..MaxCleaners
    /\ expired \in [1..MaxCleaners -> SUBSET ExpIDs]
    /\ saved \in Experiments \cup {None}
    /\ failures \in 0..MaxFailures
    /\ suspect \subseteq ExpIDs
    /\ \A p \in Procs : cgroup[p] \in Groups => dir[cgroup[p]]

\* NewCgroupManager on a host that has run no experiment.
Init ==
    /\ experiments = [e \in ExpIDs |-> None]
    /\ dir = [g \in Groups |-> FALSE]
    /\ limits = [g \in Groups |-> NoLimits]
    /\ cgroup = [p \in Procs |-> "outside"]
    /\ timers = [n \in 1..MaxCreates |-> None]
    /\ creates = 0
    /\ cleaners = 1
    /\ expired = [k \in 1..MaxCleaners |-> {}]
    /\ saved = None
    /\ failures = 0
    /\ suspect = {}

----------------------------------------------------------------------------
(* The kernel, as values: a record of its three variables. *)

Kernel == [dir |-> dir, limits |-> limits, cgroup |-> cgroup]

Members(k, g) == {p \in Procs : k.cgroup[p] = g}

\* os.MkdirAll: an existing directory is kept as it is.
MkdirAll(k, g) == [k EXCEPT !.dir[g] = TRUE]

\* os.RemoveAll when nothing but a process in the group hinders it.
RemoveAll(k, g) ==
    IF Members(k, g) = {}
    THEN [k EXCEPT !.dir[g] = FALSE, !.limits[g] = NoLimits]
    ELSE k

\* os.WriteFile of p to the cgroup.procs of g.
Move(k, p, g) == [k EXCEPT !.cgroup[p] = g]

SetKernel(k) == dir' = k.dir /\ limits' = k.limits /\ cgroup' = k.cgroup

\* One more kernel operation, or the agent itself, fails.
Fails == failures < MaxFailures /\ failures' = failures + 1

----------------------------------------------------------------------------
(* The operations of CgroupManager. *)

\* The limits of a group after the first n writes for configuration c:
\* in each file the last write whose field is positive.
ApplyResourceLimits(lim, c, n) ==
    [f \in Files |->
        LET done == {i \in 1..n : Writes[i].file = f /\ c[Writes[i].field] > 0}
        IN  IF done = {} THEN lim[f]
            ELSE LET w == Writes[Max(done)] IN c[w.field] * w.factor]

\* validateCgroupsV2 moves the agent into the scratch group, which then
\* cannot be removed any more.
ValidateCgroupsV2 ==
    RemoveAll(Move(MkdirAll(Kernel, Scratch), Agent, Scratch), Scratch)

\* CreateCgroup fails before it has made its directory: on the write to the
\* cgroup.procs of the scratch group, or on os.MkdirAll.
CreateFailsEarly ==
    /\ Fails
    /\ \/ SetKernel(RemoveAll(MkdirAll(Kernel, Scratch), Scratch))
       \/ SetKernel(ValidateCgroupsV2)
    /\ UNCHANGED <<experiments, timers, creates, routine, saved, suspect>>

\* The kernel after CreateCgroup made directory e and did n writes.
Limited(k, e, c, n) ==
    [MkdirAll(k, e) EXCEPT !.limits[e] = ApplyResourceLimits(@, c, n)]

\* CreateCgroup fails in applyResourceLimits at the nth write and removes
\* the directory, whether or not it was there before; an error of the
\* removal is ignored.
CreateFails(e, c, n) ==
    /\ Fails
    /\ c[Writes[n].field] > 0
    /\ LET k == Limited(ValidateCgroupsV2, e, c, n - 1)
       IN  SetKernel(k) \/ SetKernel(RemoveAll(k, e))
    /\ suspect' = IF experiments[e] # None \/ dir'[e]
                  THEN suspect \cup {e} ELSE suspect \ {e}
    /\ UNCHANGED <<experiments, timers, creates, routine, saved>>

\* The record of a new cgroup and its TTL timer, which is never stopped.
RecordState(e, c, ttl) ==
    /\ creates < MaxCreates
    /\ creates' = creates + 1
    /\ experiments' =
           [experiments EXCEPT ![e] = [Config |-> c, Age |-> 0, TTL |-> ttl]]
    /\ timers' = IF ttl > 0
                 THEN [timers EXCEPT ![creates'] = [exp |-> e, left |-> ttl]]
                 ELSE timers
    /\ suspect' = suspect \ {e}
    /\ UNCHANGED <<routine, saved, failures>>

\* CreateCgroup succeeds, also for an experiment that has a cgroup already.
CreateCgroup(e, c, ttl) ==
    /\ RecordState(e, c, ttl)
    /\ SetKernel(Limited(ValidateCgroupsV2, e, c, Len(Writes)))

\* Mutant: AddProcess without its check for a known experiment and its directory.
AddProcessUnchecked(e, p) ==
    /\ cgroup[p] \notin {"dead", e}
    /\ SetKernel(Move(Kernel, p, e))
    /\ UNCHANGED <<experiments, timers, creates, routine, saved, failures,
                   suspect>>

\* AddProcess, of any process: 0 and the agent's own ID move the agent.
\* Writing to the cgroup.procs of a missing directory fails.
AddProcess(e, p) ==
    /\ experiments[e] # None
    /\ dir[e]
    /\ cgroup[p] \notin {"dead", e}
    /\ SetKernel(Move(Kernel, p, e))
    /\ UNCHANGED <<experiments, timers, creates, routine, saved, failures,
                   suspect>>

\* killProcessesInCgroup: every process of the group but the survivors dies.
KillProcessesInCgroup(k, g, survivors) ==
    [k EXCEPT !.cgroup = [p \in Procs |->
        IF p \in Members(k, g) \ survivors THEN "dead" ELSE k.cgroup[p]]]

\* The steps of DestroyCgroup for a recorded experiment that does not kill
\* the agent: the record goes only if the directory is gone.
Destroyed(e) ==
    /\ SetKernel(RemoveAll(KillProcessesInCgroup(Kernel, e, {}), e))
    /\ experiments' = [experiments EXCEPT ![e] = None]
    /\ suspect' = suspect \ {e}
    /\ UNCHANGED failures

\* Mutant: DestroyCgroup drops the record before it knows that the removal worked.
DestroyForgets(e) ==
    /\ Fails
    /\ \E survivors \in SUBSET Members(Kernel, e) :
          SetKernel(KillProcessesInCgroup(Kernel, e, survivors))
    /\ experiments' = [experiments EXCEPT ![e] = None]
    /\ UNCHANGED suspect

\* Some processes survive the kill, or the removal fails by itself: the
\* error is returned and the record stays.
DestroyFails(e) ==
    /\ Fails
    /\ \E survivors \in SUBSET Members(Kernel, e) :
          SetKernel(KillProcessesInCgroup(Kernel, e, survivors))
    /\ UNCHANGED <<experiments, suspect>>

\* What the kernel keeps when the agent's process ends and a new one starts.
AgentRestarts ==
    /\ experiments' = [e \in ExpIDs |-> None]
    /\ timers' = [n \in 1..MaxCreates |-> None]
    /\ cleaners' = 1
    /\ expired' = [k \in 1..MaxCleaners |-> {}]
    /\ suspect' = {e \in ExpIDs : dir[e]}
    /\ UNCHANGED <<dir, limits, creates, saved>>

\* DestroyCgroup kills the agent that runs it, before or after the other
\* processes of the group.
DestroyKillsAgent(e) ==
    /\ experiments[e] # None
    /\ Agent \in Members(Kernel, e)
    /\ \E killed \in SUBSET (Members(Kernel, e) \ {Agent}) :
          cgroup' = [p \in Procs |-> CASE p \in killed -> "dead"
                                       [] p = Agent    -> "outside"
                                       [] OTHER        -> cgroup[p]]
    /\ AgentRestarts
    /\ UNCHANGED failures

\* DestroyCgroup up to its return; an unknown experiment is an error.
DestroyCgroup(e) ==
    \/ /\ experiments[e] = None
       /\ UNCHANGED <<experiments, kernel, failures, suspect>>
    \/ /\ experiments[e] # None
       /\ Agent \notin Members(Kernel, e)
       /\ Destroyed(e) \/ DestroyFails(e)

\* A caller destroys a cgroup.
Destroy(e) ==
    \/ /\ DestroyCgroup(e)
       /\ UNCHANGED <<timers, creates, routine, saved>>
    \/ DestroyKillsAgent(e)

\* The TTL timer of the nth create fires.
TimerFires(n) ==
    /\ timers[n] # None
    /\ timers[n].left = 0
    /\ \/ /\ DestroyCgroup(timers[n].exp)
          /\ timers' = [timers EXCEPT ![n] = None]
          /\ UNCHANGED <<creates, routine, saved>>
       \/ DestroyKillsAgent(timers[n].exp)

\* Mutant: the cleanup routine takes only what has no TTL for expired.
ExpiredWithoutTTL(x) == x # None /\ x.TTL = 0

\* What cleanupRoutine takes for expired.
Expired(x) == x # None /\ x.TTL > 0 /\ x.Age > x.TTL

\* A cleanup routine scans the records under the lock.
Scan(k) ==
    /\ k <= cleaners
    /\ expired[k] = {}
    /\ LET found == {e \in ExpIDs : Expired(experiments[e])}
       IN  found # {} /\ expired' = [expired EXCEPT ![k] = found]
    /\ UNCHANGED <<experiments, kernel, timers, creates, cleaners, saved,
                   failures, suspect>>

\* It destroys what it found one by one, each under the lock again.
CleanUp(k, e) ==
    /\ e \in expired[k]
    /\ \/ /\ DestroyCgroup(e)
          /\ expired' = [expired EXCEPT ![k] = @ \ {e}]
          /\ UNCHANGED <<timers, creates, cleaners, saved>>
       \/ DestroyKillsAgent(e)

\* ExportState.
ExportState ==
    /\ saved # experiments
    /\ saved' = experiments
    /\ UNCHANGED <<experiments, kernel, timers, creates, routine, failures,
                   suspect>>

\* ImportState replaces the records, arms no timer and starts one more
\* cleanup routine (cleanupTimer is never set).
ImportState ==
    /\ saved # None
    /\ cleaners < MaxCleaners
    /\ experiments' = saved
    /\ cleaners' = cleaners + 1
    /\ suspect' = suspect \cup {e \in ExpIDs : saved[e] # experiments[e]}
    /\ UNCHANGED <<kernel, timers, creates, expired, saved, failures>>

\* The agent's process ends for a reason of its own and is started again.
Restart ==
    /\ Fails
    /\ cgroup' = [cgroup EXCEPT ![Agent] = "outside"]
    /\ AgentRestarts

Older(x) ==
    [e \in ExpIDs |-> IF x[e] # None /\ x[e].TTL > 0 /\ x[e].Age <= MaxTTL
                      THEN [x[e] EXCEPT !.Age = @ + 1] ELSE x[e]]

\* Time passes.
Tick ==
    /\ experiments' = Older(experiments)
    /\ saved' = IF saved = None THEN None ELSE Older(saved)
    /\ timers' = [n \in 1..MaxCreates |->
                     IF timers[n] = None \/ timers[n].left = 0 THEN timers[n]
                     ELSE [timers[n] EXCEPT !.left = @ - 1]]
    /\ UNCHANGED <<kernel, creates, routine, failures, suspect>>

----------------------------------------------------------------------------
Next ==
    \/ CreateFailsEarly
    \/ \E e \in ExpIDs, c \in Configs :
          \/ \E n \in 1..Len(Writes) : CreateFails(e, c, n)
          \/ \E ttl \in TTLs : CreateCgroup(e, c, ttl)
    \/ \E e \in ExpIDs, p \in Procs : AddProcess(e, p)
    \/ \E e \in ExpIDs : Destroy(e)
    \/ \E n \in 1..MaxCreates : TimerFires(n)
    \/ \E k \in 1..MaxCleaners :
          Scan(k) \/ \E e \in ExpIDs : CleanUp(k, e)
    \/ ExportState
    \/ ImportState
    \/ Restart
    \/ Tick

Spec == Init /\ [][Next]_vars

\* The clock runs, and so does the goroutine of the first cleanup routine;
\* nothing is assumed of the timers and of the routines an import adds.
Fairness ==
    /\ WF_vars(Tick)
    /\ WF_vars(Scan(1) \/ \E e \in ExpIDs : CleanUp(1, e))

FairSpec == Spec /\ Fairness

----------------------------------------------------------------------------
\* An experiment is recorded exactly while its cgroup exists, and the limits
\* of its configuration are in force there: writing them again would change
\* nothing.  Left out are the IDs an import, a restart or a failed create
\* of the same ID has made suspect, and the ID that doubles as the scratch
\* group (agent/cgroups.go: CreateCgroup, DestroyCgroup).
RecordsMatchKernel ==
    \A e \in ExpIDs \ (suspect \cup {Scratch}) :
        /\ experiments[e] # None <=> dir[e]
        /\ experiments[e] # None =>
              ApplyResourceLimits(limits[e], experiments[e].Config,
                                  Len(Writes)) = limits[e]

\* No record of a cgroup with a TTL stays: again and again there is a moment
\* at which there is none.  This holds also when the timers were lost in a
\* restart and only imported records are left, when processes survived the
\* kill or removals failed, and when DestroyCgroup kills the agent.  A cgroup
\* whose record a restart took is not meant (agent/cgroups.go: cleanupRoutine).
TTLEnforced ==
    []<>(\A e \in ExpIDs : experiments[e] # None => experiments[e].TTL = 0)
============================================================================
