---------------------------- MODULE CgroupsProofs ----------------------------
(* Proofs about Cgroups, for any number of experiments and processes and    *)
(* all configurations and TTLs.                                             *)
EXTENDS Cgroups, TLAPS

-----------------------------------------------------------------------------
(* applyResourceLimits. *)

LEMMA WritesFacts ==
    /\ Len(Writes) = 7
    /\ \A i \in 1..7 : /\ Writes[i].field \in Fields /\ Writes[i].file \in Files
                       /\ Writes[i].factor \in Nat
<1>1. Len(Writes) = 7
  BY DEF Writes
<1>2. \A i \in 1..7 : Writes[i].factor \in Nat
  BY DEF Writes
<1>3. QED
  BY <1>1, <1>2 DEF Fields, Files

LEMMA LastWriteExists ==
    ASSUME NEW D, D \subseteq 1..7, D # {}
    PROVE  Max(D) \in D
<1>1. \E x \in D : \A y \in D : x >= y
  <2> DEFINE Top(x) == x \in D /\ \A y \in D : x >= y
  <2>1. \A x \in 1..7 : x \in D /\ (\A y \in 1..7 : y > x => y \notin D) => Top(x)
    OBVIOUS
  <2>2. 7 \in D => Top(7)
    BY <2>1
  <2>3. 7 \notin D /\ 6 \in D => Top(6)
    BY <2>1
  <2>4. 7 \notin D /\ 6 \notin D /\ 5 \in D => Top(5)
    BY <2>1
  <2>5. 7 \notin D /\ 6 \notin D /\ 5 \notin D /\ 4 \in D => Top(4)
    BY <2>1
  <2>6. 7 \notin D /\ 6 \notin D /\ 5 \notin D /\ 4 \notin D /\ 3 \in D => Top(3)
    BY <2>1
  <2>7. 7 \notin D /\ 6 \notin D /\ 5 \notin D /\ 4 \notin D /\ 3 \notin D
          /\ 2 \in D => Top(2)
    BY <2>1
  <2>8. 7 \notin D /\ 6 \notin D /\ 5 \notin D /\ 4 \notin D /\ 3 \notin D
          /\ 2 \notin D /\ 1 \in D => Top(1)
    BY <2>1
  <2>9. 7 \in D \/ 6 \in D \/ 5 \in D \/ 4 \in D \/ 3 \in D \/ 2 \in D \/ 1 \in D
    <3>1. PICK z \in D : TRUE
      OBVIOUS
    <3>2. z \in 1..7
      OBVIOUS
    <3>3. z = 7 \/ z = 6 \/ z = 5 \/ z = 4 \/ z = 3 \/ z = 2 \/ z = 1
      BY <3>2
    <3>4. QED
      BY <3>3
  <2>10. \E x : Top(x)
    <3> HIDE DEF Top
    <3>1. QED
      BY <2>2, <2>3, <2>4, <2>5, <2>6, <2>7, <2>8, <2>9
  <2>11. QED
    BY <2>10
<1>2. QED
  BY <1>1 DEF Max

LEMMA LimitsTyped ==
    ASSUME NEW lim \in [Files -> Nat], NEW c \in CgroupConfig, NEW n \in 0..7
    PROVE  ApplyResourceLimits(lim, c, n) \in [Files -> Nat]
<1> SUFFICES ASSUME NEW f \in Files
             PROVE  ApplyResourceLimits(lim, c, n)[f] \in Nat
  BY DEF ApplyResourceLimits
<1> DEFINE done == {i \in 1..n : Writes[i].file = f /\ c[Writes[i].field] > 0}
           w == Writes[Max(done)]
<1>1. CASE done = {}
  BY <1>1 DEF ApplyResourceLimits
<1>2. CASE done # {}
  <2>1. Max(done) \in done
    BY <1>2, LastWriteExists
  <2>2. Max(done) \in 1..7
    BY <2>1
  <2>3. w.field \in Fields /\ w.factor \in Nat
    BY <2>2, WritesFacts
  <2>4. c[w.field] \in Nat
    BY <2>3 DEF CgroupConfig
  <2>5. c[w.field] * w.factor \in Nat
    BY <2>3, <2>4
  <2>6. ApplyResourceLimits(lim, c, n)[f] = c[w.field] * w.factor
    BY <1>2 DEF ApplyResourceLimits
  <2>7. QED
    BY <2>5, <2>6
<1>3. QED
  BY <1>1, <1>2

\* Writing the limits of a configuration again changes nothing.
LEMMA LimitsIdempotent ==
    ASSUME NEW lim, NEW c, NEW n
    PROVE  ApplyResourceLimits(ApplyResourceLimits(lim, c, n), c, n)
             = ApplyResourceLimits(lim, c, n)
<1> DEFINE done(f) == {i \in 1..n : Writes[i].file = f /\ c[Writes[i].field] > 0}
           once == ApplyResourceLimits(lim, c, n)
<1>1. once = [f \in Files |-> IF done(f) = {} THEN lim[f]
                ELSE c[Writes[Max(done(f))].field] * Writes[Max(done(f))].factor]
  BY DEF ApplyResourceLimits
<1>2. ApplyResourceLimits(once, c, n) =
        [f \in Files |-> IF done(f) = {} THEN once[f]
                ELSE c[Writes[Max(done(f))].field] * Writes[Max(done(f))].factor]
  BY DEF ApplyResourceLimits
<1> HIDE DEF done, once
<1>3. QED
  <2>1. ApplyResourceLimits(once, c, n) = once
    BY <1>1, <1>2
  <2>2. QED
    BY <2>1 DEF once

-----------------------------------------------------------------------------
(* The kernel as a value. *)

KernelType ==
    [dir : [Groups -> BOOLEAN], limits : [Groups -> [Files -> Nat]],
     cgroup : [Procs -> Groups \cup {"outside", "dead"}]]

\* Processes are in groups that exist.
Housed(k) == \A p \in Procs : k.cgroup[p] \in Groups => k.dir[k.cgroup[p]]

\* Nothing but group g, its limits and who is in which group changed.
OnlyGroup(k, j, g) ==
    \A h \in Groups \ {g} : j.dir[h] = k.dir[h] /\ j.limits[h] = k.limits[h]

LEMMA MkdirAllIs ==
    ASSUME NEW k \in KernelType, NEW g \in Groups
    PROVE  LET j == MkdirAll(k, g) IN
           /\ j \in KernelType /\ OnlyGroup(k, j, g)
           /\ j.dir[g] /\ j.limits = k.limits /\ j.cgroup = k.cgroup
           /\ Housed(k) => Housed(j)
BY DEF MkdirAll, KernelType, OnlyGroup, Housed

LEMMA RemoveAllIs ==
    ASSUME NEW k \in KernelType, NEW g \in Groups
    PROVE  LET j == RemoveAll(k, g) IN
           /\ j \in KernelType /\ OnlyGroup(k, j, g) /\ j.cgroup = k.cgroup
           /\ Members(k, g) = {} => ~j.dir[g]
           /\ Members(k, g) # {} => j = k
           /\ Housed(k) => Housed(j)
<1>1. CASE Members(k, g) # {}
  BY <1>1 DEF RemoveAll, OnlyGroup
<1>2. CASE Members(k, g) = {}
  <2> DEFINE j == RemoveAll(k, g)
  <2>1. j = [dir |-> [k.dir EXCEPT ![g] = FALSE],
             limits |-> [k.limits EXCEPT ![g] = NoLimits], cgroup |-> k.cgroup]
    BY <1>2 DEF RemoveAll, KernelType
  <2>2. NoLimits \in [Files -> Nat]
    BY DEF NoLimits
  <2>3. j \in KernelType
    BY <2>1, <2>2 DEF KernelType
  <2>4. \A p \in Procs : k.cgroup[p] # g
    BY <1>2 DEF Members
  <2> HIDE DEF j
  <2>5. QED
    BY <1>2, <2>1, <2>3, <2>4 DEF KernelType, OnlyGroup, Housed, j
<1>3. QED
  BY <1>1, <1>2

LEMMA MoveIs ==
    ASSUME NEW k \in KernelType, NEW p \in Procs, NEW g \in Groups
    PROVE  LET j == Move(k, p, g) IN
           /\ j \in KernelType /\ j.dir = k.dir /\ j.limits = k.limits
           /\ j.cgroup = [k.cgroup EXCEPT ![p] = g]
           /\ Housed(k) /\ k.dir[g] => Housed(j)
BY DEF Move, KernelType, Housed

LEMMA KillIs ==
    ASSUME NEW k \in KernelType, NEW g \in ExpIDs, NEW survivors
    PROVE  LET j == KillProcessesInCgroup(k, g, survivors) IN
           /\ j \in KernelType /\ j.dir = k.dir /\ j.limits = k.limits
           /\ \A p \in Procs : j.cgroup[p] = IF p \in Members(k, g) \ survivors
                                             THEN "dead" ELSE k.cgroup[p]
           /\ survivors = {} => Members(j, g) = {}
           /\ Housed(k) => Housed(j)
<1> DEFINE j == KillProcessesInCgroup(k, g, survivors)
           moved == [p \in Procs |-> IF p \in Members(k, g) \ survivors
                                     THEN "dead" ELSE k.cgroup[p]]
<1>1. j = [dir |-> k.dir, limits |-> k.limits, cgroup |-> moved]
  BY DEF KillProcessesInCgroup, KernelType
<1>2. moved \in [Procs -> Groups \cup {"outside", "dead"}]
  BY DEF KernelType
<1>3. j \in KernelType
  BY <1>1, <1>2 DEF KernelType
<1>4. survivors = {} => Members(j, g) = {}
  <2>1. g # "dead"
    BY GroupsAssumption
  <2>2. ASSUME survivors = {}, NEW p \in Procs PROVE moved[p] # g
    BY <2>1, <2>2 DEF Members
  <2> HIDE DEF moved, j
  <2>3. QED
    BY <1>1, <2>2 DEF Members
<1>5. Housed(k) => Housed(j)
  <2>1. "dead" \notin Groups
    BY GroupsAssumption DEF Groups, Scratch
  <2>2. QED
    BY <1>1, <2>1 DEF Housed
<1>6. QED
  BY <1>1, <1>3, <1>4, <1>5

LEMMA ScratchIs == Scratch \in Groups /\ ExpIDs \subseteq Groups /\ Agent \in Procs
BY DEF Groups, Procs

\* The directory of e made and n of its limits written.
LEMMA LimitedIs ==
    ASSUME NEW k \in KernelType, NEW e \in ExpIDs, NEW c \in CgroupConfig,
           NEW n \in 0..7
    PROVE  LET j == Limited(k, e, c, n) IN
           /\ OnlyGroup(k, j, e) /\ j.cgroup = k.cgroup
           /\ j.dir[e] /\ j.limits[e] = ApplyResourceLimits(k.limits[e], c, n)
           /\ Housed(k) => Housed(j)
<1> DEFINE m == MkdirAll(k, e)
           lim == ApplyResourceLimits(m.limits[e], c, n)
           j == Limited(k, e, c, n)
<1>1. /\ m \in KernelType /\ OnlyGroup(k, m, e) /\ m.dir[e]
      /\ m.limits = k.limits /\ m.cgroup = k.cgroup /\ (Housed(k) => Housed(m))
  BY MkdirAllIs, ScratchIs
<1>2. j = [m EXCEPT !.limits[e] = lim] /\ e \in Groups
  BY ScratchIs DEF Limited
<1> HIDE DEF m, lim, j
<1>3. j = [dir |-> m.dir, limits |-> [m.limits EXCEPT ![e] = lim], cgroup |-> m.cgroup]
  BY <1>1, <1>2 DEF KernelType
<1>4. /\ OnlyGroup(k, j, e) /\ j.cgroup = k.cgroup /\ j.dir[e] /\ (Housed(k) => Housed(j))
      /\ j.limits[e] = lim
  BY <1>1, <1>2, <1>3 DEF KernelType, OnlyGroup, Housed
<1>5. QED
  BY <1>1, <1>4 DEF lim, j

LEMMA LimitedType ==
    ASSUME NEW k \in KernelType, NEW e \in ExpIDs, NEW c \in CgroupConfig,
           NEW n \in 0..7
    PROVE  Limited(k, e, c, n) \in KernelType
<1> DEFINE m == MkdirAll(k, e)
           lim == ApplyResourceLimits(m.limits[e], c, n)
<1>1. m \in KernelType /\ e \in Groups
  BY MkdirAllIs, ScratchIs
<1>2. m.limits[e] \in [Files -> Nat]
  BY <1>1 DEF KernelType
<1>3. lim \in [Files -> Nat]
  BY <1>2, LimitsTyped
<1>4. Limited(k, e, c, n) = [m EXCEPT !.limits[e] = lim]
  BY DEF Limited
<1> HIDE DEF m, lim
<1>5. [m EXCEPT !.limits[e] = lim] \in KernelType
  BY <1>1, <1>3 DEF KernelType
<1>6. QED
  BY <1>4, <1>5

\* The support check touches the scratch group only, and leaves the agent in it.
LEMMA ValidateIs ==
    ASSUME Kernel \in KernelType, Housed(Kernel)
    PROVE  LET j == ValidateCgroupsV2 IN
           /\ j \in KernelType /\ Housed(j) /\ OnlyGroup(Kernel, j, Scratch)
           /\ j.cgroup = [cgroup EXCEPT ![Agent] = Scratch]
<1> DEFINE m == MkdirAll(Kernel, Scratch)
           v == Move(m, Agent, Scratch)
           j == RemoveAll(v, Scratch)
<1>1. /\ m \in KernelType /\ OnlyGroup(Kernel, m, Scratch) /\ m.dir[Scratch]
      /\ m.cgroup = cgroup /\ Housed(m)
  BY MkdirAllIs, ScratchIs DEF Kernel
<1> HIDE DEF m
<1>2. /\ v \in KernelType /\ v.dir = m.dir /\ v.limits = m.limits
      /\ v.cgroup = [cgroup EXCEPT ![Agent] = Scratch] /\ Housed(v)
  BY <1>1, MoveIs, ScratchIs
<1> HIDE DEF v
<1>3. /\ j \in KernelType /\ Housed(j) /\ j.cgroup = v.cgroup
      /\ OnlyGroup(v, j, Scratch)
  BY <1>2, RemoveAllIs, ScratchIs
<1>4. j = ValidateCgroupsV2
  BY DEF ValidateCgroupsV2, m, v
<1> HIDE DEF j
<1>5. OnlyGroup(Kernel, j, Scratch)
  BY <1>1, <1>2, <1>3 DEF OnlyGroup
<1>6. QED
  BY <1>2, <1>3, <1>4, <1>5

-----------------------------------------------------------------------------
(* The invariant: types, and the records and the kernel. *)

KernelOK == Kernel \in KernelType /\ Housed(Kernel)

RecordsOK ==
    /\ experiments \in Experiments
    /\ timers \in [1..MaxCreates -> Timer \cup {None}]
    /\ creates \in 0..MaxCreates
    /\ cleaners \in 1..MaxCleaners
    /\ expired \in [1..MaxCleaners -> SUBSET ExpIDs]
    /\ saved \in Experiments \cup {None}
    /\ failures \in 0..MaxFailures
    /\ suspect \subseteq ExpIDs

LEMMA TypesSplit ==
    /\ TypeOK <=> KernelOK /\ RecordsOK
    /\ TypeOK' <=> KernelOK' /\ RecordsOK'
BY DEF TypeOK, KernelOK, RecordsOK, Kernel, KernelType, Housed

CgroupsInv == TypeOK /\ RecordsMatchKernel

LEMMA SetKernelIs ==
    ASSUME NEW k \in KernelType, SetKernel(k)
    PROVE  Kernel' = k
BY DEF SetKernel, Kernel, KernelType

LEMMA KernelAsState ==
    /\ Kernel.dir = dir /\ Kernel.limits = limits /\ Kernel.cgroup = cgroup
    /\ Kernel'.dir = dir' /\ Kernel'.limits = limits' /\ Kernel'.cgroup = cgroup'
BY DEF Kernel

\* A step that leaves the group of e and its record as they were leaves the
\* two in agreement.
LEMMA AgreementStays ==
    ASSUME RecordsMatchKernel, NEW e \in ExpIDs \ (suspect \cup {Scratch}),
           experiments'[e] = experiments[e],
           dir'[e] = dir[e], limits'[e] = limits[e]
    PROVE  /\ experiments'[e] # None <=> dir'[e]
           /\ experiments'[e] # None =>
                 ApplyResourceLimits(limits'[e], experiments'[e].Config,
                                     Len(Writes)) = limits'[e]
BY DEF RecordsMatchKernel

\* A step of one group, and of no other record.
LEMMA StepOfOneGroup ==
    ASSUME RecordsMatchKernel, NEW e, OnlyGroup(Kernel, Kernel', e),
           \A x \in ExpIDs \ {e} : experiments'[x] = experiments[x],
           suspect \ {e} \subseteq suspect',
           e \in ExpIDs \ (suspect' \cup {Scratch}) =>
               /\ experiments'[e] # None <=> dir'[e]
               /\ experiments'[e] # None =>
                     ApplyResourceLimits(limits'[e], experiments'[e].Config,
                                         Len(Writes)) = limits'[e]
    PROVE  RecordsMatchKernel'
<1> SUFFICES ASSUME NEW x \in ExpIDs \ (suspect' \cup {Scratch}), x # e
             PROVE  /\ experiments'[x] # None <=> dir'[x]
                    /\ experiments'[x] # None =>
                          ApplyResourceLimits(limits'[x], experiments'[x].Config,
                                              Len(Writes)) = limits'[x]
  BY DEF RecordsMatchKernel
<1>1. x \in ExpIDs \ (suspect \cup {Scratch}) /\ experiments'[x] = experiments[x]
  OBVIOUS
<1>2. dir'[x] = dir[x] /\ limits'[x] = limits[x]
  BY KernelAsState, ScratchIs DEF OnlyGroup
<1>3. QED
  BY <1>1, <1>2, AgreementStays

-----------------------------------------------------------------------------
(* One lemma for each action. *)

LEMMA CreateFailsEarlyKeeps == CgroupsInv /\ CreateFailsEarly => CgroupsInv'
<1> SUFFICES ASSUME CgroupsInv, CreateFailsEarly PROVE CgroupsInv'
  OBVIOUS
<1>1. KernelOK /\ RecordsOK
  BY TypesSplit DEF CgroupsInv
<1> DEFINE m == MkdirAll(Kernel, Scratch)
<1>2. m \in KernelType /\ Housed(m) /\ OnlyGroup(Kernel, m, Scratch) /\ m.cgroup = cgroup
  BY <1>1, MkdirAllIs, ScratchIs, KernelAsState DEF KernelOK
<1> HIDE DEF m
<1>3. /\ Kernel' \in KernelType /\ Housed(Kernel') /\ OnlyGroup(Kernel, Kernel', Scratch)
      /\ cgroup' = cgroup \/ cgroup' = [cgroup EXCEPT ![Agent] = Scratch]
  <2>1. CASE SetKernel(RemoveAll(m, Scratch))
    <3> DEFINE j == RemoveAll(m, Scratch)
    <3>1. j \in KernelType /\ Housed(j) /\ OnlyGroup(m, j, Scratch) /\ j.cgroup = cgroup
      BY <1>2, RemoveAllIs, ScratchIs
    <3>2. Kernel' = j
      BY <2>1, <3>1, SetKernelIs
    <3> HIDE DEF j
    <3>3. QED
      BY <1>2, <3>1, <3>2, KernelAsState DEF OnlyGroup
  <2>2. CASE SetKernel(ValidateCgroupsV2)
    <3>1. Kernel' = ValidateCgroupsV2
      BY <1>1, <2>2, ValidateIs, SetKernelIs DEF KernelOK
    <3>2. QED
      BY <1>1, <3>1, ValidateIs, KernelAsState DEF KernelOK
  <2>3. QED
    BY <2>1, <2>2 DEF CreateFailsEarly, m
<1>4. RecordsMatchKernel'
  BY <1>3, StepOfOneGroup DEF CreateFailsEarly, CgroupsInv
<1>5. KernelOK'
  BY <1>3 DEF KernelOK, Housed
<1>6. RecordsOK'
  BY <1>1, CgroupBoundsAssumption
     DEF RecordsOK, CreateFailsEarly, Fails, routine, Experiments
<1>7. QED
  BY <1>4, <1>5, <1>6, TypesSplit DEF CgroupsInv

LEMMA CreateFailsKeeps ==
    ASSUME CgroupsInv, NEW e \in ExpIDs, NEW c \in Configs,
           NEW n \in 1..Len(Writes), CreateFails(e, c, n)
    PROVE  CgroupsInv'
<1> DEFINE v == ValidateCgroupsV2
           w == n - 1
           k == Limited(v, e, c, w)
           j == RemoveAll(k, e)
<1>1. KernelOK /\ RecordsOK /\ c \in CgroupConfig /\ w \in 0..7
  BY TypesSplit, ConfigsAssumption, WritesFacts DEF CgroupsInv
<1>2. /\ v \in KernelType /\ Housed(v) /\ OnlyGroup(Kernel, v, Scratch)
      /\ v.cgroup = [cgroup EXCEPT ![Agent] = Scratch]
  BY <1>1, ValidateIs DEF KernelOK
<1> HIDE DEF v, w
<1>3. k \in KernelType /\ Housed(k) /\ OnlyGroup(v, k, e) /\ k.cgroup = v.cgroup
  <2>1. k \in KernelType
    BY <1>1, <1>2, LimitedType
  <2>2. QED
    BY <1>1, <1>2, <2>1, LimitedIs
<1> HIDE DEF k
<1>4. j \in KernelType /\ Housed(j) /\ OnlyGroup(k, j, e) /\ j.cgroup = k.cgroup
  BY <1>3, RemoveAllIs, ScratchIs
<1> HIDE DEF j
<1>5. /\ Kernel' \in KernelType /\ Housed(Kernel') /\ OnlyGroup(v, Kernel', e)
      /\ cgroup' = [cgroup EXCEPT ![Agent] = Scratch]
  <2>1. SetKernel(k) \/ SetKernel(j)
    BY DEF CreateFails, v, w, k, j
  <2>2. Kernel' = k \/ Kernel' = j
    BY <1>3, <1>4, <2>1, SetKernelIs
  <2>3. QED
    BY <1>2, <1>3, <1>4, <2>2, KernelAsState DEF OnlyGroup
<1>6. RecordsMatchKernel'
  <2> SUFFICES ASSUME NEW x \in ExpIDs \ (suspect' \cup {Scratch})
               PROVE  /\ experiments'[x] # None <=> dir'[x]
                      /\ experiments'[x] # None =>
                            ApplyResourceLimits(limits'[x], experiments'[x].Config,
                                                Len(Writes)) = limits'[x]
    BY DEF RecordsMatchKernel
  <2>1. CASE x = e
    BY <2>1 DEF CreateFails
  <2>2. CASE x # e
    <3>1. x \notin suspect /\ experiments'[x] = experiments[x]
      BY <2>2 DEF CreateFails
    <3>2. dir'[x] = dir[x] /\ limits'[x] = limits[x]
      BY <1>2, <1>5, <2>2, KernelAsState, ScratchIs DEF OnlyGroup
    <3>3. QED
      BY <3>1, <3>2, AgreementStays DEF CgroupsInv
  <2>3. QED
    BY <2>1, <2>2
<1>8. KernelOK'
  BY <1>5 DEF KernelOK, Housed
<1>9. RecordsOK'
  BY <1>1, CgroupBoundsAssumption
     DEF RecordsOK, CreateFails, Fails, routine, Experiments
<1>10. QED
  BY <1>6, <1>8, <1>9, TypesSplit DEF CgroupsInv

LEMMA CreateKeeps ==
    ASSUME CgroupsInv, NEW e \in ExpIDs, NEW c \in Configs, NEW ttl \in TTLs,
           CreateCgroup(e, c, ttl)
    PROVE  CgroupsInv'
<1> DEFINE x == [Config |-> c, Age |-> 0, TTL |-> ttl]
           v == ValidateCgroupsV2
           w == 7
           k == Limited(v, e, c, w)
<1>1. KernelOK /\ RecordsOK /\ c \in CgroupConfig /\ Len(Writes) = w /\ w \in 0..7
  BY TypesSplit, ConfigsAssumption, WritesFacts DEF CgroupsInv
<1>2. x \in CgroupState /\ x # None /\ ttl \in 0..MaxTTL
  BY <1>1, TTLsAssumption, CgroupNoneAssumption DEF CgroupState
<1>3. /\ v \in KernelType /\ Housed(v) /\ OnlyGroup(Kernel, v, Scratch)
      /\ v.cgroup = [cgroup EXCEPT ![Agent] = Scratch]
  BY <1>1, ValidateIs DEF KernelOK
<1> HIDE DEF v, w
<1>4. /\ k \in KernelType /\ Housed(k) /\ OnlyGroup(v, k, e) /\ k.cgroup = v.cgroup
      /\ k.dir[e] /\ k.limits[e] = ApplyResourceLimits(v.limits[e], c, w)
  <2>1. k \in KernelType
    BY <1>1, <1>3, LimitedType
  <2>2. QED
    BY <1>1, <1>3, <2>1, LimitedIs
<1> HIDE DEF k
<1>5. Kernel' = k
  <2>1. SetKernel(k)
    BY <1>1 DEF CreateCgroup, v, w, k
  <2>2. QED
    BY <1>4, <2>1, SetKernelIs
<1>6. experiments' = [experiments EXCEPT ![e] = x] /\ suspect' = suspect \ {e}
  BY DEF CreateCgroup, RecordState
<1>7. RecordsMatchKernel'
  <2> SUFFICES ASSUME NEW y \in ExpIDs \ (suspect' \cup {Scratch})
               PROVE  /\ experiments'[y] # None <=> dir'[y]
                      /\ experiments'[y] # None =>
                            ApplyResourceLimits(limits'[y], experiments'[y].Config,
                                                Len(Writes)) = limits'[y]
    BY DEF RecordsMatchKernel
  <2>1. CASE y = e
    <3>1. experiments'[e] = x /\ x.Config = c
      BY <1>1, <1>6 DEF RecordsOK, Experiments
    <3>2. dir'[e] /\ limits'[e] = ApplyResourceLimits(v.limits[e], c, w)
      BY <1>4, <1>5, KernelAsState
    <3>3. ApplyResourceLimits(limits'[e], c, w) = limits'[e]
      BY <3>2, LimitsIdempotent
    <3> HIDE DEF x
    <3>4. QED
      BY <1>1, <1>2, <2>1, <3>1, <3>2, <3>3
  <2>2. CASE y # e
    <3>1. y \notin suspect /\ experiments'[y] = experiments[y]
      BY <1>1, <1>6, <2>2 DEF RecordsOK, Experiments
    <3>2. dir'[y] = dir[y] /\ limits'[y] = limits[y]
      BY <1>3, <1>4, <1>5, <2>2, KernelAsState, ScratchIs DEF OnlyGroup
    <3>3. QED
      BY <3>1, <3>2, AgreementStays DEF CgroupsInv
  <2>3. QED
    BY <2>1, <2>2
<1>9. KernelOK'
  BY <1>4, <1>5 DEF KernelOK, Housed
<1>10. RecordsOK'
  <2>1. creates' = creates + 1 /\ creates' \in 1..MaxCreates
    BY <1>1, CgroupBoundsAssumption DEF RecordsOK, CreateCgroup, RecordState
  <2>2. timers' \in [1..MaxCreates -> Timer \cup {None}]
    <3>1. [exp |-> e, left |-> ttl] \in Timer
      BY <1>2 DEF Timer
    <3>2. QED
      BY <1>1, <2>1, <3>1 DEF RecordsOK, CreateCgroup, RecordState
  <2>3. experiments' \in Experiments
    BY <1>1, <1>2, <1>6 DEF RecordsOK, Experiments
  <2>4. QED
    BY <1>1, <1>6, <2>1, <2>2, <2>3
       DEF RecordsOK, CreateCgroup, RecordState, routine, Experiments, CgroupState, Timer, CgroupConfig
<1>11. QED
  BY <1>7, <1>9, <1>10, TypesSplit DEF CgroupsInv

LEMMA AddProcessKeeps ==
    ASSUME CgroupsInv, NEW e \in ExpIDs, NEW p \in Procs, AddProcess(e, p)
    PROVE  CgroupsInv'
<1> DEFINE j == Move(Kernel, p, e)
<1>1. KernelOK /\ RecordsOK
  BY TypesSplit DEF CgroupsInv
<1>2. /\ j \in KernelType /\ j.dir = dir /\ j.limits = limits /\ Housed(j)
      /\ j.cgroup = [cgroup EXCEPT ![p] = e]
  BY <1>1, MoveIs, ScratchIs, KernelAsState DEF AddProcess, KernelOK
<1>3. Kernel' = j
  BY <1>2, SetKernelIs DEF AddProcess
<1> HIDE DEF j
<1>4. dir' = dir /\ limits' = limits
  BY <1>2, <1>3, KernelAsState
<1>5. RecordsMatchKernel'
  BY <1>4 DEF AddProcess, CgroupsInv, RecordsMatchKernel
<1>6. KernelOK'
  BY <1>2, <1>3 DEF KernelOK, Housed
<1>7. RecordsOK'
  BY <1>1 DEF RecordsOK, AddProcess, routine, Experiments
<1>8. QED
  BY <1>5, <1>6, <1>7, TypesSplit DEF CgroupsInv

\* DestroyCgroup, whoever calls it.
LEMMA DestroyCgroupKeeps ==
    ASSUME CgroupsInv, NEW e \in ExpIDs, DestroyCgroup(e)
    PROVE  /\ KernelOK' /\ RecordsMatchKernel'
           /\ experiments' \in Experiments /\ suspect' \subseteq ExpIDs
           /\ failures' \in 0..MaxFailures
<1>1. KernelOK /\ RecordsOK
  BY TypesSplit DEF CgroupsInv
<1>2. CASE experiments[e] = None /\ UNCHANGED <<experiments, kernel, failures, suspect>>
  <2>1. Kernel' = Kernel
    BY <1>2 DEF kernel, Kernel
  <2>2. KernelOK'
    BY <1>1, <2>1 DEF KernelOK, Housed
  <2>3. QED
    BY <1>1, <1>2, <2>2 DEF RecordsOK, kernel, CgroupsInv, RecordsMatchKernel
<1>3. CASE Agent \notin Members(Kernel, e) /\ Destroyed(e)
  <2> DEFINE k == KillProcessesInCgroup(Kernel, e, {})
             j == RemoveAll(k, e)
  <2>1. /\ k \in KernelType /\ Housed(k) /\ k.dir = dir /\ k.limits = limits
        /\ Members(k, e) = {}
    BY <1>1, <1>3, KillIs, KernelAsState, ScratchIs DEF KernelOK
  <2> HIDE DEF k
  <2>2. /\ j \in KernelType /\ Housed(j) /\ OnlyGroup(k, j, e)
        /\ ~j.dir[e] /\ j.cgroup = k.cgroup
    BY <2>1, RemoveAllIs, ScratchIs
  <2>3. Kernel' = j
    BY <1>3, <2>2, SetKernelIs DEF Destroyed, k
  <2> HIDE DEF j
  <2>4. experiments' = [experiments EXCEPT ![e] = None] /\ suspect' = suspect \ {e}
        /\ failures' = failures
    BY <1>3 DEF Destroyed
  <2>5. RecordsMatchKernel'
    <3>1. OnlyGroup(Kernel, Kernel', e) /\ ~dir'[e]
      BY <2>1, <2>2, <2>3, KernelAsState DEF OnlyGroup
    <3>2. experiments'[e] = None /\ \A x \in ExpIDs \ {e} : experiments'[x] = experiments[x]
      BY <1>1, <2>4 DEF RecordsOK, Experiments
    <3>3. QED
      BY <2>4, <3>1, <3>2, StepOfOneGroup DEF CgroupsInv
  <2>7. experiments' \in Experiments /\ suspect' \subseteq ExpIDs /\ failures' \in 0..MaxFailures
    BY <1>1, <2>4 DEF RecordsOK, Experiments
  <2>8. KernelOK'
    BY <2>2, <2>3 DEF KernelOK, Housed
  <2>9. QED
    BY <2>5, <2>7, <2>8
<1>4. CASE Agent \notin Members(Kernel, e) /\ DestroyFails(e)
  <2>1. PICK survivors : SetKernel(KillProcessesInCgroup(Kernel, e, survivors))
    BY <1>4 DEF DestroyFails
  <2> DEFINE k == KillProcessesInCgroup(Kernel, e, survivors)
  <2>2. /\ k \in KernelType /\ Housed(k) /\ k.dir = dir /\ k.limits = limits
    BY <1>1, <1>4, KillIs, KernelAsState, ScratchIs DEF KernelOK
  <2>3. Kernel' = k
    BY <2>1, <2>2, SetKernelIs
  <2> HIDE DEF k
  <2>4. dir' = dir /\ limits' = limits
    BY <2>2, <2>3, KernelAsState
  <2>5. UNCHANGED <<experiments, suspect>> /\ failures' \in 0..MaxFailures
    BY <1>1, <1>4, CgroupBoundsAssumption DEF DestroyFails, Fails, RecordsOK
  <2>6. KernelOK'
    BY <2>2, <2>3 DEF KernelOK, Housed
  <2>7. QED
    BY <1>1, <2>4, <2>5, <2>6
       DEF RecordsOK, CgroupsInv, RecordsMatchKernel
<1>5. QED
  BY <1>2, <1>3, <1>4 DEF DestroyCgroup

\* The agent's end forgets every record, and makes what is left suspect.
LEMMA AgentRestartsKeeps ==
    ASSUME CgroupsInv, AgentRestarts, failures' \in 0..MaxFailures,
           cgroup' \in [Procs -> Groups \cup {"outside", "dead"}],
           \A p \in Procs : cgroup'[p] \in {cgroup[p], "outside", "dead"}
    PROVE  CgroupsInv'
<1>1. TypeOK'
  <2>1. "outside" \notin Groups /\ "dead" \notin Groups
    BY GroupsAssumption DEF Groups, Scratch
  <2>2. \A p \in Procs : cgroup'[p] \in Groups => dir'[cgroup'[p]]
    BY <2>1 DEF AgentRestarts, CgroupsInv, TypeOK
  <2>3. QED
    BY <2>2, CgroupBoundsAssumption DEF AgentRestarts, CgroupsInv, TypeOK, Experiments
<1>2. RecordsMatchKernel'
  BY DEF AgentRestarts, RecordsMatchKernel
<1>3. QED
  BY <1>1, <1>2 DEF CgroupsInv

LEMMA DestroyKillsAgentKeeps ==
    ASSUME CgroupsInv, NEW e \in ExpIDs, DestroyKillsAgent(e)
    PROVE  CgroupsInv'
<1>1. PICK killed : cgroup' = [p \in Procs |-> CASE p \in killed -> "dead"
                                                  [] p = Agent    -> "outside"
                                                  [] OTHER        -> cgroup[p]]
                    /\ Agent \notin killed
  BY DEF DestroyKillsAgent
<1>2. \A p \in Procs : cgroup'[p] = IF p \in killed THEN "dead"
                                    ELSE IF p = Agent THEN "outside" ELSE cgroup[p]
  BY <1>1
<1>3. cgroup' = [p \in Procs |-> cgroup'[p]]
  BY <1>1
<1>4. cgroup' \in [Procs -> Groups \cup {"outside", "dead"}]
  BY <1>2, <1>3 DEF CgroupsInv, TypeOK
<1>5. AgentRestarts /\ failures' \in 0..MaxFailures
  BY DEF DestroyKillsAgent, CgroupsInv, TypeOK
<1>6. QED
  BY <1>1, <1>2, <1>4, <1>5, ScratchIs, AgentRestartsKeeps

LEMMA RestartKeeps == CgroupsInv /\ Restart => CgroupsInv'
<1> SUFFICES ASSUME CgroupsInv, Restart PROVE CgroupsInv'
  OBVIOUS
<1>1. cgroup' = [cgroup EXCEPT ![Agent] = "outside"] /\ AgentRestarts
      /\ failures' \in 0..MaxFailures
  BY CgroupBoundsAssumption DEF Restart, Fails, CgroupsInv, TypeOK
<1>2. /\ cgroup' \in [Procs -> Groups \cup {"outside", "dead"}]
      /\ \A p \in Procs : cgroup'[p] \in {cgroup[p], "outside", "dead"}
  BY <1>1, ScratchIs DEF CgroupsInv, TypeOK
<1>3. QED
  BY <1>1, <1>2, AgentRestartsKeeps

\* A step that leaves the kernel and the records alone.
LEMMA BookkeepingKeeps ==
    ASSUME CgroupsInv, UNCHANGED <<experiments, kernel, failures, suspect>>,
           RecordsOK'
    PROVE  CgroupsInv'
BY DEF CgroupsInv, TypeOK, RecordsOK, kernel, RecordsMatchKernel

LEMMA OlderIs ==
    ASSUME NEW x \in Experiments
    PROVE  /\ Older(x) \in Experiments
           /\ \A e \in ExpIDs : /\ Older(x)[e] = None <=> x[e] = None
                                /\ x[e] # None => Older(x)[e].Config = x[e].Config
<1>1. ASSUME NEW e \in ExpIDs
      PROVE  /\ Older(x)[e] \in CgroupState \cup {None}
             /\ Older(x)[e] = None <=> x[e] = None
             /\ x[e] # None => Older(x)[e].Config = x[e].Config
  <2>1. CASE x[e] # None /\ x[e].TTL > 0 /\ x[e].Age <= MaxTTL
    <3>1. x[e] \in CgroupState
      BY <2>1 DEF Experiments
    <3> DEFINE y == [x[e] EXCEPT !.Age = @ + 1]
    <3>2. y \in CgroupState /\ y.Config = x[e].Config
      BY <2>1, <3>1, TTLsAssumption DEF CgroupState
    <3>3. Older(x)[e] = y
      BY <2>1 DEF Older
    <3> HIDE DEF y
    <3>4. QED
      BY <2>1, <3>2, <3>3, CgroupNoneAssumption
  <2>2. CASE ~(x[e] # None /\ x[e].TTL > 0 /\ x[e].Age <= MaxTTL)
    <3>1. Older(x)[e] = x[e]
      BY <2>2 DEF Older
    <3>2. QED
      BY <3>1 DEF Experiments
  <2>3. QED
    BY <2>1, <2>2
<1>2. Older(x) = [e \in ExpIDs |-> Older(x)[e]]
  BY DEF Older
<1>3. Older(x) \in Experiments
  BY <1>1, <1>2 DEF Experiments
<1>4. QED
  BY <1>1, <1>3

LEMMA TickKeeps == CgroupsInv /\ Tick => CgroupsInv'
<1> SUFFICES ASSUME CgroupsInv, Tick PROVE CgroupsInv'
  OBVIOUS
<1>1. KernelOK /\ RecordsOK /\ experiments \in Experiments
  BY TypesSplit DEF CgroupsInv, RecordsOK
<1>2. /\ experiments' = Older(experiments)
      /\ UNCHANGED <<dir, limits, cgroup, creates, cleaners, expired, failures, suspect>>
  BY DEF Tick, kernel, routine
<1>3. TypeOK'
  <2>1. timers' \in [1..MaxCreates -> Timer \cup {None}]
    <3>1. ASSUME NEW n \in 1..MaxCreates, timers[n] # None, timers[n].left # 0
          PROVE  [timers[n] EXCEPT !.left = @ - 1] \in Timer
      <4>1. timers[n] \in Timer
        BY <1>1, <3>1 DEF RecordsOK
      <4>2. QED
        BY <3>1, <4>1, TTLsAssumption DEF Timer
    <3>2. QED
      BY <1>1, <3>1 DEF Tick, RecordsOK
  <2>2. saved' \in Experiments \cup {None}
    BY <1>1, OlderIs DEF Tick, RecordsOK
  <2>3. experiments' \in Experiments
    BY <1>1, <1>2, OlderIs
  <2>4. QED
    BY <1>2, <2>1, <2>2, <2>3 DEF CgroupsInv, TypeOK
<1>4. RecordsMatchKernel'
  <2> SUFFICES ASSUME NEW e \in ExpIDs \ (suspect' \cup {Scratch})
               PROVE  /\ experiments'[e] # None <=> dir'[e]
                      /\ experiments'[e] # None =>
                            ApplyResourceLimits(limits'[e], experiments'[e].Config,
                                                Len(Writes)) = limits'[e]
    BY DEF RecordsMatchKernel
  <2>1. /\ experiments'[e] = None <=> experiments[e] = None
        /\ experiments[e] # None => experiments'[e].Config = experiments[e].Config
    BY <1>1, <1>2, OlderIs
  <2>2. QED
    BY <1>2, <2>1 DEF CgroupsInv, RecordsMatchKernel
<1>5. QED
  BY <1>2, <1>3, <1>4 DEF CgroupsInv

LEMMA ImportStateKeeps == CgroupsInv /\ ImportState => CgroupsInv'
<1> SUFFICES ASSUME CgroupsInv, ImportState PROVE CgroupsInv'
  OBVIOUS
<1>1. KernelOK /\ RecordsOK
  BY TypesSplit DEF CgroupsInv
<1>2. TypeOK'
  BY CgroupBoundsAssumption DEF ImportState, kernel, CgroupsInv, TypeOK
<1>3. RecordsMatchKernel'
  <2> SUFFICES ASSUME NEW e \in ExpIDs \ (suspect' \cup {Scratch})
               PROVE  /\ experiments'[e] # None <=> dir'[e]
                      /\ experiments'[e] # None =>
                            ApplyResourceLimits(limits'[e], experiments'[e].Config,
                                                Len(Writes)) = limits'[e]
    BY DEF RecordsMatchKernel
  <2>1. e \notin suspect /\ experiments'[e] = experiments[e]
    BY DEF ImportState
  <2>2. dir' = dir /\ limits' = limits
    BY DEF ImportState, kernel
  <2>3. QED
    BY <2>1, <2>2, AgreementStays DEF CgroupsInv
<1>4. QED
  BY <1>2, <1>3 DEF ImportState, kernel, CgroupsInv

-----------------------------------------------------------------------------

LEMMA InitCgroups == Init => CgroupsInv
<1> SUFFICES ASSUME Init PROVE CgroupsInv
  OBVIOUS
<1>1. NoLimits \in [Files -> Nat]
  BY DEF NoLimits
<1>2. "outside" \notin Groups
  BY GroupsAssumption DEF Groups, Scratch
<1>3. TypeOK
  BY <1>1, <1>2, CgroupBoundsAssumption DEF Init, TypeOK, Experiments
<1>4. QED
  BY <1>3, ScratchIs DEF Init, CgroupsInv, RecordsMatchKernel

LEMMA NextCgroups == CgroupsInv /\ [Next]_vars => CgroupsInv'
<1> SUFFICES ASSUME CgroupsInv, [Next]_vars PROVE CgroupsInv'
  OBVIOUS
<1>1. KernelOK /\ RecordsOK
  BY TypesSplit DEF CgroupsInv
<1>2. CASE CreateFailsEarly
  BY <1>2, CreateFailsEarlyKeeps
<1>3. ASSUME NEW e \in ExpIDs, NEW c \in Configs, NEW n \in 1..Len(Writes),
             CreateFails(e, c, n)
      PROVE  CgroupsInv'
  BY <1>3, CreateFailsKeeps
<1>4. ASSUME NEW e \in ExpIDs, NEW c \in Configs, NEW ttl \in TTLs,
             CreateCgroup(e, c, ttl)
      PROVE  CgroupsInv'
  BY <1>4, CreateKeeps
<1>5. ASSUME NEW e \in ExpIDs, NEW p \in Procs, AddProcess(e, p) PROVE CgroupsInv'
  BY <1>5, AddProcessKeeps
<1>6. ASSUME NEW e \in ExpIDs, Destroy(e) PROVE CgroupsInv'
  <2>1. CASE DestroyCgroup(e) /\ UNCHANGED <<timers, creates, routine, saved>>
    <3>1. RecordsOK'
      BY <1>1, <2>1, DestroyCgroupKeeps DEF RecordsOK, routine, Experiments
    <3>2. QED
      BY <2>1, <3>1, DestroyCgroupKeeps, TypesSplit DEF CgroupsInv
  <2>2. QED
    BY <1>6, <2>1, DestroyKillsAgentKeeps DEF Destroy
<1>7. ASSUME NEW n \in 1..MaxCreates, TimerFires(n) PROVE CgroupsInv'
  <2>1. timers[n].exp \in ExpIDs
    BY <1>1, <1>7 DEF TimerFires, RecordsOK, Timer
  <2>2. CASE /\ DestroyCgroup(timers[n].exp)
             /\ timers' = [timers EXCEPT ![n] = None]
             /\ UNCHANGED <<creates, routine, saved>>
    <3>1. RecordsOK'
      BY <1>1, <2>1, <2>2, DestroyCgroupKeeps DEF RecordsOK, routine, Experiments
    <3>2. QED
      BY <2>1, <2>2, <3>1, DestroyCgroupKeeps, TypesSplit DEF CgroupsInv
  <2>3. QED
    BY <1>7, <2>1, <2>2, DestroyKillsAgentKeeps DEF TimerFires
<1>8. ASSUME NEW k \in 1..MaxCleaners, Scan(k) PROVE CgroupsInv'
  <2>1. RecordsOK'
    BY <1>1, <1>8 DEF Scan, RecordsOK, Experiments
  <2>2. QED
    BY <1>8, <2>1, BookkeepingKeeps DEF Scan
<1>9. ASSUME NEW k \in 1..MaxCleaners, NEW e \in ExpIDs, CleanUp(k, e) PROVE CgroupsInv'
  <2>1. CASE /\ DestroyCgroup(e)
             /\ expired' = [expired EXCEPT ![k] = @ \ {e}]
             /\ UNCHANGED <<timers, creates, cleaners, saved>>
    <3>1. expired' \in [1..MaxCleaners -> SUBSET ExpIDs]
      BY <1>1, <2>1 DEF RecordsOK
    <3>2. RecordsOK'
      BY <1>1, <2>1, <3>1, DestroyCgroupKeeps DEF RecordsOK, Experiments
    <3>3. QED
      BY <2>1, <3>2, DestroyCgroupKeeps, TypesSplit DEF CgroupsInv
  <2>2. QED
    BY <1>9, <2>1, DestroyKillsAgentKeeps DEF CleanUp
<1>10. CASE ExportState
  <2>1. RecordsOK'
    BY <1>1, <1>10 DEF ExportState, RecordsOK, routine, Experiments
  <2>2. QED
    BY <1>10, <2>1, BookkeepingKeeps DEF ExportState
<1>11. CASE UNCHANGED vars
  <2>1. RecordsOK'
    BY <1>1, <1>11 DEF vars, RecordsOK, routine, Experiments
  <2>2. QED
    BY <1>11, <2>1, BookkeepingKeeps DEF vars
<1>12. QED
  BY <1>2, <1>3, <1>4, <1>5, <1>6, <1>7, <1>8, <1>9, <1>10, <1>11,
     ImportStateKeeps, RestartKeeps, TickKeeps DEF Next

LEMMA SpecCgroups == Spec => []CgroupsInv
BY InitCgroups, NextCgroups, PTL DEF Spec

\* Every reachable state is well typed; a process is in a group that exists.
THEOREM CgroupTypes == Spec => []TypeOK
BY SpecCgroups, PTL DEF CgroupsInv

\* With every operation, failing files and kills, restarts and imports, a
\* record stands for a cgroup with the limits of its configuration, and a
\* cgroup has a record, but for the identifiers the property leaves out.
THEOREM RecordsStayTrue == Spec => []RecordsMatchKernel
BY SpecCgroups, PTL DEF CgroupsInv

=============================================================================
