---------------------------- MODULE NetemProofs ----------------------------
(* Proofs about NetemManager, for every set of interfaces, identifiers and *)
(* configurations and every bound.                                         *)
EXTENDS Netem, TLAPS, WellFoundedInduction

-----------------------------------------------------------------------------
(* The operators. *)

\* A nonempty set of naturals has a least element.
LEMMA LeastNat ==
    ASSUME NEW T \in SUBSET Nat, T # {}
    PROVE  \E m \in T : \A y \in T : m <= y
<1> DEFINE R == {ss \in Nat \X Nat : ss[1] < ss[2]}
<1>1. IsWellFoundedOn(R, Nat)
  BY NatLessThanWellFounded, Zenon DEF OpToRel
<1>2. \A x, y \in Nat : <<y, x>> \in R <=> y < x
  OBVIOUS
<1> HIDE DEF R
<1>3. PICK m \in T : \A y \in T : ~(<<y, m>> \in R)
  <2>1. T \subseteq Nat
    OBVIOUS
  <2>2. QED
    BY <1>1, <2>1, WFMin, Zenon
<1>4. ASSUME NEW y \in T PROVE m <= y
  <2>1. m \in Nat /\ y \in Nat
    OBVIOUS
  <2>2. ~(y < m)
    BY <1>2, <1>3, <2>1, Zenon
  <2>3. QED
    BY <2>1, <2>2
<1>5. QED
  BY <1>4

\* A nonempty set of parameter values has a largest element, which Max picks.
LEMMA MaxOfParams ==
    ASSUME NEW S \in SUBSET (0..MaxParam), S # {}
    PROVE  Max(S) \in S /\ \A y \in S : Max(S) >= y
<1> DEFINE T == {n \in Nat : \E x \in S : n = MaxParam - x}
<1>1. \A x \in S : x \in Nat /\ MaxParam - x \in T
  BY BoundsAssumption
<1>2. T \in SUBSET Nat /\ T # {}
  BY <1>1
<1>3. \A n \in T : \E x \in S : n = MaxParam - x
  OBVIOUS
<1> HIDE DEF T
<1>4. PICK m \in T : \A y \in T : m <= y
  BY <1>2, LeastNat
<1>5. PICK x \in S : m = MaxParam - x
  BY <1>3
<1>6. \A y \in S : x >= y
  BY <1>1, <1>4, <1>5, BoundsAssumption
<1>7. QED
  BY <1>6 DEF Max

\* Merging configurations gives a configuration that covers each of them.
LEMMA MergeCovers ==
    ASSUME NEW cs \in SUBSET NetemConfig, cs # {}
    PROVE  /\ MergeConfigs(cs) \in NetemConfig
           /\ \A c \in cs, p \in Params : c[p] <= MergeConfigs(cs)[p]
<1> SUFFICES ASSUME NEW p \in Params
             PROVE  /\ Max({c[p] : c \in cs}) \in 0..MaxParam
                    /\ \A c \in cs : c[p] <= Max({c2[p] : c2 \in cs})
  BY DEF MergeConfigs, NetemConfig
<1>1. {c[p] : c \in cs} \in SUBSET (0..MaxParam) /\ {c[p] : c \in cs} # {}
  BY DEF NetemConfig
<1>2. QED
  BY <1>1, MaxOfParams, BoundsAssumption

\* Merging configurations takes each parameter from one of them.
LEMMA MergeAttained ==
    ASSUME NEW cs \in SUBSET NetemConfig, cs # {}, NEW p \in Params
    PROVE  \E c \in cs : MergeConfigs(cs)[p] = c[p]
<1>1. {c[p] : c \in cs} \in SUBSET (0..MaxParam) /\ {c[p] : c \in cs} # {}
  BY DEF NetemConfig
<1>2. Max({c[p] : c \in cs}) \in {c[p] : c \in cs}
  BY <1>1, MaxOfParams
<1>3. MergeConfigs(cs)[p] = Max({c[p] : c \in cs})
  BY DEF MergeConfigs
<1>4. QED
  BY <1>2, <1>3

\* The parameters of a command are a configuration.
LEMMA ArgsType ==
    ASSUME NEW c \in NetemConfig
    PROVE  BuildNetemArgs(c) \in NetemConfig
BY BoundsAssumption DEF BuildNetemArgs, NetemConfig, Params
-----------------------------------------------------------------------------
(* Type correctness. *)

\* A netem command leaves a well-typed kernel.
LEMMA SetNetemType ==
    ASSUME TypeOK, NEW i \in Ifaces, NEW c \in NetemConfig, SetNetem(i, c)
    PROVE  /\ root' \in [Ifaces -> {"default", "foreign", "netem"}]
           /\ netem' \in [Ifaces -> NetemConfig]
BY ArgsType DEF TypeOK, SetNetem

\* Recording an experiment leaves well-typed records and timers.
LEMMA RecordType ==
    ASSUME TypeOK, NEW e \in ExpIDs, NEW i \in Ifaces, NEW c \in NetemConfig,
           NEW t \in Nat, NEW dir \in {"none", "egress", "ingress"},
           applies < MaxApplies, Record(e, i, c, t, dir)
    PROVE  /\ experiments' \in [ExpIDs -> ExperimentState \cup {None}]
           /\ timers' \subseteq [exp : ExpIDs, due : Nat, id : Nat]
           /\ applies' \in 0..MaxApplies
           /\ now' \in 0..MaxTime
<1>0. now \in 0..MaxTime /\ applies \in 0..MaxApplies
  BY Zenon DEF TypeOK
<1>1. now \in Nat /\ applies \in Nat /\ now + t \in Nat
  BY <1>0, BoundsAssumption
<1>2. experiments' \in [ExpIDs -> ExperimentState \cup {None}]
  BY <1>1 DEF TypeOK, Record, ExperimentState
<1>3. timers' \subseteq [exp : ExpIDs, due : Nat, id : Nat]
  <2>1. [exp |-> e, due |-> now + t, id |-> applies]
           \in [exp : ExpIDs, due : Nat, id : Nat]
    BY <1>1
  <2>2. QED
    BY <2>1 DEF TypeOK, Record
<1>4. now' = now /\ applies' = applies + 1
  BY DEF Record
<1>5. QED
  BY <1>0, <1>2, <1>3, <1>4, BoundsAssumption

\* The records of an interface, found or created.
LEMMA GetOrCreateType ==
    ASSUME TypeOK, NEW i \in Ifaces
    PROVE  /\ GetOrCreate(i) \in InterfaceState
           /\ GetOrCreateRoot(i) \in RootQdiscState
BY DEF TypeOK, GetOrCreate, GetOrCreateRoot, NewInterface, NewRootQdisc,
       InterfaceState, RootQdiscState

\* Removing the root qdisc of an interface the manager knows.
LEMMA RestoreType ==
    ASSUME TypeOK, NEW i \in Ifaces, interfaces[i] # None,
           RestoreOriginalQdisc(i)
    PROVE  /\ interfaces' \in [Ifaces -> InterfaceState \cup {None}]
           /\ root' \in [Ifaces -> {"default", "foreign", "netem"}]
           /\ netem' \in [Ifaces -> NetemConfig]
<1>1. NoConfig \in NetemConfig
  BY BoundsAssumption DEF NoConfig, NetemConfig
<1>2. interfaces[i] \in InterfaceState
  BY DEF TypeOK
<1>3. CASE UNCHANGED <<interfaces, root, netem>>
  BY <1>3 DEF TypeOK
<1>4. CASE /\ root' = [root EXCEPT ![i] = "default"]
           /\ netem' = [netem EXCEPT ![i] = NoConfig]
           /\ interfaces' = [interfaces EXCEPT
                 ![i].HasNetem = FALSE, ![i].CurrentConfig = None]
  <2>1. [[interfaces[i] EXCEPT !.HasNetem = FALSE]
            EXCEPT !.CurrentConfig = None] \in InterfaceState
    BY <1>2 DEF InterfaceState
  <2>2. interfaces' \in [Ifaces -> InterfaceState \cup {None}]
    BY <1>4, <2>1 DEF TypeOK
  <2>3. QED
    BY <1>1, <1>4, <2>2 DEF TypeOK
<1>5. QED
  BY <1>3, <1>4 DEF RestoreOriginalQdisc

\* Revert leaves well-typed records and a well-typed kernel.
LEMMA RevertType ==
    ASSUME TypeOK, NEW e \in ExpIDs, Revert(e)
    PROVE  /\ interfaces' \in [Ifaces -> InterfaceState \cup {None}]
           /\ experiments' \in [ExpIDs -> ExperimentState \cup {None}]
           /\ rootQdiscs' \in [Ifaces -> RootQdiscState \cup {None}]
           /\ root' \in [Ifaces -> {"default", "foreign", "netem"}]
           /\ netem' \in [Ifaces -> NetemConfig]
           /\ ifb' \in [Ifaces -> {"absent", "partial", "redirecting"}]
           /\ saved' \in Maps \cup {None}
<1>1. CASE ~Found(e)
  BY <1>1 DEF TypeOK, Revert
<1>2. CASE Found(e)
  <2> DEFINE i == experiments[e].Interface
             others == On(i) \ {e}
             cs == {experiments[x].Config : x \in others}
  <2>1. i \in Ifaces /\ interfaces[i] # None
    BY <1>2 DEF TypeOK, Found, ExperimentState
  <2>2. experiments' \in [ExpIDs -> ExperimentState \cup {None}]
    BY <1>2 DEF TypeOK, Revert
  <2>3. CASE others = {}
    <3>1. RestoreOriginalQdisc(i)
      BY <1>2, <2>3 DEF Revert
    <3>2. QED
      BY <2>1, <2>2, <3>1, RestoreType DEF TypeOK, Revert
  <2>4. CASE others # {}
    <3>1. RecalculateNetemConfig(i, others)
      BY <1>2, <2>4 DEF Revert
    <3>2. cs \in SUBSET NetemConfig /\ cs # {}
      <4>1. \A x \in others : experiments[x] \in ExperimentState
        BY DEF TypeOK, On
      <4>2. \A x \in others : experiments[x].Config \in NetemConfig
        BY <4>1 DEF ExperimentState
      <4> HIDE DEF others
      <4>3. QED
        BY <2>4, <4>2
    <3>3. MergeConfigs(cs) \in NetemConfig
      BY <3>2, MergeCovers
    <3>4. /\ root' \in [Ifaces -> {"default", "foreign", "netem"}]
          /\ netem' \in [Ifaces -> NetemConfig]
      <4>1. CASE UNCHANGED <<root, netem>>
        BY <4>1 DEF TypeOK
      <4>2. CASE SetNetem(i, MergeConfigs(cs))
        BY <4>2, <2>1, <3>3, SetNetemType
      <4>3. QED
        BY <3>1, <4>1, <4>2 DEF RecalculateNetemConfig
    <3>5. UNCHANGED interfaces
      BY <3>1 DEF RecalculateNetemConfig
    <3>6. QED
      BY <2>2, <3>4, <3>5 DEF TypeOK, Revert
  <2>5. QED
    BY <2>3, <2>4
<1>3. QED
  BY <1>1, <1>2

\* The initial state is well typed.
LEMMA InitType == Init => TypeOK
<1>1. NoConfig \in NetemConfig
  BY BoundsAssumption DEF NoConfig, NetemConfig
<1>2. QED
  BY <1>1, BoundsAssumption DEF Init, TypeOK

\* Every step leaves a well-typed state.
LEMMA NextType == TypeOK /\ [Next]_vars => TypeOK'
<1> SUFFICES ASSUME TypeOK, [Next]_vars PROVE TypeOK'
  OBVIOUS
<1>1. ASSUME NEW e \in ExpIDs, NEW i \in Ifaces, NEW c \in Configs,
             NEW t \in TTLs, Apply(e, i, c, t)
      PROVE  TypeOK'
  <2>1. c \in NetemConfig /\ t \in Nat
    BY ConfigsAssumption, TTLsAssumption
  <2>2. GetOrCreate(i) \in InterfaceState
    BY GetOrCreateType
  <2>3. CASE /\ interfaces' = [interfaces EXCEPT ![i] = GetOrCreate(i)]
             /\ UNCHANGED <<experiments, root, netem, clock>>
    BY <1>1, <2>2, <2>3 DEF TypeOK, Apply, clock, routine
  <2>4. CASE /\ SetNetem(i, c) /\ Record(e, i, c, t, "none")
             /\ interfaces' = [interfaces EXCEPT ![i] =
                   [GetOrCreate(i) EXCEPT !.HasNetem = TRUE,
                                          !.CurrentConfig = c]]
    <3>1. applies < MaxApplies
      BY <1>1 DEF Apply, WithinBounds
    <3>2. /\ root' \in [Ifaces -> {"default", "foreign", "netem"}]
          /\ netem' \in [Ifaces -> NetemConfig]
      BY <2>1, <2>4, SetNetemType
    <3>3. /\ experiments' \in [ExpIDs -> ExperimentState \cup {None}]
          /\ timers' \subseteq [exp : ExpIDs, due : Nat, id : Nat]
          /\ applies' \in 0..MaxApplies
          /\ now' \in 0..MaxTime
      BY <2>1, <2>4, <3>1, RecordType
    <3>4. interfaces' \in [Ifaces -> InterfaceState \cup {None}]
      BY <2>1, <2>2, <2>4 DEF TypeOK, InterfaceState
    <3>5. QED
      BY <1>1, <3>2, <3>3, <3>4 DEF TypeOK, Apply, routine
  <2>5. QED
    BY <1>1, <2>3, <2>4 DEF Apply
<1>2. ASSUME NEW e \in ExpIDs, NEW i \in Ifaces, NEW c \in Configs,
             NEW t \in TTLs, ApplyWithFilter(e, i, c, t)
      PROVE  TypeOK'
  <2> DEFINE rq == GetOrCreateRoot(i)
             noted == [rq EXCEPT !.Filters = @ \cup {e}]
             st == GetOrCreate(i)
  <2>1. c \in NetemConfig /\ t \in Nat
    BY ConfigsAssumption, TTLsAssumption
  <2>2. st \in InterfaceState /\ rq \in RootQdiscState
    BY GetOrCreateType
  <2>3. noted \in RootQdiscState
        /\ [noted EXCEPT !.HasNetem = TRUE] \in RootQdiscState
    BY <2>2 DEF RootQdiscState
  <2> HIDE DEF rq, noted, st
  <2>4. rootQdiscs' \in [Ifaces -> RootQdiscState \cup {None}]
    <3>1. \/ rootQdiscs' = [rootQdiscs EXCEPT ![i] = rq]
          \/ rootQdiscs' = [rootQdiscs EXCEPT ![i] = noted]
          \/ rootQdiscs' = [rootQdiscs EXCEPT ![i] =
                               [noted EXCEPT !.HasNetem = TRUE]]
      BY <1>2 DEF ApplyWithFilter, rq, noted
    <3>2. QED
      BY <2>2, <2>3, <3>1 DEF TypeOK
  <2>5. /\ root' \in [Ifaces -> {"default", "foreign", "netem"}]
        /\ netem' \in [Ifaces -> NetemConfig]
    <3>1. UNCHANGED <<root, netem>> \/ SetNetem(i, c)
      BY <1>2 DEF ApplyWithFilter
    <3>2. QED
      BY <2>1, <3>1, SetNetemType DEF TypeOK
  <2>6. CASE UNCHANGED <<interfaces, experiments, clock>>
    BY <1>2, <2>4, <2>5, <2>6 DEF TypeOK, ApplyWithFilter, clock, routine
  <2>7. CASE /\ Record(e, i, c, t, "egress")
             /\ interfaces' = [interfaces EXCEPT ![i] =
                   [st EXCEPT !.HasNetem = TRUE, !.CurrentConfig = c]]
    <3>1. applies < MaxApplies
      BY <1>2 DEF ApplyWithFilter, WithinBounds
    <3>2. /\ experiments' \in [ExpIDs -> ExperimentState \cup {None}]
          /\ timers' \subseteq [exp : ExpIDs, due : Nat, id : Nat]
          /\ applies' \in 0..MaxApplies
          /\ now' \in 0..MaxTime
      BY <2>1, <2>7, <3>1, RecordType
    <3>3. interfaces' \in [Ifaces -> InterfaceState \cup {None}]
      BY <2>1, <2>2, <2>7 DEF TypeOK, InterfaceState
    <3>4. QED
      BY <1>2, <2>4, <2>5, <3>2, <3>3 DEF TypeOK, ApplyWithFilter, routine
  <2>8. QED
    BY <1>2, <2>6, <2>7 DEF ApplyWithFilter, st, clock
<1>3. ASSUME NEW e \in ExpIDs, NEW i \in Ifaces, NEW c \in Configs,
             NEW t \in TTLs, ApplyIngress(e, i, c, t)
      PROVE  TypeOK'
  <2>1. c \in NetemConfig /\ t \in Nat
    BY ConfigsAssumption, TTLsAssumption
  <2>2. GetOrCreate(i) \in InterfaceState
    BY GetOrCreateType
  <2>3. ifb' \in [Ifaces -> {"absent", "partial", "redirecting"}]
    BY <1>3 DEF TypeOK, ApplyIngress
  <2>4. CASE UNCHANGED <<interfaces, experiments, clock>>
    BY <1>3, <2>3, <2>4 DEF TypeOK, ApplyIngress, clock, routine
  <2>5. CASE /\ Record(e, i, c, t, "ingress")
             /\ interfaces' = [interfaces EXCEPT ![i] =
                   [GetOrCreate(i) EXCEPT !.HasIngress = TRUE]]
    <3>1. applies < MaxApplies
      BY <1>3 DEF ApplyIngress, WithinBounds
    <3>2. /\ experiments' \in [ExpIDs -> ExperimentState \cup {None}]
          /\ timers' \subseteq [exp : ExpIDs, due : Nat, id : Nat]
          /\ applies' \in 0..MaxApplies
          /\ now' \in 0..MaxTime
      BY <2>1, <2>5, <3>1, RecordType
    <3>3. interfaces' \in [Ifaces -> InterfaceState \cup {None}]
      BY <2>2, <2>5 DEF TypeOK, InterfaceState
    <3>4. QED
      BY <1>3, <2>3, <3>2, <3>3 DEF TypeOK, ApplyIngress, routine
  <2>6. QED
    BY <1>3, <2>4, <2>5 DEF ApplyIngress
<1>4. ASSUME NEW e \in ExpIDs, CallRevert(e) PROVE TypeOK'
  <2>1. Revert(e)
    BY <1>4 DEF CallRevert
  <2>2. QED
    BY <1>4, <2>1, RevertType DEF TypeOK, CallRevert, clock, routine
<1>5. ASSUME NEW i \in Ifaces, RevertAll(i) PROVE TypeOK'
  <2>1. interfaces[i] # None /\ RestoreOriginalQdisc(i)
    BY <1>5 DEF RevertAll
  <2>2. experiments' \in [ExpIDs -> ExperimentState \cup {None}]
    BY <1>5 DEF TypeOK, RevertAll
  <2>3. QED
    BY <1>5, <2>1, <2>2, RestoreType DEF TypeOK, RevertAll, clock, routine
<1>6. CASE Tick
  BY <1>6, BoundsAssumption
     DEF TypeOK, Tick, manager, kernel, routine
<1>7. ASSUME NEW tm \in timers, TimerFires(tm) PROVE TypeOK'
  <2>1. tm.exp \in ExpIDs /\ Revert(tm.exp)
    BY <1>7 DEF TypeOK, TimerFires
  <2>2. QED
    BY <1>7, <2>1, RevertType DEF TypeOK, TimerFires, routine
<1>8. ASSUME NEW k \in 1..MaxCleaners, CleanupScan(k) PROVE TypeOK'
  BY <1>8 DEF TypeOK, CleanupScan, manager, kernel, clock
<1>9. ASSUME NEW k \in 1..MaxCleaners, NEW e \in ExpIDs, CleanupRevert(k, e)
      PROVE  TypeOK'
  <2>1. Revert(e)
    BY <1>9 DEF CleanupRevert
  <2>2. expired' \in [1..MaxCleaners -> SUBSET ExpIDs]
    BY <1>9 DEF TypeOK, CleanupRevert
  <2>3. QED
    BY <1>9, <2>1, <2>2, RevertType DEF TypeOK, CleanupRevert, clock
<1>10. CASE ExportState
  BY <1>10 DEF TypeOK, ExportState, Maps, manager, kernel, clock, routine
<1>11. CASE ImportState
  BY <1>11, BoundsAssumption DEF TypeOK, ImportState, Maps, kernel, clock
<1>12. CASE Restart
  BY <1>12, BoundsAssumption DEF TypeOK, Restart, kernel
<1>13. CASE UNCHANGED vars
  BY <1>13 DEF TypeOK, vars, manager, kernel, clock, routine
<1>14. QED
  BY <1>1, <1>2, <1>3, <1>4, <1>5, <1>6, <1>7, <1>8, <1>9, <1>10, <1>11,
     <1>12, <1>13 DEF Next, EgressNext, Removals, Background

\* Every reachable state of the manager with all its operations, restarts
\* and imports included, is well typed.
THEOREM TypeCorrect == Spec => []TypeOK
BY InitType, NextType, PTL DEF Spec
-----------------------------------------------------------------------------
(* The records of the experiments: their interface is known, and ingress   *)
(* experiments are redirected.  The state exported last has to satisfy the *)
(* same, because an import makes it the current one.                       *)

SavedKnown ==
    saved # None =>
        \A e \in ExpIDs : saved.experiments[e] # None =>
            saved.interfaces[saved.experiments[e].Interface] # None

SavedIngress ==
    saved # None =>
        \A e \in ExpIDs :
            saved.experiments[e] # None
                /\ saved.experiments[e].Direction = "ingress"
            => ifb[saved.experiments[e].Interface] = "redirecting"

RecordsInv ==
    /\ TypeOK
    /\ ExperimentInterfaceKnown
    /\ IngressInForce
    /\ SavedKnown
    /\ SavedIngress

\* No operation forgets an interface; it updates records in place.
LEMMA RestoreKeepsKnown ==
    ASSUME TypeOK, NEW i \in Ifaces, interfaces[i] # None,
           RestoreOriginalQdisc(i)
    PROVE  \A j \in Ifaces : interfaces[j] # None => interfaces'[j] # None
<1>0. interfaces[i] \in InterfaceState
  BY DEF TypeOK
<1>1. [[interfaces[i] EXCEPT !.HasNetem = FALSE]
          EXCEPT !.CurrentConfig = None] \in InterfaceState
  BY <1>0 DEF InterfaceState
<1>2. QED
  BY <1>1, NoneAssumption DEF TypeOK, RestoreOriginalQdisc

\* Revert changes no record but the one it removes, forgets no interface and
\* leaves the redirections alone.
LEMMA RevertKeeps ==
    ASSUME TypeOK, NEW e \in ExpIDs, Revert(e)
    PROVE  /\ \A j \in Ifaces : interfaces[j] # None => interfaces'[j] # None
           /\ \A x \in ExpIDs :
                 experiments'[x] # None => experiments'[x] = experiments[x]
           /\ ifb' = ifb /\ saved' = saved
<1>1. CASE ~Found(e)
  BY <1>1 DEF Revert
<1>2. CASE Found(e)
  <2> DEFINE i == experiments[e].Interface
             others == On(i) \ {e}
  <2>1. i \in Ifaces /\ interfaces[i] # None
    BY <1>2 DEF TypeOK, Found, ExperimentState
  <2>2. \A x \in ExpIDs :
            experiments'[x] # None => experiments'[x] = experiments[x]
    BY <1>2 DEF TypeOK, Revert
  <2>3. RestoreOriginalQdisc(i) \/ UNCHANGED interfaces
    BY <1>2 DEF Revert, RecalculateNetemConfig
  <2>4. QED
    BY <1>2, <2>1, <2>2, <2>3, RestoreKeepsKnown DEF Revert
<1>3. QED
  BY <1>1, <1>2

\* A step that keeps interfaces, experiments and redirections in this sense
\* preserves the invariant.
LEMMA KeepsRecordsInv ==
    ASSUME RecordsInv, TypeOK',
           \A j \in Ifaces : interfaces[j] # None => interfaces'[j] # None,
           \A x \in ExpIDs :
              experiments'[x] # None => experiments'[x] = experiments[x],
           ifb' = ifb, saved' = saved
    PROVE  RecordsInv'
<1>0. \A x \in ExpIDs :
          experiments[x] # None => experiments[x].Interface \in Ifaces
  BY DEF RecordsInv, TypeOK, ExperimentState
<1>1. ExperimentInterfaceKnown'
  BY <1>0 DEF RecordsInv, ExperimentInterfaceKnown
<1>2. IngressInForce'
  BY <1>0 DEF RecordsInv, IngressInForce
<1>3. SavedKnown' /\ SavedIngress'
  BY DEF RecordsInv, SavedKnown, SavedIngress
<1>4. QED
  BY <1>1, <1>2, <1>3 DEF RecordsInv

\* A step that records experiment e on a known interface, redirected if it
\* is an ingress experiment, preserves the invariant.
LEMMA RecordKeepsRecordsInv ==
    ASSUME RecordsInv, TypeOK', NEW e \in ExpIDs, NEW i \in Ifaces,
           NEW st \in InterfaceState, NEW new \in ExperimentState,
           interfaces' = [interfaces EXCEPT ![i] = st],
           experiments' = [experiments EXCEPT ![e] = new],
           new.Interface = i,
           new.Direction = "ingress" => ifb'[i] = "redirecting",
           \A j \in Ifaces : ifb[j] = "redirecting" => ifb'[j] = "redirecting",
           saved' = saved
    PROVE  RecordsInv'
<1>1. \A j \in Ifaces : interfaces[j] # None => interfaces'[j] # None
  BY NoneAssumption DEF RecordsInv, TypeOK
<1>2. interfaces'[i] # None
  BY NoneAssumption DEF RecordsInv, TypeOK
<1>3. \A x \in ExpIDs \ {e} : experiments'[x] = experiments[x]
  BY DEF RecordsInv, TypeOK
<1>4. experiments'[e] = new
  BY DEF RecordsInv, TypeOK
<1>5. \A x \in ExpIDs :
          experiments[x] # None => experiments[x].Interface \in Ifaces
  BY DEF RecordsInv, TypeOK, ExperimentState
<1>6. ExperimentInterfaceKnown'
  BY <1>1, <1>2, <1>3, <1>4, <1>5 DEF RecordsInv, ExperimentInterfaceKnown
<1>7. IngressInForce'
  BY <1>3, <1>4, <1>5 DEF RecordsInv, IngressInForce
<1>8. SavedKnown'
  BY DEF RecordsInv, SavedKnown
<1>9. SavedIngress'
  <2>1. \A x \in ExpIDs : saved # None /\ saved.experiments[x] # None
            => saved.experiments[x].Interface \in Ifaces
    BY DEF RecordsInv, TypeOK, Maps, ExperimentState
  <2>2. QED
    BY <2>1 DEF RecordsInv, SavedIngress
<1>10. QED
  BY <1>6, <1>7, <1>8, <1>9 DEF RecordsInv
\* Every step preserves the invariant.
LEMMA NextRecordsInv == RecordsInv /\ [Next]_vars => RecordsInv'
<1> SUFFICES ASSUME RecordsInv, [Next]_vars PROVE RecordsInv'
  OBVIOUS
<1>0. TypeOK /\ TypeOK'
  BY NextType DEF RecordsInv
<1>1. ASSUME NEW e \in ExpIDs, NEW i \in Ifaces, NEW c \in Configs,
             NEW t \in TTLs,
             \/ Apply(e, i, c, t)
             \/ ApplyWithFilter(e, i, c, t)
             \/ ApplyIngress(e, i, c, t)
      PROVE  RecordsInv'
  <2>1. PICK st \in InterfaceState : st = GetOrCreate(i)
    BY <1>0, GetOrCreateType
  <2>2. saved' = saved
    BY <1>1 DEF Apply, ApplyWithFilter, ApplyIngress
  <2>3. \A j \in Ifaces : ifb[j] = "redirecting" => ifb'[j] = "redirecting"
    BY <1>0, <1>1 DEF Apply, ApplyWithFilter, ApplyIngress, TypeOK
  <2>4. CASE /\ UNCHANGED experiments
             /\ \/ interfaces' = [interfaces EXCEPT ![i] = st]
                \/ UNCHANGED interfaces
    <3>1. \A j \in Ifaces : interfaces[j] # None => interfaces'[j] # None
      BY <1>0, <2>4, NoneAssumption DEF TypeOK
    <3>2. ExperimentInterfaceKnown'
      BY <1>0, <2>4, <3>1
         DEF RecordsInv, TypeOK, ExperimentInterfaceKnown, ExperimentState
    <3>3. IngressInForce'
      BY <1>0, <2>3, <2>4
         DEF RecordsInv, TypeOK, IngressInForce, ExperimentState
    <3>4. SavedKnown'
      BY <2>2 DEF RecordsInv, SavedKnown
    <3>5. SavedIngress'
      <4>1. \A x \in ExpIDs : saved # None /\ saved.experiments[x] # None
                => saved.experiments[x].Interface \in Ifaces
        BY <1>0 DEF TypeOK, Maps, ExperimentState
      <4>2. QED
        BY <4>1, <2>2, <2>3 DEF RecordsInv, SavedIngress
    <3>6. QED
      BY <1>0, <3>2, <3>3, <3>4, <3>5 DEF RecordsInv
  <2>5. CASE \E dir \in {"none", "egress", "ingress"} :
                /\ Record(e, i, c, t, dir)
                /\ dir = "ingress" => ifb'[i] = "redirecting"
                /\ \/ interfaces' = [interfaces EXCEPT ![i] =
                         [st EXCEPT !.HasNetem = TRUE, !.CurrentConfig = c]]
                   \/ interfaces' = [interfaces EXCEPT ![i] =
                         [st EXCEPT !.HasIngress = TRUE]]
    <3>1. PICK dir \in {"none", "egress", "ingress"} :
                /\ Record(e, i, c, t, dir)
                /\ dir = "ingress" => ifb'[i] = "redirecting"
                /\ \/ interfaces' = [interfaces EXCEPT ![i] =
                         [st EXCEPT !.HasNetem = TRUE, !.CurrentConfig = c]]
                   \/ interfaces' = [interfaces EXCEPT ![i] =
                         [st EXCEPT !.HasIngress = TRUE]]
      BY <2>5
    <3>2. PICK st2 \in InterfaceState :
              interfaces' = [interfaces EXCEPT ![i] = st2]
      BY <3>1, ConfigsAssumption DEF InterfaceState
    <3> DEFINE new == [Interface |-> i, Config |-> c, StartTime |-> now,
                       TTL |-> t, Direction |-> dir]
    <3>3. now \in Nat /\ c \in NetemConfig /\ t \in Nat
      BY <1>0, ConfigsAssumption, TTLsAssumption, BoundsAssumption DEF TypeOK
    <3>4. new \in ExperimentState
      BY <3>3 DEF ExperimentState
    <3>5. experiments' = [experiments EXCEPT ![e] = new]
      BY <3>1 DEF Record
    <3>6. new.Interface = i
          /\ (new.Direction = "ingress" => ifb'[i] = "redirecting")
      BY <3>1
    <3> HIDE DEF new
    <3>7. QED
      BY <1>0, <2>2, <2>3, <3>2, <3>4, <3>5, <3>6, RecordKeepsRecordsInv
  <2>6. QED
    <3>1. CASE Apply(e, i, c, t)
      BY <2>1, <2>4, <2>5, <3>1 DEF Apply
    <3>2. CASE ApplyWithFilter(e, i, c, t)
      BY <2>1, <2>4, <2>5, <3>2 DEF ApplyWithFilter
    <3>3. CASE ApplyIngress(e, i, c, t)
      <4>1. ifb' = [ifb EXCEPT ![i] = "redirecting"]
                => ifb'[i] = "redirecting"
        BY <1>0 DEF TypeOK
      <4>2. QED
        BY <2>1, <2>4, <2>5, <3>3, <4>1 DEF ApplyIngress
    <3>4. QED
      BY <1>1, <3>1, <3>2, <3>3
<1>2. ASSUME NEW e \in ExpIDs, Revert(e) PROVE RecordsInv'
  BY <1>0, <1>2, RevertKeeps, KeepsRecordsInv
<1>3. ASSUME NEW i \in Ifaces, RevertAll(i) PROVE RecordsInv'
  <2>1. \A j \in Ifaces : interfaces[j] # None => interfaces'[j] # None
    BY <1>0, <1>3, RestoreKeepsKnown DEF RevertAll
  <2>2. \A x \in ExpIDs :
            experiments'[x] # None => experiments'[x] = experiments[x]
    BY <1>3 DEF RevertAll
  <2>3. ifb' = ifb /\ saved' = saved
    BY <1>3 DEF RevertAll
  <2>4. QED
    BY <1>0, <2>1, <2>2, <2>3, KeepsRecordsInv
<1>4. ASSUME UNCHANGED <<interfaces, experiments, ifb, saved>>
      PROVE  RecordsInv'
  BY <1>0, <1>4, KeepsRecordsInv
<1>5. CASE ExportState
  <2>1. /\ UNCHANGED <<interfaces, experiments, ifb>>
        /\ saved'.experiments = experiments /\ saved'.interfaces = interfaces
    BY <1>5 DEF ExportState, manager, kernel
  <2>2. QED
    BY <1>0, <2>1 DEF RecordsInv, ExperimentInterfaceKnown, IngressInForce,
                      SavedKnown, SavedIngress
<1>6. CASE ImportState
  BY <1>0, <1>6 DEF RecordsInv, ImportState, ExperimentInterfaceKnown,
                    IngressInForce, SavedKnown, SavedIngress, kernel
<1>7. CASE Restart
  BY <1>0, <1>7 DEF RecordsInv, Restart, ExperimentInterfaceKnown,
                    IngressInForce, SavedKnown, SavedIngress, kernel
<1>8. CASE Background
  <2>1. ASSUME NEW tm \in timers, TimerFires(tm) PROVE RecordsInv'
    <3>1. tm.exp \in ExpIDs /\ Revert(tm.exp)
      BY <1>0, <2>1 DEF TypeOK, TimerFires
    <3>2. QED
      BY <3>1, <1>2
  <2>2. CASE Tick
    BY <1>4, <2>2 DEF Tick, manager, kernel
  <2>3. ASSUME NEW k \in 1..MaxCleaners, CleanupScan(k) PROVE RecordsInv'
    BY <1>4, <2>3 DEF CleanupScan, manager, kernel
  <2>4. ASSUME NEW k \in 1..MaxCleaners, NEW e \in ExpIDs,
               CleanupRevert(k, e)
        PROVE  RecordsInv'
    BY <1>2, <2>4 DEF CleanupRevert
  <2>5. QED
    BY <1>8, <2>1, <2>2, <2>3, <2>4 DEF Background
<1>9. CASE UNCHANGED vars
  BY <1>4, <1>9 DEF vars, manager, kernel
<1>10. QED
  BY <1>1, <1>2, <1>3, <1>5, <1>6, <1>7, <1>8, <1>9
     DEF Next, EgressNext, Removals, CallRevert

\* With every operation, failing commands, restarts and imports: Revert
\* finds the interface of every recorded experiment, and every recorded
\* ingress experiment is redirected.
THEOREM RecordsSound ==
    Spec => [](ExperimentInterfaceKnown /\ IngressInForce)
<1>1. Init => RecordsInv
  BY InitType DEF Init, RecordsInv, ExperimentInterfaceKnown, IngressInForce,
                  SavedKnown, SavedIngress
<1>2. RecordsInv => ExperimentInterfaceKnown /\ IngressInForce
  BY DEF RecordsInv
<1>3. QED
  BY <1>1, <1>2, NextRecordsInv, PTL DEF Spec

\* With every operation, a recorded ingress experiment is redirected
\* (ensureIngressRedirect).
THEOREM IngressAlwaysInForce == Spec => []IngressInForce
BY RecordsSound, PTL
-----------------------------------------------------------------------------
(* What the manager believes about the kernel, for callers of Apply,       *)
(* Revert and RevertAll: failing commands, reused identifiers, timers and  *)
(* cleanup routines included.  The two parts need each other: Revert of    *)
(* one of several experiments changes the netem qdisc only because the     *)
(* interface is believed to have one.                                      *)

EgressInv ==
    /\ TypeOK
    /\ BeliefMatchesKernel
    /\ ImpairedWhileActive

\* The steps of EgressSpec are steps of Spec.
LEMMA EgressType == EgressSpec => []TypeOK
<1>1. [EgressNext]_vars => [Next]_vars
  BY DEF Next
<1>2. QED
  BY <1>1, InitType, NextType, PTL DEF EgressSpec

\* Removing the root qdisc of an interface on which no experiment is left.
LEMMA RestoreEgress ==
    ASSUME EgressInv, TypeOK', NEW i \in Ifaces, interfaces[i] # None,
           RestoreOriginalQdisc(i),
           \A x \in ExpIDs : experiments'[x] # None =>
               experiments'[x] = experiments[x] /\ experiments[x].Interface # i
    PROVE  EgressInv'
<1>1. CASE UNCHANGED <<interfaces, root, netem>>
  BY <1>1 DEF EgressInv, BeliefMatchesKernel, ImpairedWhileActive
<1>2. CASE /\ root' = [root EXCEPT ![i] = "default"]
           /\ interfaces' = [interfaces EXCEPT
                 ![i].HasNetem = FALSE, ![i].CurrentConfig = None]
  <2>1. interfaces[i] \in InterfaceState
    BY DEF EgressInv, TypeOK
  <2>2. interfaces'[i].HasNetem = FALSE
    BY <1>2, <2>1 DEF EgressInv, TypeOK, InterfaceState
  <2>3. root'[i] = "default"
    BY <1>2 DEF EgressInv, TypeOK
  <2>4. \A j \in Ifaces \ {i} :
            interfaces'[j] = interfaces[j] /\ root'[j] = root[j]
    BY <1>2 DEF EgressInv, TypeOK
  <2>5. BeliefMatchesKernel'
    BY <2>2, <2>3, <2>4 DEF EgressInv, BeliefMatchesKernel
  <2>6. \A x \in ExpIDs :
            experiments[x] # None => experiments[x].Interface \in Ifaces
    BY DEF EgressInv, TypeOK, ExperimentState
  <2>7. ImpairedWhileActive'
    BY <2>4, <2>6 DEF EgressInv, ImpairedWhileActive
  <2>8. QED
    BY <2>5, <2>7 DEF EgressInv
<1>3. QED
  BY <1>1, <1>2 DEF RestoreOriginalQdisc

\* Revert keeps the manager's belief right.
LEMMA RevertEgress ==
    ASSUME EgressInv, TypeOK', NEW e \in ExpIDs, Revert(e)
    PROVE  EgressInv'
<1>1. CASE ~Found(e)
  BY <1>1 DEF Revert, EgressInv, BeliefMatchesKernel, ImpairedWhileActive
<1>2. CASE Found(e)
  <2> DEFINE i == experiments[e].Interface
             others == On(i) \ {e}
  <2>1. i \in Ifaces /\ interfaces[i] # None /\ experiments[e] # None
    BY <1>2 DEF EgressInv, TypeOK, Found, ExperimentState
  <2>2. /\ experiments'[e] = None
        /\ \A x \in ExpIDs \ {e} : experiments'[x] = experiments[x]
    BY <1>2 DEF EgressInv, TypeOK, Revert
  <2>3. CASE others = {}
    <3>1. RestoreOriginalQdisc(i)
      BY <1>2, <2>3 DEF Revert
    <3>2. \A x \in ExpIDs : experiments'[x] # None =>
            experiments'[x] = experiments[x] /\ experiments[x].Interface # i
      BY <2>2, <2>3 DEF On
    <3>3. QED
      BY <2>1, <3>1, <3>2, RestoreEgress
  <2>4. CASE others # {}
    <3>1. RecalculateNetemConfig(i, others)
      BY <1>2, <2>4 DEF Revert
    <3>2. root[i] = "netem"
      BY <2>1 DEF EgressInv, ImpairedWhileActive
    <3>3. root' = root /\ interfaces' = interfaces
      BY <3>1, <3>2 DEF RecalculateNetemConfig, SetNetem, EgressInv, TypeOK
    <3>4. QED
      BY <2>2, <3>3 DEF EgressInv, BeliefMatchesKernel, ImpairedWhileActive
  <2>5. QED
    BY <2>3, <2>4
<1>3. QED
  BY <1>1, <1>2

\* Every step of a caller of Apply, Revert and RevertAll, and every step of
\* the background, preserves the invariant.
LEMMA EgressNextInv == EgressInv /\ [EgressNext]_vars => EgressInv'
<1> SUFFICES ASSUME EgressInv, [EgressNext]_vars PROVE EgressInv'
  OBVIOUS
<1>0. TypeOK /\ TypeOK'
  <2>1. [Next]_vars
    BY DEF Next
  <2>2. QED
    BY <2>1, NextType DEF EgressInv
<1>1. ASSUME NEW e \in ExpIDs, NEW i \in Ifaces, NEW c \in Configs,
             NEW t \in TTLs, Apply(e, i, c, t)
      PROVE  EgressInv'
  <2>1. PICK st \in InterfaceState : st = GetOrCreate(i)
    BY <1>0, GetOrCreateType
  <2>2. st.HasNetem <=> root[i] = "netem"
    BY <2>1 DEF EgressInv, BeliefMatchesKernel, GetOrCreate, NewInterface
  <2>3. CASE /\ interfaces' = [interfaces EXCEPT ![i] = st]
             /\ UNCHANGED <<experiments, root>>
    <3>1. interfaces'[i] = st
          /\ \A j \in Ifaces \ {i} : interfaces'[j] = interfaces[j]
      BY <1>0, <2>3 DEF TypeOK
    <3>2. st # None
      BY NoneAssumption
    <3>3. BeliefMatchesKernel'
      BY <2>2, <2>3, <3>1, <3>2 DEF EgressInv, BeliefMatchesKernel
    <3>4. QED
      BY <1>0, <2>3, <3>3 DEF EgressInv, ImpairedWhileActive
  <2>4. CASE /\ SetNetem(i, c) /\ Record(e, i, c, t, "none")
             /\ interfaces' = [interfaces EXCEPT ![i] =
                   [st EXCEPT !.HasNetem = TRUE, !.CurrentConfig = c]]
    <3> DEFINE st2 == [st EXCEPT !.HasNetem = TRUE, !.CurrentConfig = c]
    <3>0. c \in NetemConfig
      BY ConfigsAssumption
    <3>1. /\ interfaces' = [interfaces EXCEPT ![i] = st2]
          /\ st2 \in InterfaceState /\ st2.HasNetem
      BY <2>4, <3>0 DEF InterfaceState
    <3> HIDE DEF st2
    <3>2. /\ interfaces'[i] # None /\ interfaces'[i].HasNetem
          /\ \A j \in Ifaces \ {i} : interfaces'[j] = interfaces[j]
      BY <1>0, <3>1, NoneAssumption DEF TypeOK
    <3>3. root'[i] = "netem" /\ \A j \in Ifaces \ {i} : root'[j] = root[j]
      BY <1>0, <2>4 DEF TypeOK, SetNetem
    <3>4. /\ experiments'[e].Interface = i
          /\ \A x \in ExpIDs \ {e} : experiments'[x] = experiments[x]
      BY <1>0, <2>4 DEF TypeOK, Record
    <3>5. BeliefMatchesKernel'
      BY <3>2, <3>3 DEF EgressInv, BeliefMatchesKernel
    <3>6. \A x \in ExpIDs :
              experiments[x] # None => experiments[x].Interface \in Ifaces
      BY <1>0 DEF TypeOK, ExperimentState
    <3>7. ImpairedWhileActive'
      BY <3>3, <3>4, <3>6 DEF EgressInv, ImpairedWhileActive
    <3>8. QED
      BY <1>0, <3>5, <3>7 DEF EgressInv
  <2>5. QED
    BY <1>1, <2>1, <2>3, <2>4 DEF Apply
<1>2. ASSUME NEW e \in ExpIDs, Revert(e) PROVE EgressInv'
  BY <1>0, <1>2, RevertEgress
<1>3. ASSUME NEW i \in Ifaces, RevertAll(i) PROVE EgressInv'
  <2>1. \A x \in ExpIDs : experiments'[x] # None =>
            experiments'[x] = experiments[x] /\ experiments[x].Interface # i
    BY <1>3 DEF RevertAll, On
  <2>2. QED
    BY <1>0, <1>3, <2>1, RestoreEgress DEF RevertAll
<1>4. ASSUME UNCHANGED <<interfaces, experiments, root>> PROVE EgressInv'
  BY <1>0, <1>4 DEF EgressInv, BeliefMatchesKernel, ImpairedWhileActive
<1>5. CASE Background
  <2>1. ASSUME NEW tm \in timers, TimerFires(tm) PROVE EgressInv'
    <3>1. tm.exp \in ExpIDs /\ Revert(tm.exp)
      BY <1>0, <2>1 DEF TypeOK, TimerFires
    <3>2. QED
      BY <3>1, <1>2
  <2>2. CASE Tick
    BY <1>4, <2>2 DEF Tick, manager, kernel
  <2>3. ASSUME NEW k \in 1..MaxCleaners, CleanupScan(k) PROVE EgressInv'
    BY <1>4, <2>3 DEF CleanupScan, manager, kernel
  <2>4. ASSUME NEW k \in 1..MaxCleaners, NEW e \in ExpIDs,
               CleanupRevert(k, e)
        PROVE  EgressInv'
    BY <1>2, <2>4 DEF CleanupRevert
  <2>5. QED
    BY <1>5, <2>1, <2>2, <2>3, <2>4 DEF Background
<1>6. CASE UNCHANGED vars
  BY <1>4, <1>6 DEF vars, manager, kernel
<1>7. QED
  BY <1>1, <1>2, <1>3, <1>5, <1>6 DEF EgressNext, Removals, CallRevert

\* For callers of Apply, Revert and RevertAll the manager is never wrong
\* about the kernel, and a recorded experiment's interface has a netem.
THEOREM BeliefSound ==
    EgressSpec => [](BeliefMatchesKernel /\ ImpairedWhileActive)
<1>1. Init => EgressInv
  BY InitType DEF Init, EgressInv, BeliefMatchesKernel, ImpairedWhileActive
<1>2. EgressInv => BeliefMatchesKernel /\ ImpairedWhileActive
  BY DEF EgressInv
<1>3. QED
  BY <1>1, <1>2, EgressNextInv, PTL DEF EgressSpec

\* For callers of Apply, Revert and RevertAll, an interface with a recorded
\* experiment is impaired (Revert of one of several).
THEOREM StaysImpaired == EgressSpec => []ImpairedWhileActive
BY BeliefSound, PTL

\* The parameters of a configuration that covers another cover those of the
\* other; its jitter too, for where the other has a delay it has one.
LEMMA ArgsCover ==
    ASSUME NEW c \in NetemConfig, NEW m \in NetemConfig, \A p \in Params : c[p] <= m[p]
    PROVE  \A p \in Params : BuildNetemArgs(c)[p] <= BuildNetemArgs(m)[p]
<1> TAKE p \in Params
<1>1. \A q \in Params : c[q] \in Nat /\ m[q] \in Nat
  BY BoundsAssumption DEF NetemConfig
<1>2. "delay" \in Params /\ "jitter" \in Params
  BY DEF Params
<1>3. CASE p # "jitter"
  BY <1>3 DEF BuildNetemArgs, NetemConfig
<1>4. CASE p = "jitter"
  <2>1. /\ BuildNetemArgs(c)[p] = IF c["delay"] > 0 THEN c["jitter"] ELSE 0
        /\ BuildNetemArgs(m)[p] = IF m["delay"] > 0 THEN m["jitter"] ELSE 0
    BY <1>2, <1>4 DEF BuildNetemArgs, NetemConfig
  <2>2. c["delay"] <= m["delay"] /\ c["jitter"] <= m["jitter"]
    BY <1>2
  <2>3. QED
    BY <1>1, <1>2, <2>1, <2>2
<1>5. QED
  BY <1>3, <1>4

\* A command carries each parameter as it is, or, of the jitter, nothing.
LEMMA ArgsBelow ==
    ASSUME NEW c \in NetemConfig
    PROVE  /\ \A p \in Params : BuildNetemArgs(c)[p] <= c[p]
           /\ \A p \in Caps : BuildNetemArgs(c)[p] = c[p]
BY BoundsAssumption DEF BuildNetemArgs, NetemConfig, Params, Caps

\* Revert: the merged configuration covers that of every other experiment,
\* and takes each parameter from one of them.
LEMMA RevertLeavesInForce ==
    ASSUME TypeOK, NEW e \in ExpIDs, Revert(e), NEW i \in Ifaces
    PROVE  OthersInForceAfter(i)
<1> SUFFICES ASSUME On(i)' # {}, On(i)' # On(i), netem'[i] # netem[i]
             PROVE  /\ \A x \in On(i)', p \in Params \ Caps :
                          BuildNetemArgs(experiments'[x].Config)[p] <= netem'[i][p]
                    /\ \A x \in On(i)', p \in Caps :
                          experiments'[x].Config[p] > 0 => netem'[i][p] > 0
                    /\ \A p \in Params : \E x \in On(i)' :
                          netem'[i][p] <= experiments'[x].Config[p]
  BY DEF OthersInForceAfter
<1> DEFINE j == experiments[e].Interface
           others == On(j) \ {e}
           cs == {experiments[y].Config : y \in others}
           merged == MergeConfigs(cs)
<1>1. Found(e)
  BY DEF Revert
<1>2. j \in Ifaces /\ experiments[e] # None /\ experiments' = [experiments EXCEPT ![e] = None]
  BY <1>1 DEF TypeOK, Revert, Found, ExperimentState
<1>3. /\ experiments'[e] = None
      /\ \A y \in ExpIDs \ {e} : experiments'[y] = experiments[y]
  BY <1>2 DEF TypeOK
<1>4. i = j
  <2>1. \A k \in Ifaces \ {j} : On(k)' = On(k)
    BY <1>3 DEF On
  <2>2. QED
    BY <2>1
<1>5. On(i)' = others
  BY <1>2, <1>3, <1>4 DEF On
<1>6. others # {}
  BY <1>5
<1>7. SetNetem(j, merged)
  <2>1. RecalculateNetemConfig(j, others)
    BY <1>1, <1>6 DEF Revert
  <2>2. QED
    BY <1>4, <2>1 DEF RecalculateNetemConfig
<1>8. cs \in SUBSET NetemConfig /\ cs # {}
  <2>1. \A y \in others : experiments[y] \in ExperimentState
    BY DEF TypeOK, On
  <2>2. \A y \in others : experiments[y].Config \in NetemConfig
    BY <2>1 DEF ExperimentState
  <2> HIDE DEF others
  <2>3. QED
    BY <1>6, <2>2
<1>9. \A x \in others : experiments'[x] = experiments[x]
  <2>1. others \subseteq ExpIDs \ {e}
    BY DEF On
  <2>2. QED
    BY <1>3, <2>1
<1>10. \A x \in others : experiments[x].Config \in cs
  OBVIOUS
<1>11. \A c \in cs : \E x \in others : c = experiments[x].Config
  OBVIOUS
<1>12. netem'[i] = BuildNetemArgs(merged)
  BY <1>2, <1>4, <1>7 DEF SetNetem, TypeOK
<1> HIDE DEF cs, merged, others
<1>13. /\ merged \in NetemConfig
       /\ \A c \in cs, p \in Params : c[p] <= merged[p]
       /\ \A p \in Params : \E c \in cs : merged[p] = c[p]
  BY <1>8, MergeCovers, MergeAttained DEF merged
<1>14. ASSUME NEW x \in others, NEW p \in Params
       PROVE  BuildNetemArgs(experiments[x].Config)[p] <= netem'[i][p]
  BY <1>8, <1>10, <1>12, <1>13, ArgsCover
<1>15. ASSUME NEW x \in others, NEW p \in Caps, experiments[x].Config[p] > 0
       PROVE  netem'[i][p] > 0
  <2>1. p \in Params
    BY DEF Caps, Params
  <2>2. netem'[i][p] = merged[p] /\ experiments[x].Config[p] <= merged[p]
    BY <1>10, <1>12, <1>13, <2>1, ArgsBelow
  <2>3. experiments[x].Config[p] \in Nat /\ merged[p] \in Nat
    BY <1>8, <1>10, <1>13, <2>1, BoundsAssumption DEF NetemConfig
  <2>4. QED
    BY <1>15, <2>2, <2>3
<1>16. ASSUME NEW p \in Params
       PROVE  \E x \in others : netem'[i][p] <= experiments[x].Config[p]
  <2>1. PICK c \in cs : merged[p] = c[p]
    BY <1>13
  <2>2. netem'[i][p] <= c[p]
    BY <1>12, <1>13, <2>1, ArgsBelow
  <2>3. QED
    BY <1>11, <2>2
<1>17. QED
  BY <1>5, <1>9, <1>14, <1>15, <1>16

\* For callers of Apply, Revert and RevertAll, with any command failing: when
\* some of the experiments of an interface go and tc does what it is told,
\* every impairment of all that remain is in force, each cap as loose as the
\* loosest that remains, and nothing of those that went (Revert, mergeConfigs).
THEOREM RemainingStayInForce == EgressSpec => RemainingInForce
<1>1. TypeOK /\ EgressNext => \A i \in Ifaces : OthersInForceAfter(i)
  <2> SUFFICES ASSUME TypeOK, EgressNext, NEW i \in Ifaces PROVE OthersInForceAfter(i)
    OBVIOUS
  <2>1. ASSUME NEW e \in ExpIDs, NEW k \in Ifaces, NEW c \in Configs,
               NEW t \in TTLs, Apply(e, k, c, t)
        PROVE  OthersInForceAfter(i)
    <3>1. CASE UNCHANGED <<experiments, root, netem>>
      BY <3>1 DEF OthersInForceAfter
    <3>2. CASE SetNetem(k, c) /\ Record(e, k, c, t, "none")
      <4>1. CASE i # k
        BY <3>2, <4>1 DEF SetNetem, OthersInForceAfter, TypeOK
      <4>2. CASE i = k
        <5>1. /\ experiments'[e].Interface = k
              /\ experiments'[e] \in ExperimentState
              /\ \A y \in ExpIDs \ {e} : experiments'[y] = experiments[y]
          <6>1. experiments'[e] = [Interface |-> k, Config |-> c, StartTime |-> now,
                                  TTL |-> t, Direction |-> "none"]
            BY <3>2 DEF Record, TypeOK
          <6>2. c \in NetemConfig /\ t \in Nat /\ now \in Nat
            BY ConfigsAssumption, TTLsAssumption, BoundsAssumption DEF TypeOK
          <6>3. QED
            BY <3>2, <6>1, <6>2 DEF Record, TypeOK, ExperimentState
        <5>2. On(k)' = On(k) \cup {e}
          BY <5>1, NoneAssumption DEF On
        <5>3. QED
          BY <4>2, <5>2 DEF OthersInForceAfter
      <4>3. QED
        BY <4>1, <4>2
    <3>3. QED
      BY <2>1, <3>1, <3>2 DEF Apply
  <2>2. ASSUME NEW e \in ExpIDs, Revert(e) PROVE OthersInForceAfter(i)
    BY <2>2, RevertLeavesInForce
  <2>3. ASSUME NEW k \in Ifaces, RevertAll(k) PROVE OthersInForceAfter(i)
    <3>1. /\ experiments' = [e \in ExpIDs |-> IF e \in On(k) THEN None ELSE experiments[e]]
          /\ RestoreOriginalQdisc(k)
      BY <2>3 DEF RevertAll
    <3>2. CASE i # k
      <4>1. netem'[i] = netem[i]
        BY <3>1, <3>2 DEF RestoreOriginalQdisc, TypeOK
      <4>2. QED
        BY <4>1 DEF OthersInForceAfter
    <3>3. CASE i = k
      <4>1. On(k)' = {}
        BY <3>1 DEF On
      <4>2. QED
        BY <3>3, <4>1 DEF OthersInForceAfter
    <3>4. QED
      BY <3>2, <3>3
  <2>4. CASE Background
    <3>1. CASE netem' = netem
      BY <3>1 DEF OthersInForceAfter
    <3>2. CASE \E e \in ExpIDs : Revert(e)
      BY <2>2, <3>2
    <3>3. \A tm \in timers : tm.exp \in ExpIDs
      BY DEF TypeOK
    <3>4. QED
      BY <2>4, <3>1, <3>2, <3>3
         DEF Background, Tick, TimerFires, CleanupScan, CleanupRevert, kernel
  <2>5. QED
    BY <2>1, <2>2, <2>3, <2>4 DEF EgressNext, Removals, CallRevert
<1>2. QED
  BY <1>1, EgressType, PTL DEF EgressSpec, RemainingInForce
-----------------------------------------------------------------------------
(* Refinement: with commands that work, and callers that leave an active   *)
(* identifier on its interface, the manager implements FaultService.       *)

\* With working commands no interface stays impaired without an experiment.
NoLeftover ==
    \A i \in Ifaces : root[i] = "netem" => On(i) # {}

ServiceInv == EgressInv /\ NoLeftover

\* Removing the root qdisc of a known interface always leaves it without a
\* netem qdisc, when the command works.
LEMMA RestoreClears ==
    ASSUME TypeOK, ~CommandsMayFail, NEW i \in Ifaces, RestoreOriginalQdisc(i)
    PROVE  /\ root'[i] # "netem"
           /\ \A j \in Ifaces \ {i} : root'[j] = root[j]
BY DEF TypeOK, RestoreOriginalQdisc, Fails, MayDel

\* What Revert does, seen from FaultService: it stops the experiment on its
\* interface, or does nothing.
LEMMA RevertStops ==
    ASSUME ServiceInv, ~CommandsMayFail, NEW e \in ExpIDs, Revert(e)
    PROVE  \/ UNCHANGED <<root, experiments>>
           \/ \E i \in Ifaces :
                 /\ e \in On(i)
                 /\ On(i)' = On(i) \ {e}
                 /\ \A j \in Ifaces \ {i} : On(j)' = On(j)
                 /\ \A j \in Ifaces \ {i} : root'[j] = root[j]
                 /\ On(i) = {e} => root'[i] # "netem"
                 /\ On(i) # {e} => root'[i] = "netem"
<1>1. CASE ~Found(e)
  BY <1>1 DEF Revert
<1>2. CASE Found(e)
  <2>0. PICK i \in Ifaces : i = experiments[e].Interface
    BY <1>2 DEF ServiceInv, EgressInv, TypeOK, Found, ExperimentState
  <2> DEFINE others == On(i) \ {e}
  <2>1. experiments[e] # None /\ TypeOK
    BY <1>2 DEF ServiceInv, EgressInv, Found
  <2>2. /\ experiments'[e] = None
        /\ \A x \in ExpIDs \ {e} : experiments'[x] = experiments[x]
    BY <1>2, <2>1 DEF TypeOK, Revert
  <2>3. /\ e \in On(i) /\ On(i)' = On(i) \ {e}
        /\ \A j \in Ifaces \ {i} : On(j)' = On(j)
    <3>1. e \in On(i) /\ \A j \in Ifaces \ {i} : e \notin On(j)
      BY <2>0, <2>1 DEF On
    <3>2. ASSUME NEW j \in Ifaces PROVE On(j)' = On(j) \ {e}
      BY <2>2 DEF On
    <3>3. QED
      BY <3>1, <3>2
  <2>4. CASE others = {}
    <3>1. RestoreOriginalQdisc(i)
      BY <1>2, <2>0, <2>4 DEF Revert
    <3>2. /\ root'[i] # "netem"
          /\ \A j \in Ifaces \ {i} : root'[j] = root[j]
      BY <2>1, <3>1, RestoreClears
    <3>3. On(i) = {e}
      BY <2>3, <2>4
    <3>4. QED
      BY <2>1, <2>3, <3>2, <3>3
  <2>5. CASE others # {}
    <3>1. RecalculateNetemConfig(i, others)
      BY <1>2, <2>0, <2>5 DEF Revert
    <3>2. root[i] = "netem"
      BY <2>0, <2>1 DEF ServiceInv, EgressInv, ImpairedWhileActive
    <3>3. root' = root
      BY <2>1, <3>1, <3>2 DEF RecalculateNetemConfig, SetNetem, TypeOK
    <3>4. On(i) # {e}
      BY <2>5
    <3>5. QED
      BY <2>1, <2>3, <3>2, <3>3, <3>4
  <2>6. QED
    BY <2>4, <2>5
<1>3. QED
  BY <1>1, <1>2

\* What Apply does: it starts the experiment on the interface, or nothing.
LEMMA ApplyStarts ==
    ASSUME TypeOK, NEW e \in ExpIDs, NEW i \in Ifaces, NEW c \in Configs,
           NEW t \in TTLs, Disciplined(e, i), Apply(e, i, c, t)
    PROVE  \/ UNCHANGED <<root, experiments>>
           \/ /\ root'[i] = "netem"
              /\ \A j \in Ifaces \ {i} : root'[j] = root[j]
              /\ On(i)' = On(i) \cup {e}
              /\ \A j \in Ifaces \ {i} : On(j)' = On(j) /\ e \notin On(j)
<1>1. CASE UNCHANGED <<experiments, root, netem, clock>>
  BY <1>1
<1>2. CASE SetNetem(i, c) /\ Record(e, i, c, t, "none")
  <2> DEFINE new == [Interface |-> i, Config |-> c, StartTime |-> now,
                     TTL |-> t, Direction |-> "none"]
  <2>1. root'[i] = "netem" /\ \A j \in Ifaces \ {i} : root'[j] = root[j]
    BY <1>2 DEF TypeOK, SetNetem
  <2>2. /\ experiments'[e] = new
        /\ \A x \in ExpIDs \ {e} : experiments'[x] = experiments[x]
    BY <1>2 DEF TypeOK, Record
  <2>3. new \in ExperimentState
    <3>1. now \in Nat /\ c \in NetemConfig /\ t \in Nat
      BY ConfigsAssumption, TTLsAssumption, BoundsAssumption DEF TypeOK
    <3>2. QED
      BY <3>1 DEF ExperimentState
  <2>4. new # None /\ new.Interface = i
    BY <2>3, NoneAssumption
  <2> HIDE DEF new
  <2>5. On(i)' = On(i) \cup {e}
    BY <2>2, <2>4 DEF On
  <2>6. \A j \in Ifaces \ {i} : e \notin On(j)
    BY DEF On, Disciplined
  <2>7. \A j \in Ifaces \ {i} : On(j)' = On(j)
    BY <2>2, <2>4, <2>6 DEF On
  <2>8. QED
    BY <2>1, <2>5, <2>6, <2>7
<1>3. QED
  BY <1>1, <1>2 DEF Apply

\* What RevertAll does: it stops everything on the interface.
LEMMA RevertAllStops ==
    ASSUME TypeOK, ~CommandsMayFail, NEW i \in Ifaces, RevertAll(i)
    PROVE  /\ root'[i] # "netem"
           /\ \A j \in Ifaces \ {i} : root'[j] = root[j]
           /\ On(i)' = {}
           /\ \A j \in Ifaces \ {i} : On(j)' = On(j)
<1>1. /\ root'[i] # "netem"
      /\ \A j \in Ifaces \ {i} : root'[j] = root[j]
  BY RestoreClears DEF RevertAll
<1>2. experiments' = [e \in ExpIDs |->
                         IF e \in On(i) THEN None ELSE experiments[e]]
  BY DEF RevertAll
<1>3. QED
  BY <1>1, <1>2 DEF On
\* The steps of a disciplined caller, and of the background, are steps of
\* FaultService or change nothing that it sees.
LEMMA ServiceStep ==
    ASSUME ~CommandsMayFail, ServiceInv, [DisciplinedNext]_vars
    PROVE  [Service!Next]_(Service!vars) /\ NoLeftover'
<1> DEFINE active == [i \in Ifaces |-> On(i)]
           impaired == {i \in Ifaces : root[i] = "netem"}
<1>0. TypeOK
  BY DEF ServiceInv, EgressInv
<1>1. ASSUME UNCHANGED <<root, experiments>>
      PROVE  [Service!Next]_(Service!vars) /\ NoLeftover'
  <2>1. active' = active /\ impaired' = impaired
    BY <1>1 DEF On
  <2>2. NoLeftover'
    BY <1>1 DEF ServiceInv, NoLeftover, On
  <2>3. QED
    BY <2>1, <2>2 DEF Service!vars
<1>2. ASSUME NEW e \in ExpIDs, Revert(e)
      PROVE  [Service!Next]_(Service!vars) /\ NoLeftover'
  <2>1. CASE UNCHANGED <<root, experiments>>
    BY <1>1, <2>1
  <2>2. ASSUME NEW i \in Ifaces, e \in On(i), On(i)' = On(i) \ {e},
               \A j \in Ifaces \ {i} : On(j)' = On(j),
               \A j \in Ifaces \ {i} : root'[j] = root[j],
               On(i) = {e} => root'[i] # "netem",
               On(i) # {e} => root'[i] = "netem"
        PROVE  [Service!Next]_(Service!vars) /\ NoLeftover'
    <3>1. active' = [active EXCEPT ![i] = @ \ {e}]
      BY <2>2
    <3>2. root[i] = "netem"
      BY <2>2 DEF ServiceInv, EgressInv, ImpairedWhileActive, On
    <3>3. impaired' = IF On(i) = {e} THEN impaired \ {i} ELSE impaired
      BY <2>2, <3>2
    <3>4. Service!Stop(e, i)
      BY <2>2, <3>1, <3>3 DEF Service!Stop
    <3>5. NoLeftover'
      BY <2>2 DEF ServiceInv, NoLeftover
    <3>6. QED
      BY <3>4, <3>5 DEF Service!Next
  <2>3. QED
    BY <1>2, <2>1, <2>2, RevertStops
<1>3. ASSUME NEW e \in ExpIDs, NEW i \in Ifaces, NEW c \in Configs,
             NEW t \in TTLs, Disciplined(e, i), Apply(e, i, c, t)
      PROVE  [Service!Next]_(Service!vars) /\ NoLeftover'
  <2>1. CASE UNCHANGED <<root, experiments>>
    BY <1>1, <2>1
  <2>2. CASE /\ root'[i] = "netem"
             /\ \A j \in Ifaces \ {i} : root'[j] = root[j]
             /\ On(i)' = On(i) \cup {e}
             /\ \A j \in Ifaces \ {i} : On(j)' = On(j) /\ e \notin On(j)
    <3>1. active' = [active EXCEPT ![i] = @ \cup {e}]
      BY <2>2
    <3>2. impaired' = impaired \cup {i}
      BY <2>2
    <3>3. Service!Start(e, i)
      BY <2>2, <3>1, <3>2 DEF Service!Start
    <3>4. NoLeftover'
      BY <2>2 DEF ServiceInv, NoLeftover
    <3>5. QED
      BY <3>3, <3>4 DEF Service!Next
  <2>3. QED
    BY <1>0, <1>3, <2>1, <2>2, ApplyStarts
<1>4. ASSUME NEW i \in Ifaces, RevertAll(i)
      PROVE  [Service!Next]_(Service!vars) /\ NoLeftover'
  <2>1. /\ root'[i] # "netem"
        /\ \A j \in Ifaces \ {i} : root'[j] = root[j]
        /\ On(i)' = {}
        /\ \A j \in Ifaces \ {i} : On(j)' = On(j)
    BY <1>0, <1>4, RevertAllStops
  <2>2. active' = [active EXCEPT ![i] = {}] /\ impaired' = impaired \ {i}
    BY <2>1
  <2>3. Service!StopAll(i)
    BY <2>2 DEF Service!StopAll
  <2>4. NoLeftover'
    BY <2>1 DEF ServiceInv, NoLeftover
  <2>5. QED
    BY <2>3, <2>4 DEF Service!Next
<1>5. CASE Background
  <2>1. ASSUME NEW tm \in timers, TimerFires(tm)
        PROVE  [Service!Next]_(Service!vars) /\ NoLeftover'
    <3>1. tm.exp \in ExpIDs /\ Revert(tm.exp)
      BY <1>0, <2>1 DEF TypeOK, TimerFires
    <3>2. QED
      BY <3>1, <1>2
  <2>2. CASE Tick
    BY <1>1, <2>2 DEF Tick, manager, kernel
  <2>3. ASSUME NEW k \in 1..MaxCleaners, CleanupScan(k)
        PROVE  [Service!Next]_(Service!vars) /\ NoLeftover'
    BY <1>1, <2>3 DEF CleanupScan, manager, kernel
  <2>4. ASSUME NEW k \in 1..MaxCleaners, NEW e \in ExpIDs,
               CleanupRevert(k, e)
        PROVE  [Service!Next]_(Service!vars) /\ NoLeftover'
    BY <1>2, <2>4 DEF CleanupRevert
  <2>5. QED
    BY <1>5, <2>1, <2>2, <2>3, <2>4 DEF Background
<1>6. CASE UNCHANGED vars
  BY <1>1, <1>6 DEF vars, manager, kernel
<1>7. QED
  BY <1>2, <1>3, <1>4, <1>5, <1>6 DEF DisciplinedNext, Removals, CallRevert

\* With commands that work, and callers that leave an active identifier on
\* its interface, NetemManager implements FaultService: an interface is
\* impaired exactly as long as an experiment is recorded on it.
THEOREM NetemImplementsFaultService ==
    ASSUME ~CommandsMayFail
    PROVE  DisciplinedSpec => ImplementsFaultService
<1>1. Init => Service!Init /\ ServiceInv
  <2> SUFFICES ASSUME Init PROVE Service!Init /\ ServiceInv
    OBVIOUS
  <2>1. EgressInv
    BY InitType DEF Init, EgressInv, BeliefMatchesKernel, ImpairedWhileActive
  <2>2. /\ \A i \in Ifaces : root[i] # "netem"
        /\ \A i \in Ifaces : On(i) = {}
    BY DEF Init, On
  <2>3. QED
    BY <2>1, <2>2 DEF ServiceInv, NoLeftover, Service!Init
<1>2. ServiceInv /\ [DisciplinedNext]_vars
          => ServiceInv' /\ [Service!Next]_(Service!vars)
  <2> SUFFICES ASSUME ServiceInv, [DisciplinedNext]_vars
               PROVE  ServiceInv' /\ [Service!Next]_(Service!vars)
    OBVIOUS
  <2>1. [EgressNext]_vars
    BY DEF DisciplinedNext, EgressNext
  <2>2. EgressInv'
    BY <2>1, EgressNextInv DEF ServiceInv
  <2>3. QED
    BY <2>2, ServiceStep DEF ServiceInv
<1>3. QED
  BY <1>1, <1>2, PTL DEF DisciplinedSpec, ImplementsFaultService, Service!Spec
=============================================================================
