------------------------------ MODULE DiffEmit ------------------------------
(***************************************************************************)
(* DiffEmitEngine (controller/diff_emit_engine.go), with a reader of what  *)
(* it emits.  Data are maps from fields to values; a value is a map or an  *)
(* array of plain values, both functions.  Versions order the states of a  *)
(* key; the engine keeps the last state of each key until a cleanup drops  *)
(* it, as a hash and a reference to the map it was given, which its caller *)
(* may change between two calls.  Callers that change one map submitted    *)
(* for two keys do so here in two steps.                                   *)
(*                                                                         *)
(* ComputeDiff holds de.mu throughout, so it is one step.  Nothing in the  *)
(* code reads its results; the reader here gets, in order, every result    *)
(* with HasChanges, as it is when ComputeDiff returns.  compressDiff       *)
(* returns its argument and is left out, and so are the averages among the *)
(* metrics.  An entry of a diff for a modified value also has the values   *)
(* before and after: the reader makes do with the nested diff.             *)
(* DeepCompare is on, and ignored fields are fields of the data            *)
(* themselves, not of their values.                                        *)
(***************************************************************************)
EXTENDS Integers, FiniteSets

CONSTANTS
    StateKeys,        \* keys of states
    Inputs,           \* data that callers submit
    IgnoreFields,     \* config.IgnoreFields, wildcards expanded
    DiffThreshold,    \* config.DiffThreshold, in percent
    MaxStateHistory,  \* config.MaxStateHistory
    MaxStored,        \* bound on the states stored
    MapsMayChange     \* may a caller change a map it has submitted?

ASSUME DiffAssumption ==
    /\ DiffThreshold \in 0..100 /\ MaxStateHistory \in Nat /\ MaxStored \in Nat
    /\ MapsMayChange \in BOOLEAN

\* Data are functions, and so are the contents of their values.
ASSUME InputsAssumption ==
    \A data \in Inputs :
        /\ data = [f \in DOMAIN data |-> data[f]]
        /\ \A f \in DOMAIN data :
             LET value == data[f]
             IN  /\ value = [kind |-> value.kind, of |-> value.of]
                 /\ value.of = [x \in DOMAIN value.of |-> value.of[x]]

VARIABLES
    stateStore,    \* de.stateStore: the snapshot of each key it knows
    stored,        \* number of snapshots stored so far: the time of the last
    engineDied,    \* has a fatal error of the runtime ended the process?
    reader,        \* what a reader of the results has of each key
    misled         \* history: keys whose last result compared a changed map

diffVars == <<stateStore, stored, engineDied, reader, misled>>

Restriction(f, S) == [x \in DOMAIN f \cap S |-> f[x]]

\* normalizeForHashing: the hash sees the fields that are not ignored.
Hashed(data) == Restriction(data, DOMAIN data \ IgnoreFields)

\* The type of every variable; a version counts snapshots of its key.
DiffTypeOK ==
    /\ DOMAIN stateStore \subseteq StateKeys
    /\ \A k \in DOMAIN stateStore :
         /\ stateStore[k] \in [data : Inputs, hash : {Hashed(data) : data \in Inputs},
                                version : 1..stored, timestamp : 1..stored]
         /\ stateStore[k].version <= stateStore[k].timestamp
    /\ stored \in 0..MaxStored
    /\ engineDied \in BOOLEAN
    /\ DOMAIN reader = StateKeys
    /\ \A k \in StateKeys : reader[k].version \in 0..stored
    /\ misled \subseteq StateKeys

\* NewDiffEmitEngine.
DiffInit ==
    /\ stateStore = <<>>
    /\ stored = 0
    /\ engineDied = FALSE
    /\ reader = [k \in StateKeys |-> [data |-> <<>>, version |-> 0]]
    /\ misled = {}

----------------------------------------------------------------------------
(* Differences. *)

\* Mutant: removed entries are left out.
ChangesButRemovals(previous, current) ==
    [x \in {y \in DOMAIN current : y \in DOMAIN previous => previous[y] # current[y]} |->
        [action |-> IF x \in DOMAIN previous THEN "modified" ELSE "added",
         value  |-> current[x]]]

\* The entries of two maps, or of two arrays, that differ: added, removed or
\* modified.
Changes(previous, current) ==
    [x \in {y \in DOMAIN previous \cup DOMAIN current :
              (y \in DOMAIN previous /\ y \in DOMAIN current) =>
                  previous[y] # current[y]} |->
        IF x \notin DOMAIN previous THEN [action |-> "added", value |-> current[x]]
        ELSE IF x \notin DOMAIN current THEN [action |-> "removed", value |-> previous[x]]
        ELSE [action |-> "modified", value |-> current[x]]]

\* computeArrayDiff: by index, with the difference of the lengths.
ComputeArrayDiff(previous, current) ==
    [type          |-> "array",
     changes       |-> Changes(previous, current),
     length_change |-> Cardinality(DOMAIN current) - Cardinality(DOMAIN previous)]

\* computeMapDiff.
ComputeMapDiff(previous, current) ==
    [type |-> "object", changes |-> Changes(previous, current)]

\* computeNestedDiff: for two values of one kind, or the new one as it is.
ComputeNestedDiff(previous, current) ==
    IF previous.kind = "array" /\ current.kind = "array"
    THEN ComputeArrayDiff(previous.of, current.of)
    ELSE IF previous.kind = "object" /\ current.kind = "object"
    THEN ComputeMapDiff(previous.of, current.of)
    ELSE [type |-> "replaced", current |-> current]

\* computeDetailedDiff: what differs in the fields that are not ignored, with
\* the share of all fields, ignored ones included, that it makes up.
ComputeDetailedDiff(previous, current) ==
    LET all     == DOMAIN previous \cup DOMAIN current
        changes == Changes(Hashed(previous), Hashed(current))
    IN  [diff    |-> [f \in DOMAIN changes |->
                        IF changes[f].action = "modified"
                        THEN [action |-> "modified",
                              diff |-> ComputeNestedDiff(previous[f], current[f])]
                        ELSE changes[f]],
         percent |-> IF all = {} THEN 0
                     ELSE (100 * Cardinality(DOMAIN changes)) \div Cardinality(all)]

----------------------------------------------------------------------------
(* The reader: it takes a first result as it is, and a diff if it has the   *)
(* version the diff starts from.                                            *)

Patched(value, diff) ==
    IF diff.type = "replaced" THEN diff.current
    ELSE LET gone == {x \in DOMAIN diff.changes : diff.changes[x].action = "removed"}
             set  == DOMAIN diff.changes \ gone
         IN  [value EXCEPT !.of =
                [x \in (DOMAIN @ \ gone) \cup set |->
                    IF x \in set THEN diff.changes[x].value ELSE @[x]]]

Applied(data, diff) ==
    LET With(action) == {f \in DOMAIN diff : diff[f].action = action}
    IN  [f \in (DOMAIN data \cup With("added")) \ With("removed") |->
            IF f \notin DOMAIN diff THEN data[f]
            ELSE IF f \in With("added") THEN diff[f].value
            ELSE Patched(data[f], diff[f].diff)]

Reads(k, message) ==
    IF message.previous = 0
    THEN [data |-> message.diff, version |-> message.version]
    ELSE IF message.previous = reader[k].version
    THEN [data |-> Applied(reader[k].data, message.diff), version |-> message.version]
    ELSE reader[k]

----------------------------------------------------------------------------
(* Actions. *)

\* The state ComputeDiff stores and the result it returns.
Snapshot(k, data) ==
    [data      |-> data,
     hash      |-> Hashed(data),
     version   |-> IF k \in DOMAIN stateStore THEN stateStore[k].version + 1 ELSE 1,
     timestamp |-> stored + 1]

Result(k, data) ==
    LET known   == k \in DOMAIN stateStore
        details == ComputeDetailedDiff(stateStore[k].data, data)
    IN  [previous |-> IF known THEN stateStore[k].version ELSE 0,
         version  |-> Snapshot(k, data).version,
         diff     |-> IF known THEN details.diff ELSE data,
         percent  |-> IF known THEN details.percent ELSE 100]

\* ComputeDiff for data whose hash is the stored one: nothing is stored.
SkipUnchanged(k, data) ==
    /\ k \in DOMAIN stateStore
    /\ stateStore[k].hash = Hashed(data)
    /\ UNCHANGED diffVars

\* Has the map that is stored changed since its hash was taken?
Changed(k) == Hashed(stateStore[k].data) # stateStore[k].hash

\* ComputeDiff for other data: they are stored; only a change that reaches
\* the threshold is emitted.
ComputeDiff(k, data) ==
    LET result == Result(k, data)
        known  == k \in DOMAIN stateStore
    IN  /\ ~engineDied /\ stored < MaxStored
        /\ known => stateStore[k].hash # Hashed(data)
        /\ stateStore' = [j \in DOMAIN stateStore \cup {k} |->
             IF j = k THEN Snapshot(k, data) ELSE stateStore[j]]
        /\ stored' = stored + 1
        /\ \/ /\ result.percent >= DiffThreshold
              /\ reader' = [reader EXCEPT ![k] = Reads(k, result)]
              /\ misled' = IF ~known THEN misled \ {k}
                           ELSE IF Changed(k) THEN misled \cup {k}
                           ELSE misled
           \/ /\ result.percent < DiffThreshold
              /\ UNCHANGED <<reader, misled>>
        /\ UNCHANGED engineDied

\* A caller changes the map it submitted last: the engine holds the same map.
CallerChanges(k, data) ==
    /\ MapsMayChange /\ ~engineDied /\ stored < MaxStored
    /\ k \in DOMAIN stateStore
    /\ stateStore' = [stateStore EXCEPT ![k].data = data]
    /\ UNCHANGED <<stored, engineDied, reader, misled>>

\* performCleanup: the oldest states beyond MaxStateHistory go.
Kept == {k \in DOMAIN stateStore :
           Cardinality({l \in DOMAIN stateStore :
                          stateStore[l].timestamp > stateStore[k].timestamp})
             < MaxStateHistory}

PerformCleanup ==
    /\ ~engineDied
    /\ Cardinality(DOMAIN stateStore) > MaxStateHistory
    /\ stateStore' = Restriction(stateStore, Kept)
    /\ UNCHANGED <<stored, engineDied, reader, misled>>

\* Reset replaces the metrics between Lock and Unlock, and so unlocks the new
\* lock, which nobody holds: a fatal error.
Reset ==
    /\ ~engineDied
    /\ stateStore' = <<>>
    /\ engineDied' = TRUE
    /\ UNCHANGED <<stored, reader, misled>>

DiffNext ==
    \/ \E k \in StateKeys, data \in Inputs : ComputeDiff(k, data)
    \/ \E k \in StateKeys, data \in Inputs : SkipUnchanged(k, data)
    \/ \E k \in StateKeys, data \in Inputs : CallerChanges(k, data)
    \/ PerformCleanup
    \/ Reset

DiffSpec == DiffInit /\ [][DiffNext]_diffVars

----------------------------------------------------------------------------
(* Properties. *)

\* A reader that has got every result with changes, and has the version of the
\* stored state, has the data it was stored with, ignored fields aside, however
\* often a change too small to be sent, or a clean-up, came between.  Left out
\* is a key whose last result compared a map its caller had changed
\* (ComputeDiff, computeDetailedDiff).
ReaderInSync ==
    \A k \in DOMAIN stateStore \ misled :
        reader[k].version = stateStore[k].version =>
            Hashed(reader[k].data) = stateStore[k].hash

\* What a reader lacks is always less than the threshold, as
\* TestDiffEmitEngine_Threshold expects.  It does not hold: each change is
\* compared with what was stored last, not with what was sent last
\* (ComputeDiff).
LagBelowThreshold ==
    \A k \in DOMAIN stateStore :
        \/ reader[k].version = stateStore[k].version
        \/ ComputeDetailedDiff(reader[k].data, stateStore[k].data).percent
              < DiffThreshold
=============================================================================
