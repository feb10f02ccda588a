--------------------------- MODULE RealtimeProofs ---------------------------
(* Proofs about what the controller sends to its clients as it happens: the *)
(* diff engine and its reader, for all data, keys, ignored fields and       *)
(* thresholds, and the rooms of a namespace, for all sets of clients, rooms *)
(* and threads, and all limits.  The two share no state.                    *)
EXTENDS DiffEmit, Notifier, TLAPS

-----------------------------------------------------------------------------
(* The diff engine (DiffEmit). *)

----------------------------------------------------------------------------
(* A diff turns what it starts from into what it ends with.                 *)

\* What a set of changes leaves of its base, and what it puts into it.
Gone(changes)    == {x \in DOMAIN changes : changes[x].action = "removed"}
Entered(changes) == DOMAIN changes \ Gone(changes)

LEMMA ChangesAreExact ==
    ASSUME NEW previous, NEW current
    PROVE  /\ Gone(Changes(previous, current)) = DOMAIN previous \ DOMAIN current
           /\ Entered(Changes(previous, current)) =
                {y \in DOMAIN current : y \in DOMAIN previous => previous[y] # current[y]}
           /\ \A x \in Entered(Changes(previous, current)) :
                Changes(previous, current)[x] =
                  [action |-> IF x \in DOMAIN previous THEN "modified" ELSE "added",
                   value |-> current[x]]
<1> DEFINE changes == Changes(previous, current)
           differ  == {y \in DOMAIN previous \cup DOMAIN current :
                          (y \in DOMAIN previous /\ y \in DOMAIN current) =>
                              previous[y] # current[y]}
           entry(x) == IF x \notin DOMAIN previous
                       THEN [action |-> "added", value |-> current[x]]
                       ELSE IF x \notin DOMAIN current
                       THEN [action |-> "removed", value |-> previous[x]]
                       ELSE [action |-> "modified", value |-> current[x]]
<1>1. changes = [x \in differ |-> entry(x)]
  BY DEF Changes
<1> HIDE DEF changes
<1>2. DOMAIN changes = differ /\ \A x \in differ : changes[x] = entry(x)
  BY <1>1
<1>3. ASSUME NEW x \in differ
      PROVE  changes[x].action = "removed" <=> x \notin DOMAIN current
  <2>1. changes[x] = entry(x)
    BY <1>2
  <2>2. CASE x \notin DOMAIN previous
    BY <2>1, <2>2
  <2>3. CASE x \in DOMAIN previous /\ x \notin DOMAIN current
    BY <2>1, <2>3
  <2>4. CASE x \in DOMAIN previous /\ x \in DOMAIN current
    BY <2>1, <2>4
  <2>5. QED
    BY <2>2, <2>3, <2>4
<1>4. Gone(changes) = DOMAIN previous \ DOMAIN current
  BY <1>2, <1>3 DEF Gone
<1>5. Entered(changes) =
        {y \in DOMAIN current : y \in DOMAIN previous => previous[y] # current[y]}
  BY <1>2, <1>4 DEF Entered
<1>6. ASSUME NEW x \in Entered(changes)
      PROVE  changes[x] = [action |-> IF x \in DOMAIN previous THEN "modified"
                                      ELSE "added",
                           value |-> current[x]]
  <2>1. x \in differ /\ x \in DOMAIN current
    BY <1>5, <1>6
  <2>2. changes[x] = entry(x)
    BY <1>2, <2>1
  <2>3. CASE x \notin DOMAIN previous
    BY <2>2, <2>3
  <2>4. CASE x \in DOMAIN previous
    BY <2>1, <2>2, <2>4
  <2>5. QED
    BY <2>3, <2>4
<1>7. QED
  BY <1>4, <1>5, <1>6 DEF changes

\* Two values of one kind, and what the reader makes of their diff.
IsValue(value) ==
    /\ value = [kind |-> value.kind, of |-> value.of]
    /\ value.of = [x \in DOMAIN value.of |-> value.of[x]]

LEMMA ChangesPatch ==
    ASSUME NEW previous, NEW current, IsValue(previous), IsValue(current),
           previous.kind = current.kind,
           NEW diff, diff.type # "replaced",
           diff.changes = Changes(previous.of, current.of)
    PROVE  Patched(previous, diff) = current
<1> DEFINE changes == diff.changes
           old == previous.of
           new == current.of
           patched == [x \in (DOMAIN old \ Gone(changes)) \cup Entered(changes) |->
                         IF x \in Entered(changes) THEN changes[x].value ELSE old[x]]
<1>1. Patched(previous, diff) = [previous EXCEPT !.of = patched]
  BY DEF Patched, Gone, Entered
<1>2. /\ Gone(changes) = DOMAIN old \ DOMAIN new
      /\ Entered(changes) = {y \in DOMAIN new : y \in DOMAIN old => old[y] # new[y]}
      /\ \A x \in Entered(changes) : changes[x].value = new[x]
  <2>1. changes = Changes(old, new)
    OBVIOUS
  <2> HIDE DEF changes, old, new
  <2>2. ASSUME NEW x \in Entered(changes)
        PROVE  changes[x].value = new[x]
    <3>1. changes[x] = [action |-> IF x \in DOMAIN old THEN "modified" ELSE "added",
                        value |-> new[x]]
      BY <2>1, <2>2, ChangesAreExact
    <3>2. QED
      BY <3>1
  <2>3. QED
    BY <2>1, <2>2, ChangesAreExact
<1>3. (DOMAIN old \ Gone(changes)) \cup Entered(changes) = DOMAIN new
  BY <1>2
<1>4. patched = [x \in DOMAIN new |-> new[x]]
  <2>1. \A x \in DOMAIN new :
          (IF x \in Entered(changes) THEN changes[x].value ELSE old[x]) = new[x]
    BY <1>2
  <2>2. QED
    BY <1>3, <2>1
<1> HIDE DEF patched
<1>5. [previous EXCEPT !.of = patched] = [kind |-> previous.kind, of |-> patched]
  BY DEF IsValue
<1>6. QED
  BY <1>1, <1>4, <1>5 DEF IsValue

LEMMA NestedDiffPatches ==
    ASSUME NEW previous, NEW current, IsValue(previous), IsValue(current)
    PROVE  Patched(previous, ComputeNestedDiff(previous, current)) = current
<1> DEFINE diff == ComputeNestedDiff(previous, current)
<1>1. CASE previous.kind = "array" /\ current.kind = "array"
  <2>1. diff.type = "array" /\ diff.changes = Changes(previous.of, current.of)
    BY <1>1 DEF ComputeNestedDiff, ComputeArrayDiff
  <2>2. QED
    BY <1>1, <2>1, ChangesPatch
<1>2. CASE previous.kind = "object" /\ current.kind = "object"
  <2>1. diff.type = "object" /\ diff.changes = Changes(previous.of, current.of)
    BY <1>2 DEF ComputeNestedDiff, ComputeMapDiff
  <2>2. QED
    BY <1>2, <2>1, ChangesPatch
<1>3. CASE /\ ~(previous.kind = "array" /\ current.kind = "array")
           /\ ~(previous.kind = "object" /\ current.kind = "object")
  <2>1. diff.type = "replaced" /\ diff.current = current
    BY <1>3 DEF ComputeNestedDiff
  <2>2. QED
    BY <2>1 DEF Patched
<1>4. QED
  BY <1>1, <1>2, <1>3

----------------------------------------------------------------------------
(* What a reader has after a diff  , ignored fields aside.                *)

LEMMA HashedIs ==
    ASSUME NEW data
    PROVE  /\ DOMAIN Hashed(data) = DOMAIN data \ IgnoreFields
           /\ \A f \in DOMAIN data \ IgnoreFields : Hashed(data)[f] = data[f]
           /\ Hashed(data) = [f \in DOMAIN data \ IgnoreFields |-> data[f]]
BY DEF Hashed, Restriction

\* The base of the reader is the one the diff was computed from.
LEMMA AppliedIsExact ==
    ASSUME NEW previous \in Inputs, NEW current \in Inputs, NEW base,
           Hashed(base) = Hashed(previous)
    PROVE  Hashed(Applied(base, ComputeDetailedDiff(previous, current).diff))
             = Hashed(current)
<1> DEFINE old     == Hashed(previous)
           new     == Hashed(current)
           changes == Changes(old, new)
           diff    == [f \in DOMAIN changes |->
                         IF changes[f].action = "modified"
                         THEN [action |-> "modified",
                               diff |-> ComputeNestedDiff(previous[f], current[f])]
                         ELSE changes[f]]
           With(action) == {f \in DOMAIN diff : diff[f].action = action}
           value(f) == IF f \notin DOMAIN diff THEN base[f]
                       ELSE IF f \in With("added") THEN diff[f].value
                       ELSE Patched(base[f], diff[f].diff)
           applied == [f \in (DOMAIN base \cup With("added")) \ With("removed") |-> value(f)]
<1>1. ComputeDetailedDiff(previous, current).diff = diff
  BY DEF ComputeDetailedDiff
<1>2. Applied(base, diff) = applied
  BY DEF Applied
<1>3. /\ DOMAIN old = DOMAIN previous \ IgnoreFields
      /\ DOMAIN new = DOMAIN current \ IgnoreFields
      /\ DOMAIN base \ IgnoreFields = DOMAIN old
      /\ \A f \in DOMAIN old : old[f] = previous[f] /\ old[f] = base[f]
      /\ \A f \in DOMAIN new : new[f] = current[f]
  BY HashedIs
<1>4. /\ Gone(changes) = DOMAIN old \ DOMAIN new
      /\ Entered(changes) = {f \in DOMAIN new : f \in DOMAIN old => old[f] # new[f]}
      /\ \A f \in Entered(changes) :
           changes[f] = [action |-> IF f \in DOMAIN old THEN "modified" ELSE "added",
                         value |-> new[f]]
  BY ChangesAreExact
<1> HIDE DEF old, new, changes
<1>5. /\ DOMAIN diff = DOMAIN changes
      /\ DOMAIN changes = Gone(changes) \cup Entered(changes)
  BY DEF Gone, Entered
<1>6. ASSUME NEW f \in Gone(changes)
      PROVE  f \in DOMAIN diff /\ diff[f].action = "removed"
  BY <1>5, <1>6 DEF Gone
<1>7. ASSUME NEW f \in Entered(changes), f \notin DOMAIN old
      PROVE  f \in DOMAIN diff /\ diff[f].action = "added" /\ diff[f].value = new[f]
  <2>1. changes[f] = [action |-> "added", value |-> new[f]]
    BY <1>4, <1>7
  <2>2. f \in DOMAIN changes /\ changes[f].action = "added" /\ changes[f].value = new[f]
    BY <1>5, <1>7, <2>1
  <2>3. diff[f] = changes[f]
    BY <2>2
  <2>4. QED
    BY <2>2, <2>3
<1>8. ASSUME NEW f \in Entered(changes), f \in DOMAIN old
      PROVE  /\ f \in DOMAIN diff /\ diff[f].action = "modified"
             /\ diff[f].diff = ComputeNestedDiff(previous[f], current[f])
  <2>1. changes[f] = [action |-> "modified", value |-> new[f]]
    BY <1>4, <1>8
  <2>2. f \in DOMAIN changes /\ changes[f].action = "modified"
    BY <1>5, <1>8, <2>1
  <2>3. diff[f] = [action |-> "modified",
                   diff |-> ComputeNestedDiff(previous[f], current[f])]
    BY <2>2
  <2>4. QED
    BY <2>2, <2>3
<1> HIDE DEF diff
<1>9. With("removed") = Gone(changes)
  BY <1>5, <1>6, <1>7, <1>8
<1>10. With("added") = Entered(changes) \ DOMAIN old
  BY <1>5, <1>6, <1>7, <1>8
<1> HIDE DEF With
<1>11. DOMAIN applied \ IgnoreFields = DOMAIN new
  <2>1. DOMAIN applied = (DOMAIN base \cup With("added")) \ With("removed")
    OBVIOUS
  <2>2. QED
    BY <2>1, <1>3, <1>4, <1>9, <1>10
<1>12. ASSUME NEW f \in DOMAIN new
       PROVE  applied[f] = new[f]
  <2>1. f \in (DOMAIN base \cup With("added")) \ With("removed")
    BY <1>3, <1>4, <1>9, <1>10
  <2>2. applied[f] = value(f)
    BY <2>1
  <2>3. CASE f \notin Entered(changes)
    <3>1. f \in DOMAIN old /\ old[f] = new[f] /\ f \notin DOMAIN diff
      BY <1>4, <1>5, <2>3
    <3>2. QED
      BY <1>3, <2>2, <3>1
  <2>4. CASE f \in Entered(changes) /\ f \notin DOMAIN old
    BY <1>7, <1>10, <2>2, <2>4
  <2>5. CASE f \in Entered(changes) /\ f \in DOMAIN old
    <3>1. f \in DOMAIN previous /\ f \in DOMAIN current
      BY <1>3, <2>5
    <3>2. IsValue(previous[f]) /\ IsValue(current[f])
      BY <3>1, InputsAssumption DEF IsValue
    <3>3. applied[f] = Patched(base[f], ComputeNestedDiff(previous[f], current[f]))
      BY <1>8, <1>10, <2>2, <2>5
    <3>4. base[f] = previous[f] /\ new[f] = current[f]
      BY <1>3, <2>5
    <3>5. QED
      BY <3>2, <3>3, <3>4, NestedDiffPatches
  <2>6. QED
    BY <2>3, <2>4, <2>5
<1> HIDE DEF applied
<1>13. Hashed(applied) = [f \in DOMAIN new |-> applied[f]]
  BY <1>11, HashedIs
<1>14. new = [f \in DOMAIN new |-> new[f]]
  <2>1. new = [f \in DOMAIN current \ IgnoreFields |-> current[f]]
    BY HashedIs DEF new
  <2>2. QED
    BY <2>1
<1>15. [f \in DOMAIN new |-> applied[f]] = [f \in DOMAIN new |-> new[f]]
  BY <1>12
<1>16. Hashed(applied) = new
  BY <1>13, <1>14, <1>15
<1>17. QED
  BY <1>1, <1>2, <1>16 DEF new

----------------------------------------------------------------------------
(* The invariant.  A reader is never ahead of the engine, so a state that   *)
(* was stored and not sent leaves it behind until a clean-up: its version   *)
(* is never that of a diff again.                                           *)

NotAhead ==
    \A k \in DOMAIN stateStore : reader[k].version <= stateStore[k].version

ReaderTypes ==
    \A k \in StateKeys :
        reader[k] = [data |-> reader[k].data, version |-> reader[k].version]

SyncInv == DiffTypeOK /\ ReaderTypes /\ NotAhead /\ ReaderInSync

LEMMA InitSync == DiffInit => SyncInv
<1> SUFFICES ASSUME DiffInit PROVE SyncInv
  OBVIOUS
<1>1. /\ DOMAIN stateStore = {} /\ stored = 0 /\ engineDied = FALSE
      /\ DOMAIN reader = StateKeys /\ misled = {}
      /\ \A k \in StateKeys : reader[k] = [data |-> <<>>, version |-> 0]
  BY DEF DiffInit
<1>2. \A k \in StateKeys : reader[k].version = 0
  BY <1>1
<1>3. DiffTypeOK
  <2>1. stored \in 0..MaxStored /\ \A k \in StateKeys : reader[k].version \in 0..stored
    BY <1>1, <1>2, DiffAssumption
  <2>2. \A k \in DOMAIN stateStore : FALSE
    BY <1>1
  <2>3. misled \subseteq StateKeys /\ engineDied \in BOOLEAN
    BY <1>1
  <2>4. QED
    BY <1>1, <2>1, <2>2, <2>3, Zenon DEF DiffTypeOK
<1>4. ReaderTypes
  <2>1. ASSUME NEW k \in StateKeys
        PROVE  reader[k] = [data |-> reader[k].data, version |-> reader[k].version]
    BY <1>1
  <2>2. QED
    BY <2>1 DEF ReaderTypes
<1>5. QED
  BY <1>1, <1>3, <1>4 DEF SyncInv, NotAhead, ReaderInSync

\* A state that is stored, and the version it gets.
LEMMA SnapshotType ==
    ASSUME DiffTypeOK, NEW k \in StateKeys, NEW data \in Inputs
    PROVE  /\ Snapshot(k, data).data = data
           /\ Snapshot(k, data).hash = Hashed(data)
           /\ Snapshot(k, data).timestamp = stored + 1
           /\ k \notin DOMAIN stateStore => Snapshot(k, data).version = 1
           /\ k \in DOMAIN stateStore =>
                /\ Snapshot(k, data).version = stateStore[k].version + 1
                /\ stateStore[k].version \in Nat \ {0} /\ stateStore[k].version <= stored
                /\ stateStore[k].data \in Inputs
           /\ Snapshot(k, data).version \in 1..(stored + 1)
           /\ stored \in Nat
<1> DEFINE hash == Hashed(data)
<1> HIDE DEF hash
<1>1. stored \in Nat
  BY DiffAssumption DEF DiffTypeOK
<1>2. CASE k \in DOMAIN stateStore
  <2>1. /\ stateStore[k].data \in Inputs
        /\ stateStore[k].version \in 1..stored
    BY <1>2 DEF DiffTypeOK
  <2>2. stateStore[k].version \in Nat \ {0} /\ stateStore[k].version <= stored
    BY <1>1, <2>1
  <2>3. Snapshot(k, data) = [data |-> data, hash |-> hash,
                             version |-> stateStore[k].version + 1,
                             timestamp |-> stored + 1]
    BY <1>2 DEF Snapshot, hash
  <2>4. QED
    BY <1>1, <1>2, <2>1, <2>2, <2>3 DEF hash
<1>3. CASE k \notin DOMAIN stateStore
  <2>1. Snapshot(k, data) = [data |-> data, hash |-> hash, version |-> 1,
                             timestamp |-> stored + 1]
    BY <1>3 DEF Snapshot, hash
  <2>2. QED
    BY <1>1, <1>3, <2>1 DEF hash
<1>4. QED
  BY <1>2, <1>3

\* What a reader has of a key when data are stored, whether or not they are
\* emitted; unless the diff compared a map that had been changed, or the
\* reader was misled before, it has what was stored if it has the version.
LEMMA ReadingSyncs ==
    ASSUME SyncInv, NEW k \in StateKeys, NEW data \in Inputs,
           NEW r, r \in {reader[k], Reads(k, Result(k, data))},
           k \notin DOMAIN stateStore => r = Reads(k, Result(k, data))
    PROVE  LET s == Snapshot(k, data)
           IN  /\ r = [data |-> r.data, version |-> r.version]
               /\ r.version \in 0..(stored + 1)
               /\ r.version <= s.version
               /\ \/ /\ k \in DOMAIN stateStore
                     /\ k \in misled \/ Changed(k)
                     /\ r = Reads(k, Result(k, data))
                  \/ r.version = s.version => Hashed(r.data) = Hashed(data)
<1> DEFINE s == Snapshot(k, data)
           own == reader[k]
           message == Result(k, data)
<1>1. /\ own = [data |-> own.data, version |-> own.version]
      /\ own.version \in 0..stored /\ stored \in Nat
  BY SnapshotType DEF SyncInv, ReaderTypes, DiffTypeOK
<1>2. s.version \in 1..(stored + 1)
  BY SnapshotType DEF SyncInv
<1>3. CASE k \in DOMAIN stateStore
  <2> DEFINE old == stateStore[k]
  <2>1. /\ s.version = old.version + 1 /\ old.data \in Inputs
        /\ old.version \in Nat \ {0}
    BY <1>3, SnapshotType DEF SyncInv
  <2>2. /\ message.previous = old.version /\ message.version = s.version
        /\ message.diff = ComputeDetailedDiff(old.data, data).diff
    BY <1>3 DEF Result
  <2>3. /\ own.version <= old.version
        /\ k \notin misled /\ ~Changed(k) /\ own.version = old.version =>
             Hashed(own.data) = Hashed(old.data)
    BY <1>3 DEF SyncInv, NotAhead, ReaderInSync, Changed
  <2> HIDE DEF s, message, own, old
  <2>4. CASE r = own
    BY <1>1, <2>1, <2>3, <2>4 DEF s
  <2>5. CASE r = Reads(k, message) /\ r # own
    <3>1. /\ message.previous = own.version
          /\ r = [data |-> Applied(own.data, message.diff), version |-> message.version]
      BY <2>1, <2>2, <2>5 DEF Reads, own
    <3>2. k \notin misled /\ ~Changed(k) =>
            Hashed(Applied(own.data, message.diff)) = Hashed(data)
      BY <2>1, <2>2, <2>3, <3>1, AppliedIsExact
    <3>3. QED
      BY <1>1, <1>2, <1>3, <2>2, <2>5, <3>1, <3>2 DEF s, message
  <2>6. QED
    BY <2>4, <2>5 DEF own, message, s
<1>4. CASE k \notin DOMAIN stateStore
  <2>1. message.previous = 0 /\ message.version = s.version /\ message.diff = data
    BY <1>4 DEF Result
  <2>2. Reads(k, message) = [data |-> data, version |-> s.version]
    BY <2>1 DEF Reads
  <2> HIDE DEF s, message, own
  <2>3. QED
    BY <1>1, <1>2, <1>4, <2>2 DEF s, message
<1>5. QED
  BY <1>3, <1>4

StoreTypes ==
    \A k \in DOMAIN stateStore :
        stateStore[k] \in [data : Inputs, hash : {Hashed(d) : d \in Inputs},
                           version : 1..stored, timestamp : 1..stored]

\* A step that stores nothing and forgets some states.
LEMMA ForgettingSyncs ==
    ASSUME SyncInv, UNCHANGED <<stored, reader, misled>>, engineDied' \in BOOLEAN,
           DOMAIN stateStore' \subseteq DOMAIN stateStore,
           \A k \in DOMAIN stateStore' :
              /\ stateStore'[k] \in [data : Inputs, hash : {Hashed(d) : d \in Inputs},
                                      version : 1..stored, timestamp : 1..stored]
              /\ stateStore'[k].hash = stateStore[k].hash
              /\ stateStore'[k].version = stateStore[k].version
              /\ stateStore'[k].timestamp = stateStore[k].timestamp
    PROVE  SyncInv'
<1>1. DiffTypeOK'
  <2>1. ASSUME NEW k \in DOMAIN stateStore'
        PROVE  /\ stateStore'[k] \in [data : Inputs, hash : {Hashed(d) : d \in Inputs},
                                       version : 1..stored, timestamp : 1..stored]
               /\ stateStore'[k].version <= stateStore'[k].timestamp
    BY <2>1 DEF SyncInv, DiffTypeOK
  <2>2. QED
    BY <2>1 DEF SyncInv, DiffTypeOK, Hashed, Restriction
<1>2. ReaderTypes' /\ NotAhead'
  BY DEF SyncInv, ReaderTypes, NotAhead
<1>3. ReaderInSync'
  BY DEF SyncInv, ReaderInSync, Hashed, Restriction
<1>4. QED
  BY <1>1, <1>2, <1>3 DEF SyncInv

LEMMA ComputeDiffSyncs ==
    ASSUME SyncInv, NEW k \in StateKeys, NEW data \in Inputs, ComputeDiff(k, data)
    PROVE  SyncInv'
<1> DEFINE s == Snapshot(k, data)
           message == Result(k, data)
           known == k \in DOMAIN stateStore
<1>1. /\ stored' = stored + 1 /\ stored < MaxStored /\ engineDied' = engineDied
      /\ stateStore' = [j \in DOMAIN stateStore \cup {k} |->
                          IF j = k THEN s ELSE stateStore[j]]
  BY DEF ComputeDiff
<1>2. /\ DOMAIN stateStore' = DOMAIN stateStore \cup {k}
      /\ stateStore'[k] = s
      /\ \A j \in DOMAIN stateStore \ {k} : stateStore'[j] = stateStore[j]
  BY <1>1
<1>3. \/ /\ reader' = [reader EXCEPT ![k] = Reads(k, message)]
         /\ misled' = IF ~known THEN misled \ {k}
                      ELSE IF Changed(k) THEN misled \cup {k} ELSE misled
      \/ known /\ reader' = reader /\ misled' = misled
  <2>1. ~known => message.percent >= DiffThreshold /\ ~(message.percent < DiffThreshold)
    <3> SUFFICES ASSUME ~known
                 PROVE  message.percent >= DiffThreshold /\ ~(message.percent < DiffThreshold)
      OBVIOUS
    <3>1. message.percent = 100
      BY DEF Result
    <3>2. QED
      BY <3>1, DiffAssumption
  <2>2. QED
    BY <2>1 DEF ComputeDiff
<1>4. DOMAIN reader = StateKeys /\ misled \subseteq StateKeys
  BY DEF SyncInv, DiffTypeOK
<1>5. /\ DOMAIN reader' = StateKeys /\ misled' \subseteq StateKeys
      /\ reader'[k] \in {reader[k], Reads(k, message)}
      /\ ~known => reader'[k] = Reads(k, message)
      /\ \A j \in StateKeys \ {k} : reader'[j] = reader[j] /\ (j \in misled' <=> j \in misled)
  BY <1>3, <1>4
<1>6. /\ s.data = data /\ s.hash = Hashed(data) /\ s.timestamp = stored + 1
      /\ s.version \in 1..(stored + 1) /\ stored \in Nat
  BY SnapshotType DEF SyncInv
<1>6a. s = [data |-> s.data, hash |-> s.hash, version |-> s.version,
            timestamp |-> s.timestamp]
  BY DEF Snapshot
<1>7. /\ reader'[k] = [data |-> reader'[k].data, version |-> reader'[k].version]
      /\ reader'[k].version \in 0..(stored + 1)
      /\ reader'[k].version <= s.version
      /\ k \notin misled' /\ reader'[k].version = s.version =>
           Hashed(reader'[k].data) = Hashed(data)
  <2> DEFINE r == reader'[k]
  <2>1. /\ r \in {reader[k], Reads(k, message)}
        /\ ~known => r = Reads(k, message)
    BY <1>5
  <2> HIDE DEF r
  <2>2. /\ r = [data |-> r.data, version |-> r.version]
        /\ r.version \in 0..(stored + 1)
        /\ r.version <= s.version
        /\ \/ /\ known
              /\ k \in misled \/ Changed(k)
              /\ r = Reads(k, message)
           \/ r.version = s.version => Hashed(r.data) = Hashed(data)
    BY <2>1, ReadingSyncs
  <2>3. CASE r.version = s.version => Hashed(r.data) = Hashed(data)
    BY <2>2, <2>3 DEF r
  <2>4. CASE /\ known
             /\ k \in misled \/ Changed(k)
             /\ r = Reads(k, message)
             /\ r.version = s.version
    <3>1. CASE reader' = [reader EXCEPT ![k] = Reads(k, message)]
               /\ misled' = IF ~known THEN misled \ {k}
                            ELSE IF Changed(k) THEN misled \cup {k} ELSE misled
      <4>1. k \in misled'
        BY <2>4, <3>1
      <4>2. QED
        BY <2>2, <4>1 DEF r
    <3>2. CASE known /\ reader' = reader /\ misled' = misled
      <4>1. r = reader[k]
        BY <3>2 DEF r
      <4>2. reader[k].version <= stateStore[k].version
            /\ s.version = stateStore[k].version + 1
            /\ stateStore[k].version \in Nat /\ reader[k].version \in Nat
        BY <2>4, SnapshotType DEF SyncInv, NotAhead, DiffTypeOK
      <4>3. FALSE
        BY <2>4, <4>1, <4>2
      <4>4. QED
        BY <4>3
    <3>3. QED
      BY <1>3, <3>1, <3>2
  <2>5. QED
    BY <2>2, <2>3, <2>4
<1> HIDE DEF s, message, known
<1>8. DiffTypeOK'
  <2>1. stored' \in 0..MaxStored /\ engineDied' \in BOOLEAN
    BY <1>1, <1>6, DiffAssumption DEF SyncInv, DiffTypeOK
  <2>2. DOMAIN stateStore' \subseteq StateKeys
    BY <1>2 DEF SyncInv, DiffTypeOK
  <2>3. ASSUME NEW j \in DOMAIN stateStore'
        PROVE  /\ stateStore'[j] \in [data : Inputs, hash : {Hashed(d) : d \in Inputs},
                                       version : 1..stored', timestamp : 1..stored']
               /\ stateStore'[j].version <= stateStore'[j].timestamp
    <3>1. CASE j = k
      <4>1. s \in [data : Inputs, hash : {Hashed(d) : d \in Inputs},
                   version : 1..(stored + 1), timestamp : 1..(stored + 1)]
        BY <1>6, <1>6a
      <4>2. QED
        BY <1>1, <1>2, <1>6, <3>1, <4>1
    <3>2. CASE j # k
      <4>1. j \in DOMAIN stateStore /\ stateStore'[j] = stateStore[j]
        BY <1>2, <2>3, <3>2
      <4>2. /\ stateStore[j] \in [data : Inputs, hash : {Hashed(d) : d \in Inputs},
                                   version : 1..stored, timestamp : 1..stored]
            /\ stateStore[j].version <= stateStore[j].timestamp
        BY <4>1 DEF SyncInv, DiffTypeOK
      <4>3. QED
        BY <1>1, <1>6, <4>1, <4>2
    <3>3. QED
      BY <3>1, <3>2
  <2>4. ASSUME NEW j \in StateKeys PROVE reader'[j].version \in 0..stored'
    <3>1. j # k => reader[j].version \in 0..stored /\ reader'[j] = reader[j]
      BY <1>5 DEF SyncInv, DiffTypeOK
    <3>2. QED
      BY <1>1, <1>6, <1>7, <3>1
  <2>5. QED
    BY <1>5, <2>1, <2>2, <2>3, <2>4 DEF DiffTypeOK, Hashed, Restriction
<1>9. ReaderTypes'
  <2>1. ASSUME NEW j \in StateKeys
        PROVE  reader'[j] = [data |-> reader'[j].data, version |-> reader'[j].version]
    <3>1. CASE j = k
      BY <1>7, <3>1
    <3>2. CASE j # k
      <4>1. reader'[j] = reader[j]
        BY <1>5, <3>2
      <4>2. reader[j] = [data |-> reader[j].data, version |-> reader[j].version]
        BY DEF SyncInv, ReaderTypes
      <4>3. QED
        BY <4>1, <4>2, Zenon
    <3>3. QED
      BY <3>1, <3>2
  <2>2. QED
    BY <2>1 DEF ReaderTypes
<1>10. ASSUME NEW j \in DOMAIN stateStore'
       PROVE  /\ reader'[j].version <= stateStore'[j].version
              /\ j \notin misled' /\ reader'[j].version = stateStore'[j].version =>
                   Hashed(reader'[j].data) = stateStore'[j].hash
  <2>1. CASE j = k
    BY <1>2, <1>6, <1>7, <2>1
  <2>2. CASE j # k
    <3>1. /\ j \in DOMAIN stateStore /\ stateStore'[j] = stateStore[j]
          /\ reader'[j] = reader[j] /\ (j \in misled' <=> j \in misled)
      BY <1>2, <1>5, <1>10, <2>2 DEF SyncInv, DiffTypeOK
    <3>2. QED
      BY <3>1 DEF SyncInv, NotAhead, ReaderInSync
  <2>3. QED
    BY <2>1, <2>2
<1>11. NotAhead' /\ ReaderInSync'
  <2>1. NotAhead'
    BY <1>10 DEF NotAhead
  <2>2. ReaderInSync'
    BY <1>10 DEF ReaderInSync, Hashed, Restriction
  <2>3. QED
    BY <2>1, <2>2
<1>12. QED
  BY <1>8, <1>9, <1>11 DEF SyncInv

LEMMA NextSync == SyncInv /\ [DiffNext]_diffVars => SyncInv'
<1> SUFFICES ASSUME SyncInv, [DiffNext]_diffVars PROVE SyncInv'
  OBVIOUS
<1>1. ASSUME NEW k \in StateKeys, NEW data \in Inputs, ComputeDiff(k, data)
      PROVE  SyncInv'
  BY <1>1, ComputeDiffSyncs
<1>2. ASSUME UNCHANGED diffVars PROVE SyncInv'
  <2>1. engineDied \in BOOLEAN
    BY DEF SyncInv, DiffTypeOK
  <2>2. StoreTypes
    BY DEF SyncInv, DiffTypeOK, StoreTypes
  <2>3. QED
    BY <1>2, <2>1, <2>2, ForgettingSyncs DEF StoreTypes, diffVars
<1>3. CASE PerformCleanup
  <2>1. /\ DOMAIN stateStore' = DOMAIN stateStore \cap Kept
        /\ \A k \in DOMAIN stateStore' : stateStore'[k] = stateStore[k]
    BY <1>3 DEF PerformCleanup, Restriction
  <2>2. engineDied' \in BOOLEAN /\ StoreTypes
    BY <1>3 DEF PerformCleanup, SyncInv, DiffTypeOK, StoreTypes
  <2>3. QED
    BY <1>3, <2>1, <2>2, ForgettingSyncs DEF StoreTypes, PerformCleanup
<1>4. CASE Reset
  <2>1. DOMAIN stateStore' = {} /\ engineDied' \in BOOLEAN
    BY <1>4 DEF Reset
  <2>2. QED
    BY <1>4, <2>1, ForgettingSyncs DEF StoreTypes, Reset
<1>5. ASSUME NEW k \in StateKeys, NEW data \in Inputs, CallerChanges(k, data)
      PROVE  SyncInv'
  <2>1. engineDied' \in BOOLEAN /\ StoreTypes
    BY <1>5 DEF CallerChanges, SyncInv, DiffTypeOK, StoreTypes
  <2>2. /\ DOMAIN stateStore' = DOMAIN stateStore
        /\ stateStore'[k] = [stateStore[k] EXCEPT !.data = data]
        /\ \A j \in DOMAIN stateStore \ {k} : stateStore'[j] = stateStore[j]
    BY <1>5 DEF CallerChanges
  <2>3. stateStore[k] \in [data : Inputs, hash : {Hashed(d) : d \in Inputs},
                           version : 1..stored, timestamp : 1..stored]
    BY <1>5 DEF CallerChanges, SyncInv, DiffTypeOK
  <2>4. QED
    BY <1>5, <2>1, <2>2, <2>3, ForgettingSyncs DEF StoreTypes, CallerChanges
<1>6. QED
  BY <1>1, <1>2, <1>3, <1>4, <1>5 DEF DiffNext, SkipUnchanged

\* Every variable of the engine and its reader keeps its type; a version
\* counts no more than the snapshots stored so far (ComputeDiff).
THEOREM DiffTypes == DiffSpec => []DiffTypeOK
<1>1. SyncInv => DiffTypeOK
  BY DEF SyncInv
<1>2. QED
  BY <1>1, InitSync, NextSync, PTL DEF DiffSpec

\* A reader of every result with changes that has the version of the stored
\* state has its data, whatever was too small to be sent and whatever was
\* cleaned up, and whatever maps callers changed, unless the last result
\* compared one of those (ComputeDiff, computeDetailedDiff,
\* computeNestedDiff).
THEOREM ReaderStaysInSync == DiffSpec => []ReaderInSync
<1>1. SyncInv => ReaderInSync
  BY DEF SyncInv
<1>2. QED
  BY <1>1, InitSync, NextSync, PTL DEF DiffSpec

-----------------------------------------------------------------------------
(* The notifier (Notifier). *)

----------------------------------------------------------------------------
(* Types. *)

Messages ==
    [sender : Broadcasters, number : Nat, type : MessageTypes, room : RoomNames]

Calls ==
    [at : {"ns", "namespace", "room"}, client : Clients \cup Strangers,
     room : RoomNames, types : SUBSET FilterTypes]

Fresh == [at : {"idle"}, sent : Nat]
Used  ==
    [at : {"idle", "ns", "namespace", "room", "copying", "sending", "full", "blocked"},
     sent : Nat, room : RoomNames, type : MessageTypes,
     left : SUBSET Clients, client : SUBSET Clients]

\* Who is about to enter a room has a room to enter, and so has who sends.
TypeInv ==
    /\ DOMAIN rooms \subseteq RoomNames
    /\ \A r \in DOMAIN rooms : rooms[r] \subseteq Clients
    /\ filters \in [Clients -> SUBSET FilterTypes]
    /\ buffers \in [Clients -> Seq(Messages)]
    /\ \A c \in Clients : Len(buffers[c]) <= BufferSize
    /\ joiner \in [Joiners -> {Idle} \cup Calls]
    /\ \A j \in Joiners : joiner[j].at = "room" =>
         joiner[j].client \in Clients /\ joiner[j].room \in DOMAIN rooms
    /\ broadcaster \in [Broadcasters -> Fresh \cup Used]
    /\ \A b \in Broadcasters :
         broadcaster[b].at \in {"room", "copying", "sending", "full", "blocked"} =>
             broadcaster[b].room \in DOMAIN rooms
    /\ watcher \in [Watchers -> {"idle", "namespace"}]

\* The places of a thread in BroadcastToNamespaceRoom.
LEMMA BroadcasterTypes ==
    ASSUME TypeInv, NEW b \in Broadcasters
    PROVE  /\ broadcaster[b].sent \in Nat
           /\ broadcaster[b].at # "idle" => broadcaster[b] \in Used
           /\ broadcaster[b].at \in {"idle", "ns", "namespace", "room", "copying",
                                     "sending", "full", "blocked"}
<1>1. broadcaster[b] \in Fresh \cup Used
  BY DEF TypeInv
<1>2. QED
  BY <1>1 DEF Fresh, Used

LEMMA JoinerTypes ==
    ASSUME TypeInv, NEW j \in Joiners
    PROVE  /\ joiner[j].at # "idle" => joiner[j] \in Calls
           /\ joiner[j].at \in {"idle", "ns", "namespace", "room"}
<1>1. joiner[j] \in {Idle} \cup Calls
  BY DEF TypeInv
<1>2. QED
  BY <1>1 DEF Idle, Calls

\* A step of a broadcast changes its own record only; nobody loses a room.
LEMMA BroadcastKeepsType ==
    ASSUME TypeInv, NEW b \in Broadcasters, NEW new \in Used,
           broadcaster' = [broadcaster EXCEPT ![b] = new],
           new.at \in {"room", "copying", "sending", "full", "blocked"} =>
               new.room \in DOMAIN rooms,
           buffers' \in [Clients -> Seq(Messages)],
           \A c \in Clients : Len(buffers'[c]) <= BufferSize,
           UNCHANGED <<rooms, filters, joiner, watcher>>
    PROVE  TypeInv'
<1>1. broadcaster' \in [Broadcasters -> Fresh \cup Used]
  BY DEF TypeInv
<1>2. ASSUME NEW d \in Broadcasters,
             broadcaster'[d].at \in {"room", "copying", "sending", "full", "blocked"}
      PROVE  broadcaster'[d].room \in DOMAIN rooms
  BY <1>2 DEF TypeInv
<1>3. QED
  BY <1>1, <1>2 DEF TypeInv

\* What putting a message into a buffer with room, or taking one out, does.
LEMMA PutType ==
    ASSUME TypeInv, NEW b \in Broadcasters, broadcaster[b].at # "idle",
           NEW c \in Clients, HasRoom(c), Put(b, c)
    PROVE  /\ buffers' \in [Clients -> Seq(Messages)]
           /\ \A d \in Clients : Len(buffers'[d]) <= BufferSize
<1>1. Message(b) \in Messages
  BY BroadcasterTypes DEF Message, Messages, Used
<1>2. buffers[c] \in Seq(Messages)
  BY DEF TypeInv
<1>3. /\ Append(buffers[c], Message(b)) \in Seq(Messages)
      /\ Len(Append(buffers[c], Message(b))) = Len(buffers[c]) + 1
  BY <1>1, <1>2
<1>4. Len(buffers[c]) + 1 <= BufferSize
  BY <1>2, NotifierAssumption DEF HasRoom
<1>5. QED
  BY <1>3, <1>4 DEF Put, TypeInv

LEMMA TakeType ==
    ASSUME TypeInv, NEW c \in Clients, buffers[c] # <<>>,
           buffers' = [buffers EXCEPT ![c] = Tail(buffers[c])]
    PROVE  /\ buffers' \in [Clients -> Seq(Messages)]
           /\ \A d \in Clients : Len(buffers'[d]) <= BufferSize
<1>1. buffers[c] \in Seq(Messages) /\ Len(buffers[c]) <= BufferSize
  BY DEF TypeInv
<1>2. Tail(buffers[c]) \in Seq(Messages) /\ Len(Tail(buffers[c])) <= BufferSize
  BY <1>1, NotifierAssumption
<1>3. QED
  BY <1>2 DEF TypeInv

LEMMA InitTypeInv == NotifierInit => TypeInv
BY NotifierAssumption DEF NotifierInit, TypeInv, Idle, Fresh
\* The record a step of a broadcast leaves behind.
LEMMA BroadcastStepUsed ==
    ASSUME TypeInv, NEW b \in Broadcasters, broadcaster[b].at # "idle",
           NEW at \in {"idle", "ns", "namespace", "room", "copying", "sending",
                       "full", "blocked"},
           NEW left \in SUBSET Clients, NEW client \in SUBSET Clients
    PROVE  LET new == [broadcaster[b] EXCEPT !.at = at, !.left = left, !.client = client]
           IN  /\ new \in Used /\ new.at = at /\ new.left = left /\ new.client = client
               /\ new.room = broadcaster[b].room /\ new.sent = broadcaster[b].sent
BY BroadcasterTypes DEF Used

\* A thread goes from one lock to the next.
LEMMA GoesType ==
    ASSUME TypeInv, NEW b \in Broadcasters, broadcaster[b].at # "idle",
           NEW place \in {"idle", "namespace", "room", "copying", "blocked"},
           Goes(b, place),
           place \in {"room", "copying", "blocked"} => broadcaster[b].room \in DOMAIN rooms,
           buffers' \in [Clients -> Seq(Messages)],
           \A c \in Clients : Len(buffers'[c]) <= BufferSize,
           UNCHANGED <<rooms, filters, joiner, watcher>>
    PROVE  TypeInv'
<1> DEFINE new == [broadcaster[b] EXCEPT !.at = place]
<1>1. new \in Used /\ new.at = place /\ new.room = broadcaster[b].room
  BY BroadcasterTypes DEF Used
<1>2. broadcaster' = [broadcaster EXCEPT ![b] = new]
  BY DEF Goes
<1> HIDE DEF new
<1>3. QED
  BY <1>1, <1>2, BroadcastKeepsType

LEMMA DoneWithType ==
    ASSUME TypeInv, NEW b \in Broadcasters, NEW c \in Clients, DoneWith(b, c),
           broadcaster[b].at \in {"sending", "full", "blocked"},
           buffers' \in [Clients -> Seq(Messages)],
           \A d \in Clients : Len(buffers'[d]) <= BufferSize,
           UNCHANGED <<rooms, filters, joiner, watcher>>
    PROVE  TypeInv'
<1> DEFINE new == [broadcaster[b] EXCEPT !.at = "sending", !.left = broadcaster[b].left \ {c},
                                         !.client = {}]
<1>1. broadcaster[b] \in Used
  BY BroadcasterTypes
<1>2. new \in Used /\ new.room = broadcaster[b].room
  BY <1>1 DEF Used
<1>3. broadcaster' = [broadcaster EXCEPT ![b] = new]
  BY DEF DoneWith
<1>4. broadcaster[b].room \in DOMAIN rooms
  BY DEF TypeInv
<1> HIDE DEF new
<1>5. QED
  BY <1>2, <1>3, <1>4, BroadcastKeepsType

LEMMA JoinKeepsType ==
    ASSUME TypeInv, NEW j \in Joiners, JoinStep(j)
    PROVE  TypeInv'
<1>1. joiner \in [Joiners -> {Idle} \cup Calls]
  BY DEF TypeInv
<1>2. CASE LockNs(j)
  <2>1. /\ joiner' = [joiner EXCEPT ![j].at = "namespace"]
        /\ joiner[j].at = "ns"
        /\ UNCHANGED <<rooms, filters, buffers, broadcaster, watcher>>
    BY <1>2 DEF LockNs
  <2>2. joiner[j] \in Calls
    BY <2>1, JoinerTypes
  <2>3. /\ [joiner[j] EXCEPT !.at = "namespace"] \in Calls
        /\ [joiner[j] EXCEPT !.at = "namespace"].at = "namespace"
    BY <2>2 DEF Calls
  <2>4. joiner' \in [Joiners -> {Idle} \cup Calls]
    BY <1>1, <2>1, <2>3
  <2>5. \A k \in Joiners : joiner'[k].at = "room" =>
          joiner'[k].client \in Clients /\ joiner'[k].room \in DOMAIN rooms'
    BY <1>1, <2>1, <2>3 DEF TypeInv
  <2>6. QED
    BY <2>1, <2>4, <2>5 DEF TypeInv
<1>3. CASE LockNamespace(j)
  <2>1. /\ joiner[j].at = "namespace"
        /\ UNCHANGED <<filters, buffers, broadcaster, watcher>>
    BY <1>3 DEF LockNamespace
  <2>2. joiner[j] \in Calls
    BY <2>1, JoinerTypes
  <2>3. CASE Refused(j)
    <3>1. joiner' = [joiner EXCEPT ![j] = Idle] /\ rooms' = rooms
      BY <1>3, <2>3 DEF LockNamespace
    <3>2. QED
      BY <2>1, <3>1 DEF TypeInv, Idle
  <2>4. CASE ~Refused(j)
    <3>1. /\ joiner' = [joiner EXCEPT ![j].at = "room"]
          /\ rooms' = [r \in DOMAIN rooms \cup {joiner[j].room} |->
                         IF r \in DOMAIN rooms THEN rooms[r] ELSE {}]
      BY <1>3, <2>4 DEF LockNamespace, CreateEnhancedRoom
    <3>2. joiner[j].client \in Clients
      BY <2>4 DEF Refused
    <3>3. /\ [joiner[j] EXCEPT !.at = "room"] \in Calls
          /\ [joiner[j] EXCEPT !.at = "room"].client = joiner[j].client
          /\ [joiner[j] EXCEPT !.at = "room"].room = joiner[j].room
      BY <2>2 DEF Calls
    <3>4. joiner' \in [Joiners -> {Idle} \cup Calls]
      BY <1>1, <3>1, <3>3
    <3>5. DOMAIN rooms' = DOMAIN rooms \cup {joiner[j].room}
      BY <3>1
    <3>6. \A k \in Joiners : joiner'[k].at = "room" =>
            joiner'[k].client \in Clients /\ joiner'[k].room \in DOMAIN rooms'
      BY <1>1, <3>1, <3>2, <3>3, <3>5 DEF TypeInv
    <3>7. joiner[j].room \in RoomNames
      BY <2>2 DEF Calls
    <3>8. \A r \in DOMAIN rooms' : rooms'[r] \subseteq Clients
      BY <3>1 DEF TypeInv
    <3>9. QED
      BY <2>1, <3>4, <3>5, <3>6, <3>7, <3>8 DEF TypeInv
  <2>5. QED
    BY <2>3, <2>4
<1>4. CASE Enter(j)
  <2> DEFINE c == joiner[j].client
             r == joiner[j].room
  <2>1. /\ joiner[j].at = "room"
        /\ joiner' = [joiner EXCEPT ![j] = Idle]
        /\ UNCHANGED <<buffers, broadcaster, watcher>>
    BY <1>4 DEF Enter
  <2>2. joiner[j] \in Calls /\ c \in Clients /\ r \in DOMAIN rooms
    BY <2>1, JoinerTypes DEF TypeInv
  <2>3. \/ UNCHANGED <<rooms, filters>>
        \/ /\ rooms' = [rooms EXCEPT ![r] = rooms[r] \cup {c}]
           /\ filters' = [filters EXCEPT ![c] = filters[c] \cup joiner[j].types]
    BY <1>4 DEF Enter
  <2>4. /\ DOMAIN rooms' = DOMAIN rooms
        /\ \A q \in DOMAIN rooms' : rooms'[q] \subseteq Clients
    BY <2>2, <2>3 DEF TypeInv
  <2>5. filters' \in [Clients -> SUBSET FilterTypes]
    <3>1. joiner[j].types \in SUBSET FilterTypes
      BY <2>2 DEF Calls
    <3>2. QED
      BY <2>2, <2>3, <3>1 DEF TypeInv
  <2>6. QED
    BY <2>1, <2>4, <2>5 DEF TypeInv, Idle
<1>5. QED
  BY <1>2, <1>3, <1>4 DEF JoinStep
LEMMA BroadcastStepKeepsType ==
    ASSUME TypeInv, NEW b \in Broadcasters, BroadcastStep(b)
    PROVE  TypeInv'
<1>1. /\ buffers \in [Clients -> Seq(Messages)]
      /\ \A c \in Clients : Len(buffers[c]) <= BufferSize
  BY DEF TypeInv
<1>2. CASE FindNamespace(b)
  BY <1>1, <1>2, GoesType DEF FindNamespace
<1>3. CASE FindRoom(b)
  <2>1. CASE broadcaster[b].room \in DOMAIN rooms
    BY <1>1, <1>3, <2>1, GoesType DEF FindRoom
  <2>2. CASE broadcaster[b].room \notin DOMAIN rooms
    BY <1>1, <1>3, <2>2, GoesType DEF FindRoom
  <2>3. QED
    BY <2>1, <2>2
<1>4. CASE LockRoom(b)
  <2>1. broadcaster[b].room \in DOMAIN rooms
    BY <1>4 DEF LockRoom, TypeInv
  <2>2. QED
    BY <1>1, <1>4, <2>1, GoesType DEF LockRoom
<1>5. CASE CopyClients(b)
  <2> DEFINE new == [broadcaster[b] EXCEPT !.at = "sending",
                                           !.left = rooms[broadcaster[b].room]]
  <2>1. broadcaster[b] \in Used /\ broadcaster[b].room \in DOMAIN rooms
    BY <1>5, BroadcasterTypes DEF CopyClients, TypeInv
  <2>2. rooms[broadcaster[b].room] \subseteq Clients
    BY <2>1 DEF TypeInv
  <2>3. new \in Used /\ new.room = broadcaster[b].room
    BY <2>1, <2>2 DEF Used
  <2>4. broadcaster' = [broadcaster EXCEPT ![b] = new]
    BY <1>5 DEF CopyClients
  <2> HIDE DEF new
  <2>5. QED
    BY <1>1, <1>5, <2>1, <2>3, <2>4, BroadcastKeepsType DEF CopyClients
<1>6. CASE SendToClient(b)
  <2>1. broadcaster[b].at = "sending" /\ UNCHANGED <<rooms, filters, joiner, watcher>>
    BY <1>6 DEF SendToClient
  <2>2. broadcaster[b] \in Used /\ broadcaster[b].room \in DOMAIN rooms
    BY <2>1, BroadcasterTypes DEF TypeInv
  <2>3. PICK c \in broadcaster[b].left :
          \/ HasRoom(c) /\ Put(b, c) /\ DoneWith(b, c)
          \/ DoneWith(b, c) /\ UNCHANGED buffers
          \/ /\ broadcaster' = [broadcaster EXCEPT ![b].at = "full", ![b].client = {c}]
             /\ UNCHANGED buffers
    BY <1>6 DEF SendToClient
  <2>4. c \in Clients
    BY <2>2 DEF Used
  <2>5. CASE HasRoom(c) /\ Put(b, c) /\ DoneWith(b, c)
    BY <2>1, <2>4, <2>5, PutType, DoneWithType
  <2>6. CASE DoneWith(b, c) /\ UNCHANGED buffers
    BY <1>1, <2>1, <2>4, <2>6, DoneWithType
  <2>7. CASE /\ broadcaster' = [broadcaster EXCEPT ![b].at = "full", ![b].client = {c}]
             /\ UNCHANGED buffers
    <3> DEFINE new == [broadcaster[b] EXCEPT !.at = "full", !.client = {c}]
    <3>1. new \in Used /\ new.room = broadcaster[b].room
      BY <2>2, <2>4 DEF Used
    <3>2. broadcaster' = [broadcaster EXCEPT ![b] = new]
      BY <2>7
    <3> HIDE DEF new
    <3>3. QED
      BY <1>1, <2>1, <2>2, <2>7, <3>1, <3>2, BroadcastKeepsType
  <2>8. QED
    BY <2>3, <2>5, <2>6, <2>7
<1>7. CASE MakeRoom(b)
  <2>1. broadcaster[b].at = "full" /\ UNCHANGED <<rooms, filters, joiner, watcher>>
    BY <1>7 DEF MakeRoom
  <2>2. broadcaster[b] \in Used /\ broadcaster[b].room \in DOMAIN rooms
    BY <2>1, BroadcasterTypes DEF TypeInv
  <2>3. PICK c \in broadcaster[b].client :
          \/ /\ buffers[c] # <<>>
             /\ buffers' = [buffers EXCEPT ![c] = Tail(buffers[c])]
             /\ Goes(b, "blocked")
          \/ DoneWith(b, c) /\ UNCHANGED buffers
    BY <1>7 DEF MakeRoom
  <2>4. c \in Clients
    BY <2>2 DEF Used
  <2>5. CASE /\ buffers[c] # <<>>
             /\ buffers' = [buffers EXCEPT ![c] = Tail(buffers[c])]
             /\ Goes(b, "blocked")
    BY <2>1, <2>2, <2>4, <2>5, TakeType, GoesType
  <2>6. CASE DoneWith(b, c) /\ UNCHANGED buffers
    BY <1>1, <2>1, <2>4, <2>6, DoneWithType
  <2>7. QED
    BY <2>3, <2>5, <2>6
<1>8. CASE BlockingSend(b)
  <2>1. broadcaster[b].at = "blocked" /\ UNCHANGED <<rooms, filters, joiner, watcher>>
    BY <1>8 DEF BlockingSend
  <2>2. broadcaster[b] \in Used
    BY <2>1, BroadcasterTypes
  <2>3. PICK c \in broadcaster[b].client : HasRoom(c) /\ Put(b, c) /\ DoneWith(b, c)
    BY <1>8 DEF BlockingSend
  <2>4. c \in Clients
    BY <2>2 DEF Used
  <2>5. QED
    BY <2>1, <2>3, <2>4, PutType, DoneWithType
<1>9. CASE EndBroadcast(b)
  BY <1>1, <1>9, GoesType DEF EndBroadcast
<1>10. QED
  BY <1>2, <1>3, <1>4, <1>5, <1>6, <1>7, <1>8, <1>9 DEF BroadcastStep

LEMMA NextTypeInv == TypeInv /\ [NotifierNext]_notifierVars => TypeInv'
<1> SUFFICES ASSUME TypeInv, [NotifierNext]_notifierVars PROVE TypeInv'
  OBVIOUS
<1>1. ASSUME NEW j \in Joiners, NEW c \in Clients \cup Strangers, NEW r \in RoomNames,
             NEW types \in SUBSET FilterTypes, Join(j, c, r, types)
      PROVE  TypeInv'
  <2> DEFINE call == [at |-> "ns", client |-> c, room |-> r, types |-> types]
  <2>1. call \in Calls /\ call.at = "ns"
    BY DEF Calls
  <2>2. /\ joiner' = [joiner EXCEPT ![j] = call]
        /\ UNCHANGED <<rooms, filters, buffers, broadcaster, watcher>>
    BY <1>1 DEF Join
  <2> HIDE DEF call
  <2>3. QED
    BY <2>1, <2>2 DEF TypeInv
<1>2. ASSUME NEW b \in Broadcasters, NEW r \in RoomNames, NEW t \in MessageTypes,
             Broadcast(b, r, t)
      PROVE  TypeInv'
  <2> DEFINE new == [at |-> "ns", sent |-> broadcaster[b].sent + 1, room |-> r,
                     type |-> t, left |-> {}, client |-> {}]
  <2>1. new \in Used /\ new.at = "ns"
    BY BroadcasterTypes DEF Used
  <2>2. /\ broadcaster' = [broadcaster EXCEPT ![b] = new]
        /\ UNCHANGED <<rooms, filters, buffers, joiner, watcher>>
    BY <1>2 DEF Broadcast
  <2> HIDE DEF new
  <2>3. QED
    BY <2>1, <2>2, BroadcastKeepsType DEF TypeInv
<1>3. ASSUME NEW w \in Watchers, Watch(w) \/ WatchStep(w)
      PROVE  TypeInv'
  BY <1>3 DEF Watch, WatchStep, TypeInv
<1>4. ASSUME NEW c \in Clients, Read(c)
      PROVE  TypeInv'
  <2>1. /\ buffers' \in [Clients -> Seq(Messages)]
        /\ \A d \in Clients : Len(buffers'[d]) <= BufferSize
    BY <1>4, TakeType DEF Read
  <2>2. QED
    BY <1>4, <2>1 DEF Read, TypeInv
<1>5. CASE UNCHANGED notifierVars
  BY <1>5 DEF notifierVars, TypeInv
<1>6. QED
  BY <1>1, <1>2, <1>3, <1>4, <1>5, JoinKeepsType, BroadcastStepKeepsType DEF NotifierNext

LEMMA Typed == NotifierSpec => []TypeInv
BY InitTypeInv, NextTypeInv, PTL DEF NotifierSpec

\* No buffer takes more than its capacity, and nobody but a registered client
\* is in a room (Send, JoinNamespaceRoom).
THEOREM NotifierTypes == NotifierSpec => []NotifierTypeOK
<1>1. TypeInv => NotifierTypeOK
  BY JoinerTypes, BroadcasterTypes DEF TypeInv, NotifierTypeOK
<1>2. QED
  BY <1>1, Typed, PTL

-----------------------------------------------------------------------------
(* The locks.  Fairness makes JoinsEnd of this, and only fairness.          *)

\* A join that is past the lock of the service is alone there: no other one
\* is, and nobody reads the statistics.
InsideAlone ==
    /\ \A j, k \in JoinersAt({"namespace", "room"}) : j = k
    /\ JoinersAt({"namespace", "room"}) # {} => \A w \in Watchers : watcher[w] = "idle"

\* The threads that hold or want a lock, and those of them whose next step
\* waits for nobody.
AtLocks ==
    \/ JoinersAt({"ns", "namespace", "room"}) # {}
    \/ \E b \in Broadcasters : broadcaster[b].at \in {"ns", "namespace", "room", "copying"}
    \/ \E w \in Watchers : watcher[w] = "namespace"

JoinerGoes(j) ==
    \/ joiner[j].at = "ns" /\ CanWriteNs
    \/ joiner[j].at = "namespace"
    \/ joiner[j].at = "room" /\ CanWriteRoom(joiner[j].room)

BroadcasterGoes(b) ==
    \/ broadcaster[b].at = "ns" /\ CanReadNs
    \/ broadcaster[b].at = "namespace" /\ CanReadNamespace
    \/ broadcaster[b].at = "room" /\ CanReadRoom(broadcaster[b].room)
    \/ broadcaster[b].at = "copying"

\* No cycle of threads, each waiting for a lock another one holds: where
\* locks are held or wanted, a thread goes on, without a reader of a buffer.
NobodyStuck ==
    AtLocks =>
        \/ \E j \in Joiners : JoinerGoes(j)
        \/ \E b \in Broadcasters : BroadcasterGoes(b)
        \/ \E w \in Watchers : watcher[w] = "namespace" /\ CanReadNamespace

LEMMA NextInsideAlone ==
    ASSUME TypeInv, InsideAlone, [NotifierNext]_notifierVars
    PROVE  InsideAlone'
<1> DEFINE Inside == JoinersAt({"namespace", "room"})
<1>1. ASSUME Inside' \subseteq Inside, UNCHANGED watcher
      PROVE  InsideAlone'
  BY <1>1 DEF InsideAlone
<1>2. ASSUME NEW j \in Joiners, NEW new, joiner' = [joiner EXCEPT ![j] = new],
             new.at \notin {"namespace", "room"} \/ j \in Inside, UNCHANGED watcher
      PROVE  InsideAlone'
  <2>1. Inside' \subseteq Inside
    BY <1>2 DEF JoinersAt, TypeInv
  <2>2. QED
    BY <1>1, <1>2, <2>1
<1>3. ASSUME NEW j \in Joiners, LockNs(j)
      PROVE  InsideAlone'
  <2>1. Inside = {} /\ \A w \in Watchers : watcher[w] = "idle"
    BY <1>3 DEF LockNs, CanWriteNs
  <2>2. /\ \A k \in Joiners \ {j} : joiner'[k] = joiner[k]
        /\ watcher' = watcher
    BY <1>3 DEF LockNs
  <2>3. Inside' \subseteq {j}
    BY <2>1, <2>2 DEF JoinersAt
  <2>4. QED
    BY <2>1, <2>2, <2>3 DEF InsideAlone
<1>4. ASSUME NEW j \in Joiners, LockNamespace(j) \/ Enter(j)
      PROVE  InsideAlone'
  <2>1. j \in Inside /\ UNCHANGED watcher
    BY <1>4 DEF LockNamespace, Enter, JoinersAt
  <2>2. \E new : joiner' = [joiner EXCEPT ![j] = new]
    BY <1>4 DEF LockNamespace, Enter
  <2>3. QED
    BY <1>2, <2>1, <2>2
<1>5. ASSUME NEW j \in Joiners, NEW c, NEW r, NEW types, Join(j, c, r, types)
      PROVE  InsideAlone'
  BY <1>2, <1>5 DEF Join
<1>6. ASSUME NEW w \in Watchers, Watch(w)
      PROVE  InsideAlone'
  <2>1. Inside = {} /\ joiner' = joiner
    BY <1>6 DEF Watch, CanReadNs, JoinersAt
  <2>2. Inside' = {}
    BY <2>1 DEF JoinersAt
  <2>3. QED
    BY <2>2 DEF InsideAlone
<1>7. ASSUME NEW w \in Watchers, WatchStep(w)
      PROVE  InsideAlone'
  <2>1. /\ joiner' = joiner
        /\ \A v \in Watchers : watcher'[v] = "idle" \/ watcher'[v] = watcher[v]
    BY <1>7 DEF WatchStep, TypeInv
  <2>2. Inside' = Inside
    BY <2>1 DEF JoinersAt
  <2>3. QED
    BY <2>1, <2>2 DEF InsideAlone
<1>8. ASSUME NEW b \in Broadcasters, BroadcastStep(b)
      PROVE  UNCHANGED <<joiner, watcher>>
  BY <1>8 DEF BroadcastStep, FindNamespace, FindRoom, LockRoom, CopyClients,
              SendToClient, MakeRoom, BlockingSend, EndBroadcast
<1>9. ASSUME UNCHANGED <<joiner, watcher>>
      PROVE  InsideAlone'
  BY <1>9 DEF InsideAlone, JoinersAt
<1>10. QED
  BY <1>3, <1>4, <1>5, <1>6, <1>7, <1>8, <1>9
     DEF NotifierNext, JoinStep, Broadcast, Read, notifierVars

LEMMA AloneIsNotStuck ==
    ASSUME TypeInv, InsideAlone
    PROVE  NobodyStuck
<1> DEFINE Inside == JoinersAt({"namespace", "room"})
<1>1. SUFFICES ASSUME AtLocks
      PROVE  \/ \E j \in Joiners : JoinerGoes(j)
             \/ \E b \in Broadcasters : BroadcasterGoes(b)
             \/ \E w \in Watchers : watcher[w] = "namespace" /\ CanReadNamespace
  BY DEF NobodyStuck
<1>2. ASSUME NEW j \in Inside
      PROVE  (\E k \in Joiners : JoinerGoes(k)) \/ \E b \in Broadcasters : BroadcasterGoes(b)
  <2>1. CASE CanWriteRoom(joiner[j].room)
    BY <2>1 DEF JoinersAt, JoinerGoes
  <2>2. CASE ~CanWriteRoom(joiner[j].room)
    BY <2>2 DEF CanWriteRoom, HoldsRoom, BroadcasterGoes
  <2>3. QED
    BY <2>1, <2>2
<1>3. CASE Inside = {}
  <2>1. CanReadNamespace /\ \A r : CanReadRoom(r)
    BY <1>3 DEF CanReadNamespace, CanReadRoom, JoinersAt
  <2>2. CASE \E w \in Watchers : watcher[w] = "namespace"
    BY <2>1, <2>2
  <2>3. CASE \A w \in Watchers : watcher[w] # "namespace"
    <3>1. CanWriteNs
      BY <1>3, <2>3 DEF CanWriteNs, TypeInv
    <3>2. CASE \E j \in Joiners : joiner[j].at = "ns"
      BY <3>1, <3>2 DEF JoinerGoes
    <3>3. CASE \A j \in Joiners : joiner[j].at # "ns"
      <4>1. JoinersAt({"ns", "namespace", "room"}) = {}
        BY <1>3, <3>3 DEF JoinersAt
      <4>2. PICK b \in Broadcasters :
                broadcaster[b].at \in {"ns", "namespace", "room", "copying"}
        BY <1>1, <2>3, <4>1 DEF AtLocks
      <4>3. BroadcasterGoes(b)
        BY <2>1, <4>1, <4>2 DEF BroadcasterGoes, CanReadNs
      <4>4. QED
        BY <4>3
    <3>4. QED
      BY <3>2, <3>3
  <2>4. QED
    BY <2>2, <2>3
<1>4. QED
  BY <1>2, <1>3

\* However many threads join, broadcast and read statistics, the three levels
\* of locks exclude each other and no thread waits for ever in a circle
\* (JoinNamespaceRoom, BroadcastToNamespaceRoom, GetNamespaceStats).
THEOREM LocksNeverDeadlock == NotifierSpec => [](InsideAlone /\ NobodyStuck)
<1>1. NotifierInit => InsideAlone
  BY DEF NotifierInit, InsideAlone, JoinersAt, Idle
<1>2. TypeInv /\ InsideAlone /\ [NotifierNext]_notifierVars => InsideAlone'
  BY NextInsideAlone
<1>3. TypeInv /\ InsideAlone => NobodyStuck
  BY AloneIsNotStuck
<1>4. QED
  BY <1>1, <1>2, <1>3, Typed, PTL DEF NotifierSpec

----------------------------------------------------------------------------
(* The order of messages.  A broadcast comes to each client once, and what  *)
(* is in the buffers was sent before it.                                    *)

\* The messages of b that c has are older than number n.
OlderThan(b, c, n) ==
    \A i \in 1..Len(buffers[c]) :
        buffers[c][i].sender = b => buffers[c][i].number < n

\* Every message is from a room c has joined.
FromRooms(c) ==
    \A i \in 1..Len(buffers[c]) :
        /\ buffers[c][i].room \in DOMAIN rooms
        /\ c \in rooms[buffers[c][i].room]

Ordered(c) ==
    \A i, k \in 1..Len(buffers[c]) :
        i < k /\ buffers[c][i].sender = buffers[c][k].sender =>
            buffers[c][i].number < buffers[c][k].number

\* What a broadcast still has to do: its clients are members of its room,
\* and those left have not got its message.
SendingRight(b) ==
    /\ \A c \in Clients : OlderThan(b, c, broadcaster[b].sent + 1)
    /\ broadcaster[b].at \in {"ns", "namespace", "room", "copying"} =>
         /\ broadcaster[b].client = {}
         /\ \A c \in Clients : OlderThan(b, c, broadcaster[b].sent)
    /\ broadcaster[b].at \in {"sending", "full", "blocked"} =>
         /\ broadcaster[b].left \subseteq rooms[broadcaster[b].room]
         /\ broadcaster[b].client \subseteq broadcaster[b].left
         /\ \A c \in broadcaster[b].left : OlderThan(b, c, broadcaster[b].sent)

OrderInv ==
    /\ \A c \in Clients : FromRooms(c) /\ Ordered(c)
    /\ \A b \in Broadcasters : SendingRight(b)

LEMMA OrderImpliesInOrder == TypeInv /\ OrderInv => InOrder
<1> SUFFICES ASSUME TypeInv, OrderInv, NEW c \in Clients, NEW i \in 1..Len(buffers[c])
             PROVE  /\ c \in rooms[buffers[c][i].room]
                    /\ \A k \in (i + 1)..Len(buffers[c]) :
                         buffers[c][k].sender = buffers[c][i].sender =>
                             buffers[c][i].number < buffers[c][k].number
  BY DEF InOrder
<1>1. c \in rooms[buffers[c][i].room]
  BY DEF OrderInv, FromRooms
<1>2. Len(buffers[c]) \in Nat
  BY DEF TypeInv
<1>3. ASSUME NEW k \in (i + 1)..Len(buffers[c])
      PROVE  k \in 1..Len(buffers[c]) /\ i < k
  BY <1>2
<1>4. QED
  BY <1>1, <1>3 DEF OrderInv, Ordered

LEMMA InitOrderInv == NotifierInit => OrderInv
<1> SUFFICES ASSUME NotifierInit PROVE OrderInv
  OBVIOUS
<1>1. \A c \in Clients : buffers[c] = <<>>
  BY DEF NotifierInit
<1>2. \A b \in Broadcasters : broadcaster[b].at = "idle"
  BY DEF NotifierInit
<1>3. \A c \in Clients : 1..Len(buffers[c]) = {}
  BY <1>1
<1>4. QED
  BY <1>2, <1>3 DEF OrderInv, FromRooms, Ordered, SendingRight, OlderThan

\* Rooms only grow, so what was sent to their members stays right.
LEMMA JoinKeepsOrder ==
    ASSUME TypeInv, OrderInv, UNCHANGED <<buffers, broadcaster>>,
           DOMAIN rooms \subseteq DOMAIN rooms',
           \A r \in DOMAIN rooms : rooms[r] \subseteq rooms'[r]
    PROVE  OrderInv'
<1>1. ASSUME NEW c \in Clients
      PROVE  FromRooms(c)' /\ Ordered(c)'
  BY DEF OrderInv, FromRooms, Ordered
<1>2. ASSUME NEW b \in Broadcasters
      PROVE  SendingRight(b)'
  <2>1. broadcaster[b].at \in {"sending", "full", "blocked"} =>
          broadcaster[b].room \in DOMAIN rooms
    BY DEF TypeInv
  <2>2. QED
    BY <2>1 DEF OrderInv, SendingRight, OlderThan
<1>3. QED
  BY <1>1, <1>2 DEF OrderInv

\* A buffer that loses its first message keeps what is said of the others.
LEMMA TakeKeepsOrder ==
    ASSUME TypeInv, OrderInv, NEW c \in Clients, buffers[c] # <<>>,
           buffers' = [buffers EXCEPT ![c] = Tail(buffers[c])], rooms' = rooms
    PROVE  /\ \A d \in Clients : FromRooms(d)' /\ Ordered(d)'
           /\ \A d \in Clients, b \in Broadcasters, n \in Nat :
                OlderThan(b, d, n) => OlderThan(b, d, n)'
<1>1. buffers[c] \in Seq(Messages) /\ buffers \in [Clients -> Seq(Messages)]
  BY DEF TypeInv
<1>2. /\ Len(Tail(buffers[c])) = Len(buffers[c]) - 1
      /\ \A i \in 1..Len(Tail(buffers[c])) : Tail(buffers[c])[i] = buffers[c][i + 1]
      /\ Len(buffers[c]) \in Nat /\ Len(buffers[c]) > 0
  BY <1>1
<1>3. /\ buffers'[c] = Tail(buffers[c])
      /\ \A d \in Clients \ {c} : buffers'[d] = buffers[d]
  BY <1>1
<1>4. ASSUME NEW i \in 1..Len(buffers'[c])
      PROVE  i + 1 \in 1..Len(buffers[c]) /\ buffers'[c][i] = buffers[c][i + 1]
  <2>1. i \in 1..Len(Tail(buffers[c]))
    BY <1>3
  <2>2. i + 1 \in 1..Len(buffers[c])
    BY <1>2, <2>1
  <2>3. QED
    BY <1>2, <1>3, <2>1, <2>2
<1>5. ASSUME NEW d \in Clients
      PROVE  FromRooms(d)' /\ Ordered(d)'
  <2>1. CASE d # c
    BY <1>3, <2>1 DEF OrderInv, FromRooms, Ordered
  <2>2. CASE d = c
    <3>1. FromRooms(c)'
      BY <1>4 DEF OrderInv, FromRooms
    <3>2. Ordered(c)'
      <4> SUFFICES ASSUME NEW i \in 1..Len(buffers'[c]), NEW k \in 1..Len(buffers'[c]),
                          i < k, buffers'[c][i].sender = buffers'[c][k].sender
                   PROVE  buffers'[c][i].number < buffers'[c][k].number
        BY DEF Ordered
      <4>1. i + 1 < k + 1
        BY <1>2, <1>3
      <4>2. QED
        BY <1>4, <4>1 DEF OrderInv, Ordered
    <3>3. QED
      BY <2>2, <3>1, <3>2
  <2>3. QED
    BY <2>1, <2>2
<1>6. ASSUME NEW d \in Clients, NEW b \in Broadcasters, NEW n \in Nat, OlderThan(b, d, n)
      PROVE  OlderThan(b, d, n)'
  <2>1. CASE d # c
    BY <1>3, <1>6, <2>1 DEF OlderThan
  <2>2. CASE d = c
    BY <1>4, <1>6, <2>2 DEF OlderThan
  <2>3. QED
    BY <2>1, <2>2
<1>7. QED
  BY <1>5, <1>6
\* A broadcast puts its message behind older ones of its own, and in the
\* buffer of a member of its room.
LEMMA PutKeepsOrder ==
    ASSUME TypeInv, OrderInv, NEW b \in Broadcasters, NEW c \in Clients,
           NEW sent \in Nat, sent = broadcaster[b].sent,
           broadcaster[b].at \in {"sending", "full", "blocked"},
           c \in broadcaster[b].left, Put(b, c), rooms' = rooms
    PROVE  /\ \A d \in Clients : FromRooms(d)' /\ Ordered(d)'
           /\ \A a \in Broadcasters, d \in Clients, n \in Nat :
                (a # b \/ d # c) /\ OlderThan(a, d, n) => OlderThan(a, d, n)'
           /\ OlderThan(b, c, sent + 1)'
<1> DEFINE old == buffers[c]
           m == Message(b)
<1>1. old \in Seq(Messages) /\ Len(old) \in Nat
  BY DEF TypeInv
<1>2. m.sender = b /\ m.number = sent /\ m.room = broadcaster[b].room
  BY DEF Message
<1>3. m \in Messages
  BY BroadcasterTypes DEF Message, Messages, Used
<1>4. broadcaster[b].room \in DOMAIN rooms /\ c \in rooms[broadcaster[b].room]
  BY DEF TypeInv, OrderInv, SendingRight
<1>5. OlderThan(b, c, sent)
  BY DEF OrderInv, SendingRight
<1>6. /\ buffers'[c] = Append(old, m)
      /\ \A d \in Clients \ {c} : buffers'[d] = buffers[d]
  BY DEF Put, TypeInv
<1> HIDE DEF m
<1>7. /\ Len(buffers'[c]) = Len(old) + 1
      /\ buffers'[c][Len(old) + 1] = m
      /\ \A i \in 1..Len(old) : buffers'[c][i] = old[i]
  BY <1>1, <1>3, <1>6
<1>8. \A i \in 1..Len(buffers'[c]) : i \in 1..Len(old) \/ i = Len(old) + 1
  BY <1>1, <1>7
<1>9. ASSUME NEW i \in 1..Len(old)
      PROVE  buffers'[c][i] \in Messages /\ buffers'[c][i].number \in Nat
  <2>1. old[i] \in Messages
    BY <1>1
  <2>2. QED
    BY <1>7, <2>1 DEF Messages
<1>10. FromRooms(c)'
  BY <1>2, <1>4, <1>7, <1>8 DEF OrderInv, FromRooms
<1>11. Ordered(c)'
  <2> SUFFICES ASSUME NEW i \in 1..Len(buffers'[c]), NEW k \in 1..Len(buffers'[c]),
                      i < k, buffers'[c][i].sender = buffers'[c][k].sender
               PROVE  buffers'[c][i].number < buffers'[c][k].number
    BY DEF Ordered
  <2>1. i \in 1..Len(old)
    BY <1>1, <1>7
  <2>2. CASE k \in 1..Len(old)
    BY <1>7, <2>1, <2>2 DEF OrderInv, Ordered
  <2>3. CASE k = Len(old) + 1
    <3>1. old[i].sender = b
      BY <1>2, <1>7, <2>1, <2>3
    <3>2. old[i].number < sent
      BY <1>5, <2>1, <3>1 DEF OlderThan
    <3>3. QED
      BY <1>2, <1>7, <2>1, <2>3, <3>2
  <2>4. QED
    BY <1>8, <2>2, <2>3
<1>12. ASSUME NEW d \in Clients
       PROVE  FromRooms(d)' /\ Ordered(d)'
  <2>1. CASE d = c
    BY <1>10, <1>11, <2>1
  <2>2. CASE d # c
    BY <1>6, <2>2 DEF OrderInv, FromRooms, Ordered
  <2>3. QED
    BY <2>1, <2>2
<1>13. ASSUME NEW a \in Broadcasters, NEW d \in Clients, NEW n \in Nat,
              a # b \/ d # c, OlderThan(a, d, n)
       PROVE  OlderThan(a, d, n)'
  <2>1. CASE d # c
    BY <1>6, <1>13, <2>1 DEF OlderThan
  <2>2. CASE d = c
    <3> SUFFICES ASSUME NEW i \in 1..Len(buffers'[c]), buffers'[c][i].sender = a
                 PROVE  buffers'[c][i].number < n
      BY <2>2 DEF OlderThan
    <3>1. a # b
      BY <1>13, <2>2
    <3>2. i \in 1..Len(old)
      BY <1>2, <1>7, <1>8, <3>1
    <3>3. QED
      BY <1>7, <1>13, <2>2, <3>2 DEF OlderThan
  <2>3. QED
    BY <2>1, <2>2
<1>14. OlderThan(b, c, sent + 1)'
  <2> SUFFICES ASSUME NEW i \in 1..Len(buffers'[c]), buffers'[c][i].sender = b
               PROVE  buffers'[c][i].number < sent + 1
    BY DEF OlderThan
  <2>1. CASE i \in 1..Len(old)
    <3>1. old[i].number < sent
      BY <1>5, <1>7, <2>1 DEF OlderThan
    <3>2. QED
      BY <1>7, <1>9, <2>1, <3>1
  <2>2. CASE i = Len(old) + 1
    BY <1>2, <1>7, <2>2
  <2>3. QED
    BY <1>8, <2>1, <2>2
<1>15. QED
  BY <1>12, <1>13, <1>14

\* A step of b leaves what is said of other broadcasts as it was.
LEMMA OrderByParts ==
    ASSUME TypeInv, OrderInv, NEW b \in Broadcasters,
           \A a \in Broadcasters \ {b} : broadcaster'[a] = broadcaster[a],
           rooms' = rooms,
           \A d \in Clients : FromRooms(d)' /\ Ordered(d)',
           \A a \in Broadcasters \ {b}, d \in Clients, n \in Nat :
               OlderThan(a, d, n) => OlderThan(a, d, n)',
           SendingRight(b)'
    PROVE  OrderInv'
<1>1. ASSUME NEW a \in Broadcasters, a # b
      PROVE  SendingRight(a)'
  <2>1. PICK sent \in Nat : sent = broadcaster[a].sent
    BY BroadcasterTypes
  <2>2. broadcaster'[a] = broadcaster[a] /\ broadcaster'[a].sent = sent
    BY <1>1, <2>1
  <2>3. \A d \in Clients : OlderThan(a, d, sent) => OlderThan(a, d, sent)'
    BY <1>1
  <2>4. sent + 1 \in Nat
    OBVIOUS
  <2>5. \A d \in Clients : OlderThan(a, d, sent + 1) => OlderThan(a, d, sent + 1)'
    BY <1>1, <2>4
  <2>6. \A d \in Clients : OlderThan(a, d, sent + 1)
    BY <2>1 DEF OrderInv, SendingRight
  <2>7. broadcaster[a].at \in {"ns", "namespace", "room", "copying"} =>
          /\ broadcaster[a].client = {}
          /\ \A d \in Clients : OlderThan(a, d, sent)
    BY <2>1 DEF OrderInv, SendingRight
  <2>8. broadcaster[a].at \in {"sending", "full", "blocked"} =>
          /\ broadcaster[a].left \subseteq rooms[broadcaster[a].room]
          /\ broadcaster[a].client \subseteq broadcaster[a].left
          /\ \A d \in broadcaster[a].left : OlderThan(a, d, sent)
    BY <2>1 DEF OrderInv, SendingRight
  <2>9. broadcaster[a].at \in {"sending", "full", "blocked"} =>
          broadcaster[a].left \subseteq Clients
    BY BroadcasterTypes DEF Used
  <2>10. QED
    BY <2>2, <2>3, <2>5, <2>6, <2>7, <2>8, <2>9 DEF SendingRight, OlderThan
<1>2. QED
  BY <1>1 DEF OrderInv
LEMMA QuietKeepsOrder ==
    ASSUME TypeInv, OrderInv, NEW b \in Broadcasters,
           \A a \in Broadcasters \ {b} : broadcaster'[a] = broadcaster[a],
           rooms' = rooms, buffers' = buffers, SendingRight(b)'
    PROVE  OrderInv'
<1>1. \A d \in Clients : FromRooms(d)' /\ Ordered(d)'
  BY DEF OrderInv, FromRooms, Ordered
<1>2. \A a \in Broadcasters \ {b}, d \in Clients, n \in Nat :
        OlderThan(a, d, n) => OlderThan(a, d, n)'
  BY DEF OlderThan
<1>3. QED
  BY <1>1, <1>2, OrderByParts

\* What there is to show of b's own record after a step of b.
LEMMA OwnRecord ==
    ASSUME NEW b \in Broadcasters, NEW sent \in Nat, broadcaster'[b].sent = sent,
           \A d \in Clients : OlderThan(b, d, sent + 1)',
           broadcaster'[b].at \in {"ns", "namespace", "room", "copying"} =>
               /\ broadcaster'[b].client = {}
               /\ \A d \in Clients : OlderThan(b, d, sent)',
           broadcaster'[b].at \in {"sending", "full", "blocked"} =>
               /\ broadcaster'[b].left \subseteq rooms'[broadcaster'[b].room]
               /\ broadcaster'[b].client \subseteq broadcaster'[b].left
               /\ \A d \in broadcaster'[b].left : OlderThan(b, d, sent)'
    PROVE  SendingRight(b)'
BY DEF SendingRight, OlderThan

\* A broadcast that has taken one lock after the other still has not sent.
LEMMA GoesKeepsOrder ==
    ASSUME TypeInv, OrderInv, NEW b \in Broadcasters,
           broadcaster[b].at \in {"ns", "namespace", "room", "sending"},
           NEW place \in {"idle", "namespace", "room", "copying"}, Goes(b, place),
           broadcaster[b].at = "sending" => place = "idle",
           rooms' = rooms, buffers' = buffers
    PROVE  OrderInv'
<1>1. PICK sent \in Nat : sent = broadcaster[b].sent
  BY BroadcasterTypes
<1>2. broadcaster[b] \in Used
  BY BroadcasterTypes
<1>3. /\ broadcaster'[b].at = place /\ broadcaster'[b].sent = sent
      /\ \A a \in Broadcasters \ {b} : broadcaster'[a] = broadcaster[a]
  BY <1>1, <1>2 DEF Goes, TypeInv, Used
<1>4. \A d \in Clients : OlderThan(b, d, sent + 1)'
  BY <1>1 DEF OrderInv, SendingRight, OlderThan
<1>5. place # "idle" => /\ broadcaster'[b].client = {}
                       /\ \A d \in Clients : OlderThan(b, d, sent)'
  <2> SUFFICES ASSUME place # "idle"
               PROVE  /\ broadcaster'[b].client = {}
                      /\ \A d \in Clients : OlderThan(b, d, sent)'
    OBVIOUS
  <2>1. broadcaster'[b].client = broadcaster[b].client
    BY <1>2 DEF Goes, TypeInv, Used
  <2>2. /\ broadcaster[b].client = {}
        /\ \A d \in Clients : OlderThan(b, d, sent)
    BY <1>1 DEF OrderInv, SendingRight
  <2>3. QED
    BY <2>1, <2>2 DEF OlderThan
<1>6. SendingRight(b)'
  BY <1>3, <1>4, <1>5, OwnRecord
<1>7. QED
  BY <1>3, <1>6, QuietKeepsOrder

\* A client is done with, whether it got the message or not.
LEMMA DoneWithKeepsOrder ==
    ASSUME TypeInv, OrderInv, NEW b \in Broadcasters, NEW c \in broadcaster[b].left,
           broadcaster[b].at \in {"sending", "full", "blocked"},
           DoneWith(b, c), Put(b, c) \/ UNCHANGED buffers, rooms' = rooms
    PROVE  OrderInv'
<1>1. PICK sent \in Nat : sent = broadcaster[b].sent
  BY BroadcasterTypes
<1>2. broadcaster[b] \in Used /\ c \in Clients
  BY BroadcasterTypes DEF Used
<1>3. /\ broadcaster'[b].at = "sending" /\ broadcaster'[b].sent = sent
      /\ broadcaster'[b].left = broadcaster[b].left \ {c} /\ broadcaster'[b].client = {}
      /\ broadcaster'[b].room = broadcaster[b].room
      /\ \A a \in Broadcasters \ {b} : broadcaster'[a] = broadcaster[a]
  BY <1>1, <1>2 DEF DoneWith, TypeInv, Used
<1>4. /\ broadcaster[b].left \subseteq rooms[broadcaster[b].room]
      /\ broadcaster[b].left \subseteq Clients
      /\ \A d \in broadcaster[b].left : OlderThan(b, d, sent)
      /\ \A d \in Clients : OlderThan(b, d, sent + 1)
  BY <1>1, <1>2 DEF OrderInv, SendingRight, Used
<1>5. CASE Put(b, c)
  <2>1. /\ \A d \in Clients : FromRooms(d)' /\ Ordered(d)'
        /\ \A a \in Broadcasters, d \in Clients, n \in Nat :
             (a # b \/ d # c) /\ OlderThan(a, d, n) => OlderThan(a, d, n)'
        /\ OlderThan(b, c, sent + 1)'
    BY <1>1, <1>2, <1>5, PutKeepsOrder
  <2>2. sent + 1 \in Nat
    OBVIOUS
  <2>3. \A d \in Clients : OlderThan(b, d, sent + 1)'
    BY <1>4, <2>1, <2>2
  <2>4. \A d \in broadcaster[b].left \ {c} : OlderThan(b, d, sent)'
    BY <1>4, <2>1
  <2>5. SendingRight(b)'
    BY <1>3, <1>4, <2>3, <2>4, OwnRecord
  <2>6. \A a \in Broadcasters \ {b}, d \in Clients, n \in Nat :
          OlderThan(a, d, n) => OlderThan(a, d, n)'
    BY <2>1
  <2>7. QED
    BY <1>3, <2>1, <2>5, <2>6, OrderByParts
<1>6. CASE UNCHANGED buffers
  <2>1. \A d \in Clients : OlderThan(b, d, sent + 1)'
    BY <1>4, <1>6 DEF OlderThan
  <2>2. \A d \in broadcaster[b].left \ {c} : OlderThan(b, d, sent)'
    BY <1>4, <1>6 DEF OlderThan
  <2>3. SendingRight(b)'
    BY <1>3, <1>4, <2>1, <2>2, OwnRecord
  <2>4. QED
    BY <1>3, <1>6, <2>3, QuietKeepsOrder
<1>7. QED
  BY <1>5, <1>6

\* The loop is held up at a client: nothing is sent.
LEMMA HeldUpKeepsOrder ==
    ASSUME TypeInv, OrderInv, NEW b \in Broadcasters,
           broadcaster[b].at \in {"sending", "full"},
           NEW at \in {"full", "blocked"}, NEW client \in SUBSET broadcaster[b].left,
           broadcaster' = [broadcaster EXCEPT ![b].at = at, ![b].client = client],
           \A d \in Clients : FromRooms(d)' /\ Ordered(d)',
           \A a \in Broadcasters, d \in Clients, n \in Nat :
               OlderThan(a, d, n) => OlderThan(a, d, n)',
           rooms' = rooms
    PROVE  OrderInv'
<1>1. PICK sent \in Nat : sent = broadcaster[b].sent
  BY BroadcasterTypes
<1>2. broadcaster[b] \in Used
  BY BroadcasterTypes
<1>3. /\ broadcaster'[b].at = at /\ broadcaster'[b].sent = sent
      /\ broadcaster'[b].left = broadcaster[b].left /\ broadcaster'[b].client = client
      /\ broadcaster'[b].room = broadcaster[b].room
      /\ \A a \in Broadcasters \ {b} : broadcaster'[a] = broadcaster[a]
  BY <1>1, <1>2 DEF TypeInv, Used
<1>4. /\ broadcaster[b].left \subseteq rooms[broadcaster[b].room]
      /\ broadcaster[b].left \subseteq Clients
      /\ \A d \in broadcaster[b].left : OlderThan(b, d, sent)
      /\ \A d \in Clients : OlderThan(b, d, sent + 1)
  BY <1>1, <1>2 DEF OrderInv, SendingRight, Used
<1>5. sent + 1 \in Nat
  OBVIOUS
<1>6. \A d \in Clients : OlderThan(b, d, sent + 1)'
  BY <1>4, <1>5
<1>7. \A d \in broadcaster[b].left : OlderThan(b, d, sent)'
  BY <1>4
<1>8. SendingRight(b)'
  BY <1>3, <1>4, <1>6, <1>7, OwnRecord
<1>9. QED
  BY <1>3, <1>8, OrderByParts
LEMMA BroadcastStepKeepsOrder ==
    ASSUME TypeInv, OrderInv, NEW b \in Broadcasters, BroadcastStep(b)
    PROVE  OrderInv'
<1>1. CASE FindNamespace(b)
  BY <1>1, GoesKeepsOrder DEF FindNamespace
<1>2. CASE FindRoom(b)
  <2>1. CASE broadcaster[b].room \in DOMAIN rooms
    BY <1>2, <2>1, GoesKeepsOrder DEF FindRoom
  <2>2. CASE broadcaster[b].room \notin DOMAIN rooms
    BY <1>2, <2>2, GoesKeepsOrder DEF FindRoom
  <2>3. QED
    BY <2>1, <2>2
<1>3. CASE LockRoom(b)
  BY <1>3, GoesKeepsOrder DEF LockRoom
<1>4. CASE CopyClients(b)
  <2>1. PICK sent \in Nat : sent = broadcaster[b].sent
    BY BroadcasterTypes
  <2>2. /\ broadcaster[b].at = "copying" /\ rooms' = rooms /\ buffers' = buffers
        /\ broadcaster[b] \in Used /\ broadcaster[b].room \in DOMAIN rooms
    BY <1>4, BroadcasterTypes DEF CopyClients, TypeInv
  <2>3. /\ broadcaster'[b].at = "sending" /\ broadcaster'[b].sent = sent
        /\ broadcaster'[b].left = rooms[broadcaster[b].room]
        /\ broadcaster'[b].client = broadcaster[b].client
        /\ broadcaster'[b].room = broadcaster[b].room
        /\ \A a \in Broadcasters \ {b} : broadcaster'[a] = broadcaster[a]
    BY <1>4, <2>1, <2>2 DEF CopyClients, TypeInv, Used
  <2>4. rooms[broadcaster[b].room] \subseteq Clients
    BY <2>2 DEF TypeInv
  <2>5. /\ \A d \in Clients : OlderThan(b, d, sent + 1)'
        /\ \A d \in rooms[broadcaster[b].room] : OlderThan(b, d, sent)'
    BY <2>1, <2>2, <2>4 DEF OrderInv, SendingRight, OlderThan
  <2>6. broadcaster[b].client = {}
    BY <2>2 DEF OrderInv, SendingRight
  <2>7. SendingRight(b)'
    BY <2>2, <2>3, <2>5, <2>6, OwnRecord
  <2>8. QED
    BY <2>2, <2>3, <2>7, QuietKeepsOrder
<1>5. CASE SendToClient(b)
  <2>1. broadcaster[b].at = "sending" /\ rooms' = rooms
    BY <1>5 DEF SendToClient
  <2>2. PICK c \in broadcaster[b].left :
          \/ Put(b, c) /\ DoneWith(b, c)
          \/ DoneWith(b, c) /\ UNCHANGED buffers
          \/ /\ broadcaster' = [broadcaster EXCEPT ![b].at = "full", ![b].client = {c}]
             /\ UNCHANGED buffers
    BY <1>5 DEF SendToClient
  <2>3. CASE DoneWith(b, c) /\ (Put(b, c) \/ UNCHANGED buffers)
    BY <2>1, <2>3, DoneWithKeepsOrder
  <2>4. CASE /\ broadcaster' = [broadcaster EXCEPT ![b].at = "full", ![b].client = {c}]
             /\ UNCHANGED buffers
    <3>1. \A d \in Clients : FromRooms(d)' /\ Ordered(d)'
      BY <2>1, <2>4 DEF OrderInv, FromRooms, Ordered
    <3>2. \A a \in Broadcasters, d \in Clients, n \in Nat :
            OlderThan(a, d, n) => OlderThan(a, d, n)'
      BY <2>4 DEF OlderThan
    <3>3. {c} \in SUBSET broadcaster[b].left
      OBVIOUS
    <3>4. QED
      BY <2>1, <2>4, <3>1, <3>2, <3>3, HeldUpKeepsOrder
  <2>5. QED
    BY <2>2, <2>3, <2>4
<1>6. CASE MakeRoom(b)
  <2>1. broadcaster[b].at = "full" /\ rooms' = rooms
    BY <1>6 DEF MakeRoom
  <2>2. broadcaster[b] \in Used /\ broadcaster[b].client \subseteq broadcaster[b].left
    BY <2>1, BroadcasterTypes DEF OrderInv, SendingRight
  <2>3. PICK c \in broadcaster[b].client :
          \/ /\ buffers[c] # <<>>
             /\ buffers' = [buffers EXCEPT ![c] = Tail(buffers[c])]
             /\ Goes(b, "blocked")
          \/ DoneWith(b, c) /\ UNCHANGED buffers
    BY <1>6 DEF MakeRoom
  <2>4. c \in Clients /\ c \in broadcaster[b].left
    BY <2>2 DEF Used
  <2>5. CASE /\ buffers[c] # <<>>
             /\ buffers' = [buffers EXCEPT ![c] = Tail(buffers[c])]
             /\ Goes(b, "blocked")
    <3>1. /\ \A d \in Clients : FromRooms(d)' /\ Ordered(d)'
          /\ \A d \in Clients, a \in Broadcasters, n \in Nat :
               OlderThan(a, d, n) => OlderThan(a, d, n)'
      BY <2>1, <2>4, <2>5, TakeKeepsOrder
    <3> DEFINE client == broadcaster[b].client
    <3>2. client \in SUBSET broadcaster[b].left
      BY <2>2
    <3>3. broadcaster' = [broadcaster EXCEPT ![b].at = "blocked", ![b].client = client]
      <4>1. [broadcaster[b] EXCEPT !.at = "blocked"]
              = [broadcaster[b] EXCEPT !.at = "blocked", !.client = client]
        BY <2>2 DEF Used
      <4>2. QED
        BY <2>5, <4>1 DEF Goes
    <3> HIDE DEF client
    <3>4. QED
      BY <2>1, <3>1, <3>2, <3>3, HeldUpKeepsOrder
  <2>6. CASE DoneWith(b, c) /\ UNCHANGED buffers
    BY <2>1, <2>4, <2>6, DoneWithKeepsOrder
  <2>7. QED
    BY <2>3, <2>5, <2>6
<1>7. CASE BlockingSend(b)
  <2>1. broadcaster[b].at = "blocked" /\ rooms' = rooms
    BY <1>7 DEF BlockingSend
  <2>2. PICK c \in broadcaster[b].client : Put(b, c) /\ DoneWith(b, c)
    BY <1>7 DEF BlockingSend
  <2>3. c \in broadcaster[b].left
    BY <2>1 DEF OrderInv, SendingRight
  <2>4. QED
    BY <2>1, <2>2, <2>3, DoneWithKeepsOrder
<1>8. CASE EndBroadcast(b)
  BY <1>8, GoesKeepsOrder DEF EndBroadcast
<1>9. QED
  BY <1>1, <1>2, <1>3, <1>4, <1>5, <1>6, <1>7, <1>8 DEF BroadcastStep

LEMMA NextOrderInv == TypeInv /\ OrderInv /\ [NotifierNext]_notifierVars => OrderInv'
<1> SUFFICES ASSUME TypeInv, OrderInv, [NotifierNext]_notifierVars PROVE OrderInv'
  OBVIOUS
<1>1. ASSUME NEW j \in Joiners, JoinStep(j)
      PROVE  OrderInv'
  <2>1. /\ DOMAIN rooms \subseteq DOMAIN rooms'
        /\ \A r \in DOMAIN rooms : rooms[r] \subseteq rooms'[r]
        /\ UNCHANGED <<buffers, broadcaster>>
    BY <1>1 DEF JoinStep, LockNs, LockNamespace, Enter
  <2>2. QED
    BY <2>1, JoinKeepsOrder
<1>2. ASSUME UNCHANGED <<rooms, buffers, broadcaster>>
      PROVE  OrderInv'
  BY <1>2, JoinKeepsOrder
<1>3. ASSUME NEW b \in Broadcasters, NEW r \in RoomNames, NEW t \in MessageTypes,
             Broadcast(b, r, t)
      PROVE  OrderInv'
  <2>1. PICK sent \in Nat : sent = broadcaster[b].sent
    BY BroadcasterTypes
  <2>2. /\ broadcaster'[b].at = "ns" /\ broadcaster'[b].sent = sent + 1
        /\ broadcaster'[b].client = {}
        /\ \A a \in Broadcasters \ {b} : broadcaster'[a] = broadcaster[a]
        /\ rooms' = rooms /\ buffers' = buffers
    BY <1>3, <2>1 DEF Broadcast, TypeInv
  <2>3. \A d \in Clients : OlderThan(b, d, sent + 1)'
    BY <2>1, <2>2 DEF OrderInv, SendingRight, OlderThan
  <2>4. \A d \in Clients : OlderThan(b, d, (sent + 1) + 1)'
    <3> SUFFICES ASSUME NEW d \in Clients, NEW i \in 1..Len(buffers[d]),
                        buffers[d][i].sender = b
                 PROVE  buffers[d][i].number < (sent + 1) + 1
      BY <2>2 DEF OlderThan
    <3>1. buffers[d][i].number < sent + 1
      BY <2>2, <2>3 DEF OlderThan
    <3>2. buffers[d][i] \in Messages
      BY DEF TypeInv
    <3>3. QED
      BY <3>1, <3>2 DEF Messages
  <2>5. sent + 1 \in Nat
    OBVIOUS
  <2>6. SendingRight(b)'
    BY <2>2, <2>3, <2>4, <2>5, OwnRecord
  <2>7. QED
    BY <2>2, <2>6, QuietKeepsOrder
<1>4. ASSUME NEW c \in Clients, Read(c)
      PROVE  OrderInv'
  <2>1. rooms' = rooms /\ broadcaster' = broadcaster
    BY <1>4 DEF Read
  <2>2. /\ \A d \in Clients : FromRooms(d)' /\ Ordered(d)'
        /\ \A d \in Clients, a \in Broadcasters, n \in Nat :
             OlderThan(a, d, n) => OlderThan(a, d, n)'
    BY <1>4, TakeKeepsOrder DEF Read
  <2>3. ASSUME NEW b \in Broadcasters
        PROVE  SendingRight(b)'
    <3>1. PICK sent \in Nat : sent = broadcaster[b].sent
      BY BroadcasterTypes
    <3>2. sent + 1 \in Nat
      OBVIOUS
    <3>3. broadcaster[b].at \in {"sending", "full", "blocked"} =>
            broadcaster[b].left \subseteq Clients
      BY BroadcasterTypes DEF Used
    <3>4. /\ \A d \in Clients : OlderThan(b, d, sent + 1)'
          /\ broadcaster[b].at \in {"ns", "namespace", "room", "copying"} =>
               \A d \in Clients : OlderThan(b, d, sent)'
          /\ broadcaster[b].at \in {"sending", "full", "blocked"} =>
               \A d \in broadcaster[b].left : OlderThan(b, d, sent)'
      BY <2>2, <3>1, <3>2, <3>3 DEF OrderInv, SendingRight
    <3>5. QED
      BY <2>1, <3>1, <3>4, OwnRecord DEF OrderInv, SendingRight
  <2>4. QED
    BY <2>2, <2>3 DEF OrderInv
<1>5. QED
  BY <1>1, <1>2, <1>3, <1>4, BroadcastStepKeepsOrder
     DEF NotifierNext, Join, Watch, WatchStep, notifierVars

\* However broadcasts overtake each other, and whatever is dropped to make
\* room, a client gets the messages of its rooms, those of one sender in
\* order (BroadcastToNamespaceRoom).
THEOREM DeliveredInOrder == NotifierSpec => []InOrder
BY InitTypeInv, InitOrderInv, NextTypeInv, NextOrderInv, OrderImpliesInOrder, PTL
   DEF NotifierSpec
=============================================================================
