--------------------------- MODULE SchedulerProofs ---------------------------
(* Proofs about the Scheduler, for any number and size of wheels, any       *)
(* number of operations, and all delays, intervals and jitters.             *)
EXTENDS Scheduler, DataLemmas, SequenceTheorems

-----------------------------------------------------------------------------
(* Stop.  Once it has returned, the ticker's goroutine and those of the     *)
(* operations are gone, and only the ticker starts others.                  *)

StoppedForGood ==
    stopped => /\ ~ticking
               /\ \A o \in OpIDs : running[o] = 0 /\ finishing[o] = 0

LEMMA NextStopped == StoppedForGood /\ [Next]_vars => StoppedForGood'
<1> SUFFICES ASSUME StoppedForGood, [Next]_vars PROVE StoppedForGood'
  OBVIOUS
<1> USE DEF StoppedForGood, flight, life, wheel, table
<1>1. ASSUME NEW type, NEW d, NEW i, NEW j, ScheduleOperation(type, d, i, j)
      PROVE  StoppedForGood'
  BY <1>1 DEF ScheduleOperation
<1>2. CASE ScheduleUnsupported
  BY <1>2 DEF ScheduleUnsupported
<1>3. CASE Clock
  BY <1>3 DEF Clock
<1>4. CASE Tick
  BY <1>4 DEF Tick
<1>5. CASE TickerStops
  BY <1>5 DEF TickerStops
<1>6. ASSUME NEW o \in OpIDs, HandlerReturns(o) PROVE StoppedForGood'
  BY <1>6 DEF HandlerReturns
<1>7. ASSUME NEW o \in OpIDs, OperationDone(o) PROVE StoppedForGood'
  BY <1>7 DEF OperationDone
<1>8. CASE StopReturns
  BY <1>8 DEF StopReturns, Idle
<1>9. CASE Stop
  BY <1>9 DEF Stop
<1>10. ASSUME NEW o \in OpIDs, CancelOperation(o) PROVE StoppedForGood'
  BY <1>10 DEF CancelOperation
<1>11. CASE UNCHANGED vars
  BY <1>11 DEF vars
<1>12. QED
  BY <1>1, <1>2, <1>3, <1>4, <1>5, <1>6, <1>7, <1>8, <1>9, <1>10, <1>11
     DEF Next, Schedules, Runtime

LEMMA StoppedStartsNothing ==
    StoppedForGood /\ stopped /\ [Next]_vars => started' = started
<1> SUFFICES ASSUME StoppedForGood, stopped, [Next]_vars PROVE started' = started
  OBVIOUS
<1>1. ~Tick
  BY DEF Tick, StoppedForGood
<1>2. QED
  BY <1>1 DEF Next, Schedules, Runtime, ScheduleOperation, ScheduleUnsupported, Clock,
     TickerStops, HandlerReturns, OperationDone, StopReturns, Stop, CancelOperation,
     vars, flight

\* Once Stop or Shutdown has returned, no handler runs and none is ever
\* started, whatever is scheduled or cancelled afterwards.
THEOREM StopIsForGood == Spec => StopIsFinal
<1>1. Init => StoppedForGood
  BY DEF Init, StoppedForGood
<1>2. StoppedForGood /\ [Next]_vars =>
        [stopped => /\ \A o \in OpIDs : running[o] = 0 /\ finishing[o] = 0
                    /\ started' = started]_vars
  BY StoppedStartsNothing DEF StoppedForGood
<1>3. QED
  BY <1>1, <1>2, NextStopped, PTL DEF Spec, StopIsFinal
-----------------------------------------------------------------------------
(* Slots.  An operation is found at a wheel, a slot and an index.           *)

\* The types the invariants below need.
SlotsTyped ==
    /\ DOMAIN slots = Wheels
    /\ \A l \in Wheels : DOMAIN slots[l] = Positions(l)
    /\ \A l \in Wheels : \A k \in Positions(l) : slots[l][k] \in Seq(DOMAIN ops)

Found(o, l, k, n) ==
    /\ l \in Wheels /\ k \in Positions(l)
    /\ n \in 1..Len(slots[l][k])
    /\ slots[l][k][n] = o

\* After it, o is at one more place and everything else where it was.
LEMMA FoundAfterPlace ==
    ASSUME SlotsTyped, DOMAIN ops \subseteq DOMAIN ops', NEW o \in DOMAIN ops',
           NEW r, Place(o, r)
    PROVE  /\ SlotsTyped'
           /\ \E l, k, n : \A x, m, p, i :
                Found(x, m, p, i)' =>
                    Found(x, m, p, i) \/ (x = o /\ m = l /\ p = k /\ i = n)
<1>1. ASSUME slots' = slots
      PROVE  SlotsTyped' /\ \A x, m, p, i : Found(x, m, p, i)' => Found(x, m, p, i)
  <2>1. ASSUME NEW m \in Wheels, NEW p \in Positions(m)
        PROVE  slots[m][p] \in Seq(DOMAIN ops')
    BY DEF SlotsTyped
  <2>2. QED
    BY <1>1, <2>1 DEF SlotsTyped, Found, Positions, Wheels
<1> DEFINE NewAt(l, k, n) ==
      \A x, m, p, i : Found(x, m, p, i)' =>
          Found(x, m, p, i) \/ (x = o /\ m = l /\ p = k /\ i = n)
<1>2. ASSUME NEW l \in Wheels, NEW k \in Positions(l),
             slots' = [slots EXCEPT ![l][k] = Append(@, o)]
      PROVE  /\ SlotsTyped'
             /\ \E n : NewAt(l, k, n)
  <2> DEFINE s == slots[l][k]
  <2>1. s \in Seq(DOMAIN ops) /\ s \in Seq(DOMAIN ops')
    BY DEF SlotsTyped
  <2>2. /\ Append(s, o) \in Seq(DOMAIN ops')
        /\ Len(Append(s, o)) = Len(s) + 1
        /\ \A i \in 1..Len(s) : Append(s, o)[i] = s[i]
        /\ Append(s, o)[Len(s) + 1] = o
    BY <2>1
  <2>3. /\ DOMAIN slots' = Wheels
        /\ \A m \in Wheels : DOMAIN slots'[m] = Positions(m)
        /\ slots'[l][k] = Append(s, o)
        /\ \A m \in Wheels : \A p \in Positions(m) :
             ~(m = l /\ p = k) => slots'[m][p] = slots[m][p]
    BY <1>2 DEF SlotsTyped
  <2>4. SlotsTyped'
    <3>1. ASSUME NEW m \in Wheels, NEW p \in Positions(m)
          PROVE  slots'[m][p] \in Seq(DOMAIN ops')
      <4>1. slots[m][p] \in Seq(DOMAIN ops')
        BY DEF SlotsTyped
      <4>2. QED
        BY <2>2, <2>3, <4>1
    <3>2. QED
      BY <2>3, <3>1 DEF SlotsTyped
  <2>5. ASSUME NEW x, NEW m, NEW p, NEW i, Found(x, m, p, i)'
        PROVE  Found(x, m, p, i) \/ (x = o /\ m = l /\ p = k /\ i = Len(s) + 1)
    <3>1. /\ m \in Wheels /\ p \in Positions(m)
          /\ i \in 1..Len(slots'[m][p]) /\ slots'[m][p][i] = x
      BY <2>5 DEF Found, Wheels, Positions
    <3>2. CASE m = l /\ p = k
      <4>1. i \in 1..(Len(s) + 1) /\ Append(s, o)[i] = x
        BY <2>2, <2>3, <3>1, <3>2
      <4>2. CASE i = Len(s) + 1
        BY <2>2, <3>2, <4>1, <4>2
      <4>3. CASE i \in 1..Len(s)
        BY <2>2, <3>1, <3>2, <4>1, <4>3 DEF Found
      <4>4. QED
        BY <2>1, <4>1, <4>2, <4>3
    <3>3. CASE ~(m = l /\ p = k)
      BY <2>3, <3>1, <3>3 DEF Found
    <3>4. QED
      BY <3>2, <3>3
  <2> DEFINE last == Len(s) + 1
  <2>6. NewAt(l, k, last)
    BY <2>5, Zenon
  <2> HIDE DEF last, NewAt
  <2>7. QED
    BY <2>4, <2>6, Zenon
<1>3. ASSUME NEW l, NEW k, ~(l \in Wheels /\ k \in Positions(l)),
             slots' = [slots EXCEPT ![l][k] = Append(@, o)]
      PROVE  /\ SlotsTyped'
             /\ \A x, m, p, i : Found(x, m, p, i)' => Found(x, m, p, i)
  <2>1. /\ DOMAIN slots' = Wheels
        /\ \A m \in Wheels : DOMAIN slots'[m] = Positions(m)
        /\ \A m \in Wheels : \A p \in Positions(m) : slots'[m][p] = slots[m][p]
    BY <1>3 DEF SlotsTyped
  <2>2. SlotsTyped'
    <3>1. ASSUME NEW m \in Wheels, NEW p \in Positions(m)
          PROVE  slots'[m][p] \in Seq(DOMAIN ops')
      <4>1. slots[m][p] \in Seq(DOMAIN ops')
        BY DEF SlotsTyped
      <4>2. QED
        BY <2>1, <4>1
    <3>2. QED
      BY <2>1, <3>1 DEF SlotsTyped
  <2>3. QED
    BY <2>1, <2>2 DEF Found, Wheels, Positions
<1>4. SlotsTyped' /\ \E l, k, n : NewAt(l, k, n)
  <2>1. \/ slots' = slots
        \/ \E l, k : slots' = [slots EXCEPT ![l][k] = Append(@, o)]
    BY DEF Place
  <2>2. CASE slots' = slots
    BY <1>1, <2>2
  <2>3. CASE \E l, k : slots' = [slots EXCEPT ![l][k] = Append(@, o)]
    <3>1. PICK l, k : slots' = [slots EXCEPT ![l][k] = Append(@, o)]
      BY <2>3
    <3>2. CASE l \in Wheels /\ k \in Positions(l)
      <4> HIDE DEF NewAt
      <4>1. SlotsTyped' /\ \E n : NewAt(l, k, n)
        BY <1>2, <3>1, <3>2
      <4>2. QED
        BY <4>1, Zenon
    <3>3. CASE ~(l \in Wheels /\ k \in Positions(l))
      BY <1>3, <3>1, <3>3
    <3>4. QED
      BY <3>2, <3>3
  <2>4. QED
    BY <2>1, <2>2, <2>3
<1>5. QED
  BY <1>4

-----------------------------------------------------------------------------
(* Flight.  Until something is cancelled, an operation waits at one place,  *)
(* or one goroutine has it, or it is gone.                                  *)

Waiting(o) == \E l, k, n : Found(o, l, k, n)

FlightTyped ==
    /\ now \in Nat /\ nextOpID \in Nat
    /\ DOMAIN ops \subseteq OpIDs \cap 0..(nextOpID - 1)
    /\ \A o \in DOMAIN ops : ops[o] \in Operation
    /\ running \in [OpIDs -> Nat] /\ finishing \in [OpIDs -> Nat]
    /\ started \in [OpIDs -> Nat]
    /\ currentSlot \in [Wheels -> Nat]

AtOnePlace ==
    \A o, l, k, n, m, p, i :
        Found(o, l, k, n) /\ Found(o, m, p, i) => l = m /\ k = p /\ n = i

\* What the goroutines of an operation, its place and its times say of each
\* other: after n runs the next one is due n + 1 intervals after the creation,
\* or n if the n-th is not placed again yet.
OneFlight(o) ==
    LET spent == started[o] * ops[o].Interval + ops[o].Created IN
    /\ running[o] + finishing[o] <= 1
    /\ Waiting(o) => running[o] = 0 /\ finishing[o] = 0
    /\ ops[o].Type = "once" =>
          started[o] <= 1 /\ (Waiting(o) => started[o] = 0)
    /\ ops[o].Type = "repeating" =>
          /\ spent <= now
          /\ spent <= ops[o].NextRun
          /\ running[o] = 0 /\ finishing[o] = 0 =>
                spent + ops[o].Interval <= ops[o].NextRun

Unborn(o) == running[o] = 0 /\ finishing[o] = 0 /\ started[o] = 0

FlightInv ==
    /\ SlotsTyped /\ FlightTyped /\ AtOnePlace
    /\ \A o \in OpIDs \ DOMAIN ops : Unborn(o)
    /\ \A o \in DOMAIN ops : OneFlight(o)

\* The operations a tick finds are there once.
LEMMA TickRunsOnce ==
    ASSUME SlotsTyped, FlightTyped, AtOnePlace, NEW o
    PROVE  /\ RunsOf(o) \in {0, 1}
           /\ RunsOf(o) = 1 =>
                /\ o \in DOMAIN ops /\ ops[o].NextRun < now
                /\ \E l \in Advanced : \E n : Found(o, l, NextSlot(l), n)
<1>1. \A e : e \in Reached(o) <=>
          \E l \in Advanced : \E n : e = <<l, n>> /\ Found(o, l, NextSlot(l), n)
  <2>1. ASSUME NEW l \in Wheels PROVE NextSlot(l) \in Positions(l)
    <3>1. currentSlot[l] \in Nat /\ SlotCount[l] \in Nat \ {0}
      BY WheelAssumption DEF FlightTyped, Wheels
    <3>2. QED
      BY <3>1 DEF NextSlot, Positions
  <2>2. Advanced \subseteq Wheels
    BY DEF Advanced
  <2>3. ASSUME NEW l \in Advanced, NEW n
        PROVE  Found(o, l, NextSlot(l), n) <=>
                 n \in {m \in DOMAIN slots[l][NextSlot(l)] :
                          slots[l][NextSlot(l)][m] = o}
    <3>1. slots[l][NextSlot(l)] \in Seq(DOMAIN ops)
      BY <2>1, <2>2 DEF SlotsTyped
    <3>2. DOMAIN slots[l][NextSlot(l)] = 1..Len(slots[l][NextSlot(l)])
      BY <3>1
    <3>3. QED
      BY <2>1, <2>2, <3>2 DEF Found
  <2> HIDE DEF Found
  <2>4. QED
    BY <2>3 DEF Reached
<1>2. CASE Reached(o) = {}
  BY <1>2, FS_EmptySet DEF RunsOf
<1>3. CASE Reached(o) # {}
  <2>1. PICK l, n : l \in Advanced /\ <<l, n>> \in Reached(o) /\ Found(o, l, NextSlot(l), n)
    BY <1>1, <1>3
  <2>2. Reached(o) = {<<l, n>>}
    <3>1. ASSUME NEW m \in Advanced, NEW i, Found(o, m, NextSlot(m), i)
          PROVE  <<m, i>> = <<l, n>>
      BY <2>1, <3>1 DEF AtOnePlace
    <3>2. QED
      BY <1>1, <2>1, <3>1
  <2>3. Cardinality(Reached(o)) = 1
    BY <2>2, FS_Singleton
  <2>4. QED
    BY <2>1, <2>3 DEF RunsOf, Due
<1>4. QED
  BY <1>2, <1>3

LEMMA TickKeepsFlight == FlightInv /\ Tick => FlightInv'
<1> SUFFICES ASSUME FlightInv, Tick PROVE FlightInv'
  OBVIOUS
<1>1. /\ UNCHANGED <<now, nextOpID, ops, finishing>>
      /\ \A o \in OpIDs : /\ running'[o] = running[o] + RunsOf(o)
                          /\ started'[o] = started[o] + RunsOf(o)
  BY DEF Tick, table
<1>2. \A o : /\ RunsOf(o) \in {0, 1}
             /\ RunsOf(o) = 1 =>
                  /\ o \in DOMAIN ops /\ ops[o].NextRun < now
                  /\ \E l \in Advanced : \E n : Found(o, l, NextSlot(l), n)
  BY TickRunsOnce DEF FlightInv
<1>3. /\ SlotsTyped'
      /\ \A o, l, k, n : Found(o, l, k, n)' =>
           Found(o, l, k, n) /\ ~(l \in Advanced /\ k = NextSlot(l))
  <2>1. /\ DOMAIN slots' = Wheels
        /\ \A l \in Wheels : DOMAIN slots'[l] = Positions(l)
        /\ \A l \in Wheels : \A k \in Positions(l) :
             slots'[l][k] = IF l \in Advanced /\ k = NextSlot(l)
                            THEN <<>> ELSE slots[l][k]
    BY DEF Tick, FlightInv, SlotsTyped
  <2>2. SlotsTyped'
    <3>1. ASSUME NEW l \in Wheels, NEW k \in Positions(l)
          PROVE  slots'[l][k] \in Seq(DOMAIN ops')
      <4>1. slots[l][k] \in Seq(DOMAIN ops) /\ <<>> \in Seq(DOMAIN ops)
        BY DEF FlightInv, SlotsTyped
      <4>2. QED
        BY <1>1, <2>1, <4>1
    <3>2. QED
      BY <2>1, <3>1 DEF SlotsTyped
  <2>3. ASSUME NEW o, NEW l, NEW k, NEW n, Found(o, l, k, n)'
        PROVE  Found(o, l, k, n) /\ ~(l \in Advanced /\ k = NextSlot(l))
    <3>1. /\ l \in Wheels /\ k \in Positions(l)
          /\ n \in 1..Len(slots'[l][k]) /\ slots'[l][k][n] = o
      BY <2>3 DEF Found, Wheels, Positions
    <3>2. Len(<<>>) = 0
      OBVIOUS
    <3>3. ~(l \in Advanced /\ k = NextSlot(l))
      BY <2>1, <3>1, <3>2
    <3>4. QED
      BY <2>1, <3>1, <3>3 DEF Found
  <2>4. QED
    BY <2>2, <2>3
<1>4. FlightTyped'
  <2>1. /\ running' \in [OpIDs -> Nat] /\ started' \in [OpIDs -> Nat]
    <3>1. \A o \in OpIDs : running[o] + RunsOf(o) \in Nat /\ started[o] + RunsOf(o) \in Nat
      BY <1>2 DEF FlightInv, FlightTyped
    <3>2. QED
      BY <3>1 DEF Tick
  <2>2. currentSlot' \in [Wheels -> Nat]
    <3>1. ASSUME NEW l \in Wheels PROVE NextSlot(l) \in Nat
      <4>1. currentSlot[l] \in Nat /\ SlotCount[l] \in Nat \ {0}
        BY WheelAssumption DEF FlightInv, FlightTyped, Wheels
      <4>2. QED
        BY <4>1 DEF NextSlot
    <3>2. QED
      BY <3>1 DEF Tick, FlightInv, FlightTyped
  <2>3. QED
    BY <1>1, <2>1, <2>2 DEF FlightInv, FlightTyped, OpIDs, Operation
<1>5. AtOnePlace'
  BY <1>3 DEF AtOnePlace, FlightInv
<1>6. ASSUME NEW o \in OpIDs \ DOMAIN ops PROVE Unborn(o)'
  BY <1>1, <1>2 DEF FlightInv, FlightTyped, Unborn
<1>7. ASSUME NEW o \in DOMAIN ops PROVE OneFlight(o)'
  <2>1. /\ o \in OpIDs /\ ops[o] \in Operation /\ now \in Nat
        /\ running[o] \in Nat /\ finishing[o] \in Nat /\ started[o] \in Nat
    BY DEF FlightInv, FlightTyped
  <2>2. OneFlight(o)
    BY DEF FlightInv
  <2>3. Waiting(o)' => Waiting(o)
    BY <1>3 DEF Waiting
  <2>4. CASE RunsOf(o) = 0
    <3>1. running'[o] = running[o] /\ started'[o] = started[o]
      BY <1>1, <2>1, <2>4
    <3> HIDE DEF Waiting
    <3>2. QED
      BY <1>1, <2>2, <2>3, <3>1 DEF OneFlight
  <2>5. CASE RunsOf(o) = 1
    <3>1. /\ running'[o] = running[o] + 1 /\ started'[o] = started[o] + 1
          /\ ops[o].NextRun < now
      BY <1>1, <1>2, <2>1, <2>5
    <3>2. PICK l, n : l \in Advanced /\ Found(o, l, NextSlot(l), n)
      BY <1>2, <2>5
    <3>3. Waiting(o)
      BY <3>2 DEF Waiting
    <3>4. ~Waiting(o)'
      <4>1. ASSUME NEW m, NEW p, NEW i, Found(o, m, p, i)' PROVE FALSE
        BY <1>3, <3>2, <4>1 DEF FlightInv, AtOnePlace
      <4>2. QED
        BY <4>1 DEF Waiting
    <3> HIDE DEF Waiting
    <3>5. running[o] = 0 /\ finishing[o] = 0
      BY <2>2, <3>3 DEF OneFlight
    <3>6. ops[o].Type = "once" => started'[o] = 1
      BY <2>1, <2>2, <3>1, <3>3 DEF OneFlight
    <3>7. ASSUME ops[o].Type = "repeating"
          PROVE  started'[o] * ops[o].Interval + ops[o].Created <= ops[o].NextRun
      <4> DEFINE I == ops[o].Interval
                 C == ops[o].Created
                 S == started[o]
      <4>1. I \in Nat /\ C \in Int /\ S \in Nat /\ ops[o].NextRun \in Int
        BY <2>1 DEF Operation
      <4>2. S * I + C + I <= ops[o].NextRun
        BY <2>2, <3>5, <3>7 DEF OneFlight
      <4> HIDE DEF I, C, S
      <4>3. (S + 1) * I = S * I + I
        BY <4>1
      <4>4. (S + 1) * I + C <= ops[o].NextRun
        BY <4>1, <4>2, <4>3
      <4>5. QED
        BY <3>1, <4>4 DEF I, C, S
    <3>8. ops[o].Type = "repeating" =>
            started'[o] * ops[o].Interval + ops[o].Created <= now
      <4>1. ops[o].NextRun \in Int /\ ops[o].Created \in Int
            /\ ops[o].Interval \in Nat /\ started'[o] \in Nat
        BY <2>1, <3>1 DEF Operation
      <4>2. QED
        BY <2>1, <3>1, <3>7, <4>1
    <3>9. QED
      BY <1>1, <2>1, <3>1, <3>4, <3>5, <3>6, <3>7, <3>8 DEF OneFlight
  <2>6. QED
    BY <1>2, <2>4, <2>5
<1>8. QED
  BY <1>1, <1>3, <1>4, <1>5, <1>6, <1>7 DEF FlightInv

\* Placing an operation that no slot holds and no goroutine has.
LEMMA PlaceKeepsPlaces ==
    ASSUME SlotsTyped, AtOnePlace, DOMAIN ops \subseteq DOMAIN ops',
           NEW o \in DOMAIN ops', NEW r, Place(o, r), ~Waiting(o)
    PROVE  /\ SlotsTyped' /\ AtOnePlace'
           /\ \A x : x # o /\ Waiting(x)' => Waiting(x)
<1>1. SlotsTyped'
  BY FoundAfterPlace
<1>2. PICK l, k, n : \A x, m, p, i :
          Found(x, m, p, i)' =>
              Found(x, m, p, i) \/ (x = o /\ m = l /\ p = k /\ i = n)
  BY FoundAfterPlace, Zenon
<1>3. \A m, p, i : ~Found(o, m, p, i)
  BY DEF Waiting
<1>4. AtOnePlace'
  BY <1>2, <1>3 DEF AtOnePlace
<1>5. \A x : x # o /\ Waiting(x)' => Waiting(x)
  BY <1>2 DEF Waiting
<1>6. QED
  BY <1>1, <1>4, <1>5

LEMMA ScheduleKeepsFlight ==
    ASSUME NEW type \in {"once", "repeating", "cron"}, NEW d \in Int,
           NEW i \in Nat, NEW j \in Nat, type # "repeating" => i = 0,
           FlightInv, ScheduleOperation(type, d, i, j)
    PROVE  FlightInv'
<1> DEFINE o == nextOpID
           nextRun == FirstRun(type, d, i) + j
<1>1. /\ nextOpID \in Nat /\ now \in Nat /\ CronStep \in Nat
      /\ nextOpID < MaxOps /\ MaxOps \in Nat
  BY BoundsAssumption DEF FlightInv, FlightTyped, ScheduleOperation
<1>2. o \in OpIDs /\ o \notin DOMAIN ops /\ ~Waiting(o)
  <2>1. o \in OpIDs /\ o \notin DOMAIN ops
    BY <1>1 DEF OpIDs, FlightInv, FlightTyped
  <2>2. ASSUME NEW l, NEW k, NEW n, Found(o, l, k, n) PROVE FALSE
    <3>1. slots[l][k] \in Seq(DOMAIN ops)
      BY <2>2 DEF Found, FlightInv, SlotsTyped
    <3>2. QED
      BY <2>1, <2>2, <3>1 DEF Found
  <2>3. QED
    BY <2>1, <2>2 DEF Waiting
<1>3. /\ DOMAIN ops' = DOMAIN ops \cup {o}
      /\ \A x \in DOMAIN ops : x # o => ops'[x] = ops[x]
      /\ ops'[o] = [Type |-> type, NextRun |-> nextRun, Created |-> now,
                    Interval |-> i, RunCount |-> 0]
      /\ UNCHANGED <<now, currentSlot, running, finishing, started>>
      /\ nextOpID' = nextOpID + 1
      /\ Place(o, nextRun)
  BY DEF ScheduleOperation, flight
<1>4. nextRun \in Int /\ (type = "repeating" => now + i <= nextRun)
  BY <1>1 DEF FirstRun
<1>5. ops'[o] \in Operation
  BY <1>1, <1>3, <1>4 DEF Operation
<1>6. /\ SlotsTyped' /\ AtOnePlace'
      /\ \A x : x # o /\ Waiting(x)' => Waiting(x)
  BY <1>2, <1>3, PlaceKeepsPlaces DEF FlightInv
<1>7. FlightTyped'
  <2>1. DOMAIN ops' \subseteq OpIDs \cap 0..(nextOpID' - 1)
    BY <1>1, <1>2, <1>3 DEF FlightInv, FlightTyped, OpIDs
  <2>2. \A x \in DOMAIN ops' : ops'[x] \in Operation
    BY <1>2, <1>3, <1>5 DEF FlightInv, FlightTyped
  <2>3. QED
    BY <1>1, <1>3, <2>1, <2>2 DEF FlightInv, FlightTyped, OpIDs, Operation
<1>8. ASSUME NEW x \in OpIDs \ DOMAIN ops' PROVE Unborn(x)'
  BY <1>3 DEF FlightInv, Unborn
<1>9. ASSUME NEW x \in DOMAIN ops' PROVE OneFlight(x)'
  <2>1. CASE x = o
    <3>1. running'[x] = 0 /\ finishing'[x] = 0 /\ started'[x] = 0
      BY <1>2, <1>3, <2>1 DEF FlightInv, Unborn
    <3>2. /\ ops'[x].Type = type /\ ops'[x].NextRun = nextRun
          /\ ops'[x].Created = now /\ ops'[x].Interval = i
      BY <1>3, <2>1
    <3>3. started'[x] * ops'[x].Interval + ops'[x].Created = now
      BY <1>1, <3>1, <3>2
    <3> HIDE DEF nextRun
    <3>4. QED
      BY <1>1, <1>3, <1>4, <3>1, <3>2, <3>3 DEF OneFlight
  <2>2. CASE x # o
    <3>1. x \in DOMAIN ops /\ ops'[x] = ops[x] /\ OneFlight(x)
      BY <1>3, <2>2 DEF FlightInv
    <3>2. Waiting(x)' => Waiting(x)
      BY <1>6, <2>2
    <3> HIDE DEF Waiting
    <3>3. QED
      BY <1>3, <3>1, <3>2 DEF OneFlight
  <2>3. QED
    BY <2>1, <2>2
<1>10. QED
  BY <1>6, <1>7, <1>8, <1>9 DEF FlightInv

LEMMA DoneKeepsFlight ==
    ASSUME NEW o \in OpIDs, FlightInv, OperationDone(o)
    PROVE  FlightInv'
<1> DEFINE step == IF ops[o].Type = "cron" THEN CronStep ELSE ops[o].Interval
           nextRun == ops[o].NextRun + step
<1>1. finishing[o] > 0 /\ o \in DOMAIN ops /\ ops[o] \in Operation
  BY DEF FlightInv, FlightTyped, Unborn, OperationDone
<1>2. /\ running[o] = 0 /\ finishing[o] = 1 /\ started[o] \in Nat
      /\ ~Waiting(o) /\ now \in Nat /\ OneFlight(o)
  BY <1>1 DEF FlightInv, FlightTyped, OneFlight
<1>3. /\ UNCHANGED <<now, currentSlot, nextOpID, running, started>>
      /\ finishing' = [finishing EXCEPT ![o] = 0]
  BY <1>2 DEF OperationDone
<1>4. /\ DOMAIN ops' = DOMAIN ops
      /\ \A x \in DOMAIN ops : x # o => ops'[x] = ops[x]
      /\ ops'[o] \in Operation
      /\ ops'[o].Type = ops[o].Type /\ ops'[o].Created = ops[o].Created
      /\ ops'[o].Interval = ops[o].Interval
      /\ ops[o].Type = "repeating" => ops'[o].NextRun = ops[o].NextRun + ops[o].Interval
  <2>1. CronStep \in Nat
    BY BoundsAssumption
  <2>2. CASE ops[o].Type \in {"repeating", "cron"}
    <3>1. ops' = [ops EXCEPT ![o].RunCount = @ + 1, ![o].NextRun = nextRun]
      BY <2>2 DEF OperationDone
    <3>2. nextRun \in Int
      BY <1>1, <2>1 DEF Operation
    <3>3. ops[o].Type = "repeating" => nextRun = ops[o].NextRun + ops[o].Interval
      OBVIOUS
    <3> HIDE DEF nextRun
    <3>4. /\ DOMAIN ops' = DOMAIN ops
          /\ \A x \in DOMAIN ops : x # o => ops'[x] = ops[x]
          /\ ops'[o] = [ops[o] EXCEPT !.RunCount = @ + 1, !.NextRun = nextRun]
      BY <1>1, <3>1
    <3>5. ops'[o] = [Type |-> ops[o].Type, NextRun |-> nextRun,
                     Created |-> ops[o].Created, Interval |-> ops[o].Interval,
                     RunCount |-> ops[o].RunCount + 1]
      BY <1>1, <3>4 DEF Operation
    <3>6. QED
      BY <1>1, <3>2, <3>3, <3>4, <3>5 DEF Operation
  <2>3. CASE ops[o].Type \notin {"repeating", "cron"}
    <3>1. ops' = [ops EXCEPT ![o].RunCount = @ + 1]
      BY <2>3 DEF OperationDone
    <3>2. QED
      BY <1>1, <2>3, <3>1 DEF Operation
  <2>4. QED
    BY <2>2, <2>3
<1>5. /\ SlotsTyped' /\ AtOnePlace'
      /\ \A x : x # o /\ Waiting(x)' => Waiting(x)
      /\ ops[o].Type = "once" => ~Waiting(o)'
  <2>1. CASE ops[o].Type \in {"repeating", "cron"}
    <3>1. Place(o, nextRun)
      BY <2>1 DEF OperationDone
    <3> HIDE DEF nextRun, Waiting
    <3>2. QED
      BY <1>1, <1>2, <1>4, <2>1, <3>1, PlaceKeepsPlaces DEF FlightInv
  <2>2. CASE ops[o].Type \notin {"repeating", "cron"}
    <3>1. slots' = slots
      BY <2>2 DEF OperationDone
    <3>2. SlotsTyped'
      BY <1>4, <3>1 DEF FlightInv, SlotsTyped
    <3>3. \A x, l, k, n : Found(x, l, k, n)' = Found(x, l, k, n)
      BY <3>1 DEF Found, Wheels, Positions
    <3>4. AtOnePlace'
      BY <3>3 DEF FlightInv, AtOnePlace
    <3>5. QED
      BY <1>2, <3>2, <3>3, <3>4 DEF Waiting
  <2>3. QED
    BY <2>1, <2>2
<1>6. FlightTyped'
  <2>1. \A x \in DOMAIN ops' : ops'[x] \in Operation
    BY <1>4 DEF FlightInv, FlightTyped
  <2>2. finishing' \in [OpIDs -> Nat]
    BY <1>3 DEF FlightInv, FlightTyped
  <2>3. QED
    BY <1>3, <1>4, <2>1, <2>2 DEF FlightInv, FlightTyped, OpIDs, Operation
<1>7. ASSUME NEW x \in OpIDs \ DOMAIN ops' PROVE Unborn(x)'
  BY <1>1, <1>3, <1>4 DEF FlightInv, FlightTyped, Unborn
<1>8. ASSUME NEW x \in DOMAIN ops' PROVE OneFlight(x)'
  <2>1. CASE x = o
    <3>1. running'[x] = 0 /\ finishing'[x] = 0 /\ started'[x] = started[x]
      BY <1>2, <1>3, <2>1 DEF FlightInv, FlightTyped
    <3>2. ASSUME ops[o].Type = "repeating"
          PROVE  LET spent == started[o] * ops[o].Interval + ops[o].Created IN
                 spent <= now /\ spent + ops[o].Interval <= ops'[o].NextRun
                              /\ spent <= ops'[o].NextRun
      <4> DEFINE I == ops[o].Interval
                 N == ops[o].NextRun
                 P == started[o] * I
                 S == P + ops[o].Created
      <4>1. I \in Nat /\ N \in Int /\ ops[o].Created \in Int
        BY <1>1 DEF Operation
      <4>2. P \in Int
        BY <1>2, <4>1
      <4>3. S \in Int
        BY <4>1, <4>2
      <4>4. S <= now /\ S <= N
        BY <1>2, <3>2 DEF OneFlight
      <4>5. ops'[o].NextRun = N + I
        BY <1>4, <3>2
      <4> HIDE DEF I, N, P, S
      <4>6. S <= now /\ S + I <= ops'[o].NextRun /\ S <= ops'[o].NextRun
        BY <4>1, <4>3, <4>4, <4>5
      <4>7. QED
        BY <4>6 DEF I, P, S
    <3> HIDE DEF Waiting
    <3>3. ops[o].Type = "once" => started[o] <= 1
      BY <1>2 DEF OneFlight
    <3>4. QED
      BY <1>3, <1>4, <1>5, <2>1, <3>1, <3>2, <3>3 DEF OneFlight
  <2>2. CASE x # o
    <3>1. x \in DOMAIN ops /\ ops'[x] = ops[x] /\ OneFlight(x)
      BY <1>4, <2>2 DEF FlightInv
    <3>2. Waiting(x)' => Waiting(x)
      BY <1>5, <2>2
    <3>3. finishing'[x] = finishing[x]
      BY <1>3, <2>2, <3>1 DEF FlightInv, FlightTyped
    <3> HIDE DEF Waiting
    <3>4. QED
      BY <1>3, <3>1, <3>2, <3>3 DEF OneFlight
  <2>3. QED
    BY <2>1, <2>2
<1>9. QED
  BY <1>5, <1>6, <1>7, <1>8 DEF FlightInv

\* What a step that moves no operation keeps.
LEMMA FlightStays ==
    ASSUME FlightInv, UNCHANGED <<slots, currentSlot, ops, started>>,
           now' \in Nat, now <= now', nextOpID' \in Nat, nextOpID <= nextOpID',
           running' \in [OpIDs -> Nat], finishing' \in [OpIDs -> Nat],
           \A x \in OpIDs : running'[x] + finishing'[x] = running[x] + finishing[x]
    PROVE  FlightInv'
<1>1. SlotsTyped' /\ AtOnePlace' /\ (\A x : Waiting(x)' = Waiting(x))
  <2>1. \A x, l, k, n : Found(x, l, k, n)' = Found(x, l, k, n)
    BY DEF Found, Wheels, Positions
  <2>2. SlotsTyped'
    BY DEF FlightInv, SlotsTyped
  <2>3. AtOnePlace' /\ \A x : Waiting(x)' = Waiting(x)
    BY <2>1 DEF FlightInv, AtOnePlace, Waiting
  <2>4. QED
    BY <2>2, <2>3
<1>2. \A x \in OpIDs : running[x] \in Nat /\ finishing[x] \in Nat
                       /\ running'[x] \in Nat /\ finishing'[x] \in Nat
  BY DEF FlightInv, FlightTyped
<1>3. FlightTyped'
  <2>1. DOMAIN ops \subseteq OpIDs \cap 0..(nextOpID' - 1)
    BY DEF FlightInv, FlightTyped
  <2>2. QED
    BY <2>1 DEF FlightInv, FlightTyped, OpIDs, Operation
<1>4. ASSUME NEW x \in OpIDs \ DOMAIN ops' PROVE Unborn(x)'
  BY <1>2 DEF FlightInv, Unborn
<1>5. ASSUME NEW x \in DOMAIN ops' PROVE OneFlight(x)'
  <2>1. x \in OpIDs /\ ops[x] \in Operation /\ started[x] \in Nat /\ now \in Nat
    BY DEF FlightInv, FlightTyped
  <2>2. OneFlight(x) /\ Waiting(x)' = Waiting(x)
    BY <1>1 DEF FlightInv
  <2>3. /\ running'[x] + finishing'[x] = running[x] + finishing[x]
        /\ running'[x] = 0 /\ finishing'[x] = 0 <=> running[x] = 0 /\ finishing[x] = 0
    BY <1>2, <2>1
  <2> DEFINE spent == started[x] * ops[x].Interval + ops[x].Created
  <2>4. spent \in Int
    BY <2>1 DEF Operation
  <2>5. spent <= now => spent <= now'
    BY <2>1, <2>4
  <2> HIDE DEF Waiting
  <2>6. QED
    BY <2>2, <2>3, <2>5 DEF OneFlight
<1>6. QED
  BY <1>1, <1>3, <1>4, <1>5 DEF FlightInv

FlightUntilCancel == cancelled = {} => FlightInv

LEMMA NextKeepsFlight == FlightUntilCancel /\ [Next]_vars => FlightUntilCancel'
<1> SUFFICES ASSUME FlightUntilCancel, [Next]_vars, cancelled' = {} PROVE FlightInv'
  BY DEF FlightUntilCancel
<1> USE DEF flight, life, wheel, table
<1>1. ASSUME NEW o \in OpIDs, CancelOperation(o) PROVE FALSE
  BY <1>1 DEF CancelOperation
<1>2. cancelled = {} /\ FlightInv
  <2>1. cancelled = {}
    BY <1>1 DEF Next, Schedules, Runtime, ScheduleOperation, ScheduleUnsupported,
       Clock, Tick, TickerStops, HandlerReturns, OperationDone, StopReturns, Stop, vars
  <2>2. QED
    BY <2>1 DEF FlightUntilCancel
<1>3. /\ now \in Nat /\ nextOpID \in Nat
      /\ running \in [OpIDs -> Nat] /\ finishing \in [OpIDs -> Nat]
  BY <1>2 DEF FlightInv, FlightTyped
<1>4. CASE Schedules
  <2>1. ASSUME NEW d \in Delays, NEW j \in Jitters, ScheduleOperation("once", d, 0, j)
        PROVE  FlightInv'
    BY <1>2, <2>1, CallerAssumption, ScheduleKeepsFlight
  <2>2. ASSUME NEW i \in Intervals, NEW j \in Jitters,
               ScheduleOperation("repeating", 0, i, j)
        PROVE  FlightInv'
    BY <1>2, <2>2, CallerAssumption, ScheduleKeepsFlight
  <2>3. ASSUME NEW j \in Jitters, ScheduleOperation("cron", 0, 0, j) PROVE FlightInv'
    BY <1>2, <2>3, CallerAssumption, ScheduleKeepsFlight
  <2>4. CASE ScheduleUnsupported
    BY <1>2, <1>3, <2>4, FlightStays DEF ScheduleUnsupported
  <2>5. QED
    BY <1>4, <2>1, <2>2, <2>3, <2>4 DEF Schedules
<1>5. CASE Clock
  BY <1>2, <1>3, <1>5, FlightStays DEF Clock
<1>6. CASE Tick
  BY <1>2, <1>6, TickKeepsFlight
<1>7. CASE TickerStops
  BY <1>2, <1>3, <1>7, FlightStays DEF TickerStops
<1>8. ASSUME NEW o \in OpIDs, HandlerReturns(o) PROVE FlightInv'
  <2>1. /\ running' = [running EXCEPT ![o] = @ - 1]
        /\ finishing' = [finishing EXCEPT ![o] = @ + 1]
        /\ running[o] > 0
        /\ UNCHANGED <<now, slots, currentSlot, ops, nextOpID, started>>
    BY <1>8 DEF HandlerReturns
  <2>2. running[o] - 1 \in Nat /\ finishing[o] + 1 \in Nat
    BY <1>3, <2>1
  <2>3. running' \in [OpIDs -> Nat] /\ finishing' \in [OpIDs -> Nat]
    BY <1>3, <2>1, <2>2
  <2>4. \A x \in OpIDs : running'[x] + finishing'[x] = running[x] + finishing[x]
    BY <1>3, <2>1
  <2>5. QED
    BY <1>2, <1>3, <2>1, <2>3, <2>4, FlightStays
<1>9. ASSUME NEW o \in OpIDs, OperationDone(o) PROVE FlightInv'
  BY <1>2, <1>9, DoneKeepsFlight
<1>10. CASE StopReturns
  BY <1>2, <1>3, <1>10, FlightStays DEF StopReturns
<1>11. CASE Stop
  BY <1>2, <1>3, <1>11, FlightStays DEF Stop
<1>12. CASE UNCHANGED vars
  BY <1>2, <1>3, <1>12, FlightStays DEF vars
<1>13. QED
  BY <1>1, <1>4, <1>5, <1>6, <1>7, <1>8, <1>9, <1>10, <1>11, <1>12 DEF Next, Runtime

LEMMA InitFlight == Init => FlightInv
<1> SUFFICES ASSUME Init PROVE FlightInv
  OBVIOUS
<1>1. /\ SlotsTyped
      /\ \A o, l, k, n : ~Found(o, l, k, n)
  <2>1. /\ DOMAIN slots = Wheels
        /\ \A l \in Wheels : DOMAIN slots[l] = Positions(l)
        /\ \A l \in Wheels : \A k \in Positions(l) : slots[l][k] = <<>>
    BY DEF Init
  <2>2. <<>> \in Seq(DOMAIN ops) /\ Len(<<>>) = 0
    OBVIOUS
  <2>3. SlotsTyped
    <3>1. ASSUME NEW l \in Wheels, NEW k \in Positions(l)
          PROVE  slots[l][k] \in Seq(DOMAIN ops)
      BY <2>1, <2>2
    <3>2. QED
      BY <2>1, <3>1 DEF SlotsTyped
  <2>4. ASSUME NEW o, NEW l, NEW k, NEW n, Found(o, l, k, n) PROVE FALSE
    <3>1. Len(slots[l][k]) = 0 /\ n \in 1..Len(slots[l][k])
      BY <2>1, <2>2, <2>4 DEF Found
    <3>2. QED
      BY <3>1
  <2>5. QED
    BY <2>3, <2>4
<1>2. DOMAIN ops = {}
  BY DEF Init
<1>3. FlightTyped
  BY <1>2 DEF Init, FlightTyped
<1>4. AtOnePlace
  BY <1>1 DEF AtOnePlace
<1>5. \A o \in OpIDs : Unborn(o)
  BY DEF Init, Unborn
<1>6. QED
  BY <1>1, <1>2, <1>3, <1>4, <1>5 DEF FlightInv

LEMMA SpecFlight == Spec => []FlightUntilCancel
<1>1. Init => FlightUntilCancel
  BY InitFlight DEF FlightUntilCancel
<1>2. QED
  BY <1>1, NextKeepsFlight, PTL DEF Spec

\* Until something is cancelled no run of an operation overlaps another one,
\* and a one-time operation runs once: it is in one slot of one wheel, or in
\* one goroutine, or neither.
THEOREM OneGoroutineEach == Spec => []SingleFlight
<1>1. FlightInv => \A o \in DOMAIN ops :
          /\ Cardinality(Places(o)) + running[o] + finishing[o] <= 1
          /\ ops[o].Type = "once" => started[o] <= 1
  <2> SUFFICES ASSUME FlightInv, NEW o \in DOMAIN ops
               PROVE  /\ Cardinality(Places(o)) + running[o] + finishing[o] <= 1
                      /\ ops[o].Type = "once" => started[o] <= 1
    OBVIOUS
  <2>1. OneFlight(o) /\ running[o] \in Nat /\ finishing[o] \in Nat
    BY DEF FlightInv, FlightTyped
  <2>2. \A e : e \in Places(o) <=> \E l, k, n : e = <<l, k, n>> /\ Found(o, l, k, n)
    <3>1. ASSUME NEW l \in Wheels, NEW k \in Positions(l), NEW n
          PROVE  Found(o, l, k, n) <=> n \in {m \in DOMAIN slots[l][k] : slots[l][k][m] = o}
      <4>1. DOMAIN slots[l][k] = 1..Len(slots[l][k])
        BY DEF FlightInv, SlotsTyped
      <4>2. QED
        BY <4>1 DEF Found
    <3>2. \A l, k, n : Found(o, l, k, n) => l \in Wheels /\ k \in Positions(l)
      BY DEF Found
    <3> HIDE DEF Found
    <3>3. QED
      BY <3>1, <3>2 DEF Places
  <2>3. CASE Places(o) = {}
    BY <2>1, <2>3, FS_EmptySet DEF OneFlight
  <2>4. CASE Places(o) # {}
    <3>1. PICK l, k, n : Found(o, l, k, n)
      BY <2>2, <2>4
    <3>2. Places(o) = {<<l, k, n>>}
      BY <2>2, <3>1 DEF FlightInv, AtOnePlace
    <3>3. Cardinality(Places(o)) = 1
      BY <3>2, FS_Singleton
    <3>4. Waiting(o)
      BY <3>1 DEF Waiting
    <3> HIDE DEF Waiting
    <3>5. QED
      BY <2>1, <3>3, <3>4 DEF OneFlight
  <2>5. QED
    BY <2>3, <2>4
<1>2. FlightUntilCancel => SingleFlight
  BY <1>1 DEF FlightUntilCancel, SingleFlight
<1>3. QED
  BY <1>2, SpecFlight, PTL

\* A repeating operation never runs faster than its interval: its n-th run
\* begins n intervals after its creation or later.
THEOREM IntervalIsKept == Spec => []RunsKeepInterval
<1>1. FlightInv => \A o \in DOMAIN ops :
          ops[o].Type = "repeating"
              => started[o] * ops[o].Interval <= now - ops[o].Created
  <2> SUFFICES ASSUME FlightInv, NEW o \in DOMAIN ops, ops[o].Type = "repeating"
               PROVE  started[o] * ops[o].Interval <= now - ops[o].Created
    OBVIOUS
  <2> DEFINE spent == started[o] * ops[o].Interval
  <2>1. /\ ops[o].Created \in Int /\ now \in Nat
        /\ started[o] \in Nat /\ ops[o].Interval \in Nat
    BY DEF FlightInv, FlightTyped, Operation
  <2>2. spent \in Int
    BY <2>1
  <2>3. spent + ops[o].Created <= now
    BY DEF FlightInv, OneFlight
  <2> HIDE DEF spent
  <2>4. spent <= now - ops[o].Created
    BY <2>1, <2>2, <2>3
  <2>5. QED
    BY <2>4 DEF spent
<1>2. FlightUntilCancel => RunsKeepInterval
  BY <1>1 DEF FlightUntilCancel, RunsKeepInterval
<1>3. QED
  BY <1>2, SpecFlight, PTL

-----------------------------------------------------------------------------
(* Wheels: the recursive function SizeOf, and the wheel and slot of a delay. *)

LEMMA WheelSizes ==
    /\ SizeOf \in [Wheels -> Nat]
    /\ \A l \in Wheels : SizeOf[l] >= SlotSize
<1> DEFINE next(F, l) == IF l = 1 THEN SlotSize ELSE F[l - 1] * SlotCount[l - 1]
           upTo(n) == \E F \in [1..n -> Nat] :
                          \A l \in 1..n : F[l] = next(F, l) /\ F[l] >= SlotSize
           N == {n \in Nat : n <= Levels => upTo(n)}
<1>1. /\ Levels \in Nat \ {0} /\ SlotSize \in Nat
      /\ \A l \in 1..Levels : SlotCount[l] \in Nat \ {0}
  BY WheelAssumption
<1>2. 0 \in N
  <2> DEFINE F == [l \in 1..0 |-> 0]
  <2>1. F \in [1..0 -> Nat] /\ \A l \in 1..0 : F[l] = next(F, l) /\ F[l] >= SlotSize
    OBVIOUS
  <2> HIDE DEF F, next
  <2>2. upTo(0)
    BY <2>1
  <2>3. QED
    BY <2>2
<1>3. ASSUME NEW n \in Nat, n \in N PROVE n + 1 \in N
  <2>1. SUFFICES ASSUME n + 1 <= Levels PROVE upTo(n + 1)
    <3> HIDE DEF upTo
    <3>1. QED
      OBVIOUS
  <2>2. PICK F \in [1..n -> Nat] :
          \A l \in 1..n : F[l] = next(F, l) /\ F[l] >= SlotSize
    BY <1>1, <1>3, <2>1
  <2> DEFINE G == [l \in 1..(n + 1) |-> next(F, l)]
  <2>3. ASSUME NEW l \in 1..(n + 1) PROVE next(F, l) \in Nat /\ next(F, l) >= SlotSize
    <3>1. CASE l = 1
      BY <1>1, <3>1
    <3>2. CASE l # 1
      <4> DEFINE f == F[l - 1]
                 c == SlotCount[l - 1]
      <4>1. l - 1 \in 1..n /\ l - 1 \in 1..Levels
        BY <1>1, <2>1, <3>2
      <4>2. f \in Nat /\ f >= SlotSize /\ c \in Nat /\ c >= 1
        BY <1>1, <2>2, <4>1
      <4> HIDE DEF f, c
      <4>3. f * c \in Nat /\ f * c >= f
        BY <4>2
      <4>4. f * c \in Nat /\ f * c >= SlotSize
        BY <1>1, <4>2, <4>3
      <4>5. QED
        BY <3>2, <4>4 DEF f, c
    <3>3. QED
      BY <3>1, <3>2
  <2>4. \A l \in 1..n : G[l] = F[l]
    BY <2>2
  <2>5. G \in [1..(n + 1) -> Nat] /\ \A l \in 1..(n + 1) : G[l] = next(F, l)
    <3> HIDE DEF next
    <3>1. QED
      BY <2>3
  <2> HIDE DEF G
  <2>6. \A l \in 1..(n + 1) : next(G, l) = next(F, l)
    BY <2>4
  <2> HIDE DEF next
  <2>7. QED
    BY <2>3, <2>5, <2>6
<1>4. upTo(Levels)
  <2> HIDE DEF N
  <2>1. Levels \in N
    BY <1>1, <1>2, <1>3, Induction
  <2>2. QED
    BY <1>1, <2>1 DEF N
<1> DEFINE IsSize(F) == F = [l \in Wheels |-> next(F, l)]
<1>5. PICK F \in [Wheels -> Nat] :
        \A l \in Wheels : F[l] = next(F, l) /\ F[l] >= SlotSize
  BY <1>4 DEF Wheels
<1>6. IsSize(F)
  BY <1>5
<1>7. SizeOf = CHOOSE G : IsSize(G)
  BY DEF SizeOf
<1>8. IsSize(SizeOf)
  <2> HIDE DEF IsSize
  <2>1. QED
    BY <1>6, <1>7
<1>9. \A l \in Wheels : SizeOf[l] = F[l]
  <2> DEFINE M == {n \in Nat : n + 1 \in Wheels => SizeOf[n + 1] = F[n + 1]}
  <2>0. \A l \in Wheels : SizeOf[l] = next(SizeOf, l) /\ F[l] = next(F, l)
    BY <1>5, <1>8
  <2>1. 0 \in M
    BY <2>0
  <2>2. ASSUME NEW n \in Nat, n \in M PROVE n + 1 \in M
    <3>1. SUFFICES ASSUME n + 1 + 1 \in Wheels PROVE SizeOf[n + 1 + 1] = F[n + 1 + 1]
      OBVIOUS
    <3>2. n + 1 \in Wheels
      BY <1>1, <3>1 DEF Wheels
    <3>3. SizeOf[n + 1] = F[n + 1]
      BY <2>2, <3>2
    <3>4. n + 1 + 1 - 1 = n + 1 /\ n + 1 + 1 # 1
      OBVIOUS
    <3>5. QED
      BY <2>0, <3>1, <3>3, <3>4
  <2> HIDE DEF M
  <2>3. Nat \subseteq M
    BY <2>1, <2>2, Induction
  <2>4. ASSUME NEW l \in Wheels PROVE SizeOf[l] = F[l]
    <3>1. l - 1 \in Nat /\ l - 1 + 1 = l
      BY <1>1 DEF Wheels
    <3>2. l - 1 \in M
      BY <2>3, <3>1
    <3>3. QED
      BY <3>1, <3>2 DEF M
  <2>5. QED
    BY <2>4
<1>10. SizeOf = [l \in Wheels |-> SizeOf[l]]
  BY <1>8
<1>11. QED
  BY <1>5, <1>9, <1>10

LEMMA TargetIsWheel == ASSUME NEW delay \in Int PROVE TargetWheel(delay) \in Wheels
<1> DEFINE spanning == {l \in Wheels : delay < SlotCount[l] * SizeOf[l]}
<1>1. Levels \in Nat \ {0}
  BY WheelAssumption
<1>2. spanning \subseteq Wheels /\ Wheels \subseteq Nat /\ Levels \in Wheels
  BY <1>1 DEF Wheels
<1>3. TargetWheel(delay) = IF spanning = {} THEN Levels ELSE Min(spanning)
  BY DEF TargetWheel
<1> HIDE DEF spanning
<1>4. QED
  BY <1>2, <1>3, MinOfNumbers

\* Truncation towards zero: a delay that is late by less than a slot of the
\* first wheel has the index of one that is not late.
LEMMA LateByASlot ==
    ASSUME NEW delay \in Int, SlotIndex(delay) < 0
    PROVE  -delay >= SlotSize
<1> DEFINE l == TargetWheel(delay)
           z == SizeOf[l]
           c == SlotCount[l]
           q == (-delay) \div z
<1>1. l \in Wheels
  BY TargetIsWheel
<1>2. z \in Nat /\ z >= SlotSize /\ SlotSize \in Nat \ {0} /\ c \in Nat \ {0}
  BY <1>1, WheelSizes, WheelAssumption DEF Wheels
<1>3. SlotIndex(delay) = IF delay >= 0 THEN (delay \div z) % c ELSE -(q % c)
  BY DEF SlotIndex
<1> HIDE DEF l, z, c
<1>4. CASE delay >= 0
  <2>1. delay \div z \in Nat
    BY <1>2, <1>4
  <2>2. (delay \div z) % c \in Nat
    <3> DEFINE d == delay \div z
    <3> HIDE DEF d
    <3>1. QED
      BY <1>2, <2>1 DEF d
  <2>3. QED
    BY <1>3, <1>4, <2>2
<1>5. CASE delay < 0
  <2>1. ASSUME -delay < z PROVE FALSE
    <3>1. q = 0
      BY <1>2, <1>5, <2>1
    <3>2. q % c = 0
      <4> HIDE DEF q
      <4>1. QED
        BY <1>2, <3>1
    <3>3. QED
      BY <1>3, <1>5, <3>2
  <2>2. QED
    BY <1>2, <2>1
<1>6. QED
  BY <1>4, <1>5

-----------------------------------------------------------------------------
(* Types, also after operations were cancelled. *)

TypeInv ==
    /\ SlotsTyped
    /\ now \in 0..MaxTime /\ tickReady \in BOOLEAN
    /\ currentSlot \in [Wheels -> Nat]
    /\ \A l \in Wheels : currentSlot[l] \in Positions(l)
    /\ nextOpID \in 0..MaxOps
    /\ DOMAIN ops \subseteq 0..(nextOpID - 1)
    /\ \A o \in DOMAIN ops : ops[o] \in Operation
    /\ operations \subseteq DOMAIN ops /\ cancelled \subseteq DOMAIN ops
    /\ running \in [OpIDs -> Nat] /\ finishing \in [OpIDs -> Nat]
    /\ started \in [OpIDs -> Nat]
    /\ stats \in [total : Nat, active : Int, completed : Nat]
    /\ ctxDone \in BOOLEAN /\ ticking \in BOOLEAN
    /\ stopped \in BOOLEAN /\ panicked \in BOOLEAN
    /\ \A o \in OpIDs \ DOMAIN ops : running[o] = 0 /\ finishing[o] = 0
    /\ PanicOnlyWhenLate

LEMMA NextSlotType ==
    ASSUME currentSlot \in [Wheels -> Nat], NEW l \in Wheels
    PROVE  NextSlot(l) \in Positions(l) /\ NextSlot(l) \in Nat
<1>1. currentSlot[l] \in Nat /\ SlotCount[l] \in Nat \ {0}
  BY WheelAssumption DEF Wheels
<1>2. QED
  BY <1>1 DEF NextSlot, Positions

LEMMA RunsFinite ==
    ASSUME SlotsTyped, currentSlot \in [Wheels -> Nat], NEW o
    PROVE  RunsOf(o) \in Nat
<1> DEFINE At(l) == {<<l, n>> : n \in {m \in DOMAIN slots[l][NextSlot(l)] :
                                        slots[l][NextSlot(l)][m] = o}}
           f == [l \in Advanced |-> At(l)]
           T == {At(l) : l \in Advanced}
<1>1. Advanced \subseteq Wheels
  BY DEF Advanced
<1>2. IsFiniteSet(Advanced)
  <2>1. Levels \in Nat
    BY WheelAssumption
  <2>2. IsFiniteSet(1..Levels)
    BY <2>1, FS_Interval
  <2>3. QED
    BY <1>1, <2>2, FS_Subset DEF Wheels
<1>3. ASSUME NEW l \in Advanced PROVE IsFiniteSet(At(l))
  <2> DEFINE s == slots[l][NextSlot(l)]
             M == {m \in DOMAIN s : s[m] = o}
             g == [m \in M |-> <<l, m>>]
  <2>1. s \in Seq(DOMAIN ops)
    BY <1>1, NextSlotType DEF SlotsTyped
  <2>2. DOMAIN s = 1..Len(s) /\ Len(s) \in Nat
    BY <2>1, LenProperties
  <2>3. IsFiniteSet(1..Len(s))
    BY <2>2, FS_Interval
  <2>4. IsFiniteSet(M)
    BY <2>2, <2>3, FS_Subset
  <2>5. g \in Surjection(M, At(l))
    <3> HIDE DEF s
    <3>1. At(l) = {<<l, n>> : n \in M}
      BY DEF s
    <3> HIDE DEF M, At
    <3>2. QED
      BY <3>1 DEF Surjection
  <2> HIDE DEF M, g, At
  <2>6. QED
    BY <2>4, <2>5, FS_Surjection
<1>4. f \in Surjection(Advanced, T)
  <2> HIDE DEF At
  <2>1. QED
    BY DEF Surjection
<1>5. IsFiniteSet(T)
  <2> HIDE DEF T, f
  <2>1. QED
    BY <1>2, <1>4, FS_Surjection
<1>6. IsFiniteSet(UNION T)
  <2>1. \A t \in T : IsFiniteSet(t)
    <3> HIDE DEF At
    <3>1. QED
      BY <1>3
  <2> HIDE DEF T
  <2>2. QED
    BY <1>5, <2>1, FS_UNION
<1>7. Reached(o) = UNION T
  BY DEF Reached
<1>8. QED
  BY <1>6, <1>7, FS_CardinalityType DEF RunsOf

LEMMA ShiftedType ==
    ASSUME NEW D, NEW s \in Seq(D), NEW o
    PROVE  Shifted(s, o) \in Seq(D)
<1>1. CASE o \notin Range(s)
  BY <1>1 DEF Shifted
<1>2. CASE o \in Range(s)
  <2> DEFINE I == {i \in 1..Len(s) : s[i] = o}
             i == SelectInSeq(s, LAMBDA x : x = o)
  <2>1. Len(s) \in Nat /\ DOMAIN s = 1..Len(s)
    BY LenProperties
  <2>2. I # {} /\ I \subseteq Nat
    BY <1>2, <2>1 DEF Range
  <2>3. i = Min(I)
    BY <2>2 DEF SelectInSeq
  <2>4. i \in 1..Len(s)
    <3>1. Min(I) \in I
      <4> HIDE DEF I
      <4>1. QED
        BY <2>2, MinOfNumbers
    <3>2. QED
      BY <2>3, <3>1
  <2>5. Shifted(s, o) = Append(SubSeq(s, 1, i - 1) \o SubSeq(s, i + 1, Len(s)), Last(s))
    BY <1>2 DEF Shifted, RemoveAt
  <2> HIDE DEF i
  <2>6. \A k \in 1..Len(s) : s[k] \in D
    BY ElementOfSeq
  <2>7. SubSeq(s, 1, i - 1) \in Seq(D)
    <3>1. 1 \in Int /\ i - 1 \in Int /\ \A k \in 1..(i - 1) : s[k] \in D
      BY <2>1, <2>4, <2>6
    <3>2. QED
      BY <3>1, SubSeqProperties
  <2>8. SubSeq(s, i + 1, Len(s)) \in Seq(D)
    <3>1. i + 1 \in Int /\ Len(s) \in Int /\ \A k \in (i + 1)..Len(s) : s[k] \in D
      BY <2>1, <2>4, <2>6
    <3>2. QED
      BY <3>1, SubSeqProperties
  <2>9. Last(s) \in D
    BY <2>1, <2>4, <2>6 DEF Last
  <2>10. QED
    BY <2>5, <2>7, <2>8, <2>9, ConcatProperties, AppendProperties
<1>3. QED
  BY <1>1, <1>2

\* Placing an operation again, or for the first time.
LEMMA PlaceTypes ==
    ASSUME SlotsTyped, panicked = FALSE, now \in Nat, now' = now,
           DOMAIN ops \subseteq DOMAIN ops',
           NEW o \in DOMAIN ops', NEW r \in Int, ops'[o].NextRun = r, Place(o, r)
    PROVE  SlotsTyped' /\ panicked' \in BOOLEAN /\ PanicOnlyWhenLate'
<1>1. SlotsTyped'
  BY FoundAfterPlace
<1>2. CASE SlotIndex(r - now) < 0
  <2>1. panicked' = TRUE
    BY <1>2 DEF Place
  <2>2. -(r - now) >= SlotSize /\ SlotSize \in Nat
    BY <1>2, LateByASlot, WheelAssumption
  <2>3. now' - ops'[o].NextRun >= SlotSize
    BY <2>2
  <2>4. QED
    BY <1>1, <2>1, <2>3 DEF PanicOnlyWhenLate
<1>3. CASE ~(SlotIndex(r - now) < 0)
  <2>1. panicked' = panicked
    BY <1>3 DEF Place
  <2>2. QED
    BY <1>1, <2>1 DEF PanicOnlyWhenLate
<1>4. QED
  BY <1>2, <1>3

LEMMA ScheduleTypes ==
    ASSUME NEW type \in {"once", "repeating", "cron"}, NEW d \in Int,
           NEW i \in Nat, NEW j \in Nat,
           TypeInv, ScheduleOperation(type, d, i, j)
    PROVE  TypeInv'
<1> DEFINE o == nextOpID
           nextRun == FirstRun(type, d, i) + j
<1>1. /\ now \in 0..MaxTime /\ now \in Nat /\ CronStep \in Nat
      /\ nextOpID \in Nat /\ nextOpID < MaxOps /\ MaxOps \in Nat
      /\ panicked = FALSE
  BY BoundsAssumption DEF TypeInv, ScheduleOperation
<1>2. /\ DOMAIN ops' = DOMAIN ops \cup {o}
      /\ \A x \in DOMAIN ops : x # o => ops'[x] = ops[x]
      /\ ops'[o] = [Type |-> type, NextRun |-> nextRun, Created |-> now,
                    Interval |-> i, RunCount |-> 0]
      /\ operations' = operations \cup {o}
      /\ nextOpID' = nextOpID + 1
      /\ stats' = [stats EXCEPT !.total = @ + 1, !.active = @ + 1]
      /\ Place(o, nextRun)
      /\ UNCHANGED <<now, tickReady, currentSlot, running, finishing, started,
                     ctxDone, ticking, stopped, cancelled>>
  BY DEF ScheduleOperation, flight
<1>3. nextRun \in Int
  BY <1>1 DEF FirstRun
<1> HIDE DEF nextRun
<1>4. ops'[o] \in Operation /\ ops'[o].NextRun = nextRun
  BY <1>1, <1>2, <1>3 DEF Operation
<1>5. o \in OpIDs
  BY <1>1 DEF OpIDs
<1>6. SlotsTyped' /\ panicked' \in BOOLEAN /\ PanicOnlyWhenLate'
  BY <1>1, <1>2, <1>3, <1>4, PlaceTypes DEF TypeInv
<1>7. nextOpID' \in 0..MaxOps /\ DOMAIN ops' \subseteq 0..(nextOpID' - 1)
  BY <1>1, <1>2 DEF TypeInv
<1>8. \A x \in DOMAIN ops' : ops'[x] \in Operation
  BY <1>2, <1>4 DEF TypeInv
<1>9. stats' \in [total : Nat, active : Int, completed : Nat]
  <2> DEFINE t == [stats EXCEPT !.total = @ + 1]
  <2>1. t \in [total : Nat, active : Int, completed : Nat]
    BY DEF TypeInv
  <2>2. stats' = [t EXCEPT !.active = @ + 1]
    BY <1>2 DEF TypeInv
  <2> HIDE DEF t
  <2>3. QED
    BY <2>1, <2>2
<1>10. \A l \in Wheels : currentSlot'[l] \in Positions(l)
  BY <1>2 DEF TypeInv
<1>11. /\ operations' \subseteq DOMAIN ops' /\ cancelled' \subseteq DOMAIN ops'
       /\ \A x \in OpIDs \ DOMAIN ops' : running'[x] = 0 /\ finishing'[x] = 0
  BY <1>2 DEF TypeInv
<1>12. QED
  BY <1>2, <1>6, <1>7, <1>8, <1>9, <1>10, <1>11 DEF TypeInv, Wheels, Positions, OpIDs, Operation

LEMMA TickTypes == TypeInv /\ Tick => TypeInv'
<1> SUFFICES ASSUME TypeInv, Tick PROVE TypeInv'
  OBVIOUS
<1>1. /\ UNCHANGED <<now, ops, operations, nextOpID, finishing, stats, ctxDone,
                     ticking, stopped, panicked, cancelled>>
      /\ tickReady' = FALSE
      /\ running' = [o \in OpIDs |-> running[o] + RunsOf(o)]
      /\ started' = [o \in OpIDs |-> started[o] + RunsOf(o)]
      /\ currentSlot' = [l \in Wheels |->
              IF l \in Advanced THEN NextSlot(l) ELSE currentSlot[l]]
  BY DEF Tick, table, life
<1>2. /\ SlotsTyped /\ currentSlot \in [Wheels -> Nat]
      /\ running \in [OpIDs -> Nat] /\ started \in [OpIDs -> Nat]
      /\ \A l \in Wheels : currentSlot[l] \in Positions(l)
  BY DEF TypeInv
<1>3. \A o \in OpIDs : running[o] + RunsOf(o) \in Nat /\ started[o] + RunsOf(o) \in Nat
  <2>1. \A o : RunsOf(o) \in Nat
    BY <1>2, RunsFinite
  <2>2. QED
    BY <1>2, <2>1
<1>4. running' \in [OpIDs -> Nat] /\ started' \in [OpIDs -> Nat]
  BY <1>1, <1>3
<1>5. ASSUME NEW o \in OpIDs \ DOMAIN ops' PROVE running'[o] = 0 /\ finishing'[o] = 0
  <2>1. RunsOf(o) = 0 /\ running[o] = 0 /\ finishing[o] = 0
    BY <1>1 DEF RunsOf, Due, TypeInv
  <2>2. QED
    BY <1>1, <2>1
<1>6. \A l \in Wheels : NextSlot(l) \in Positions(l) /\ NextSlot(l) \in Nat
  BY <1>2, NextSlotType
<1>7. /\ currentSlot' \in [Wheels -> Nat]
      /\ \A l \in Wheels : currentSlot'[l] \in Positions(l)
  BY <1>1, <1>2, <1>6
<1>8. SlotsTyped'
  <2>1. slots' = [l \in Wheels |->
           IF l \in Advanced THEN [slots[l] EXCEPT ![NextSlot(l)] = <<>>]
                             ELSE slots[l]]
    BY DEF Tick
  <2>2. /\ DOMAIN slots' = Wheels
        /\ \A l \in Wheels : DOMAIN slots'[l] = Positions(l)
        /\ \A l \in Wheels : \A k \in Positions(l) :
             slots'[l][k] \in {<<>>, slots[l][k]}
    BY <1>2, <2>1 DEF SlotsTyped
  <2>3. ASSUME NEW l \in Wheels, NEW k \in Positions(l)
        PROVE  slots'[l][k] \in Seq(DOMAIN ops')
    <3>1. slots[l][k] \in Seq(DOMAIN ops) /\ <<>> \in Seq(DOMAIN ops)
      BY <1>2 DEF SlotsTyped
    <3>2. QED
      BY <1>1, <2>2, <3>1
  <2>4. QED
    BY <2>2, <2>3 DEF SlotsTyped, Wheels, Positions
<1>9. PanicOnlyWhenLate'
  BY <1>1 DEF TypeInv, PanicOnlyWhenLate
<1>10. QED
  BY <1>1, <1>4, <1>5, <1>7, <1>8, <1>9
     DEF TypeInv, Wheels, Positions, OpIDs, Operation

LEMMA DoneTypes ==
    ASSUME NEW o \in OpIDs, TypeInv, OperationDone(o)
    PROVE  TypeInv'
<1> DEFINE step == IF ops[o].Type = "cron" THEN CronStep ELSE ops[o].Interval
           nextRun == ops[o].NextRun + step
<1>1. /\ finishing[o] > 0 /\ o \in DOMAIN ops /\ ops[o] \in Operation
      /\ panicked = FALSE /\ finishing[o] \in Nat /\ CronStep \in Nat
      /\ now \in Nat /\ stats \in [total : Nat, active : Int, completed : Nat]
  BY BoundsAssumption DEF TypeInv, OperationDone
<1>2. /\ UNCHANGED <<now, tickReady, currentSlot, nextOpID, running, started,
                     ctxDone, ticking, stopped, cancelled>>
      /\ finishing' = [finishing EXCEPT ![o] = @ - 1]
  BY DEF OperationDone
<1>3. finishing[o] - 1 \in Nat
  BY <1>1
<1>4. /\ finishing' \in [OpIDs -> Nat]
      /\ \A x \in OpIDs : x # o => finishing'[x] = finishing[x]
  BY <1>2, <1>3 DEF TypeInv
<1>5. /\ DOMAIN ops' = DOMAIN ops
      /\ \A x \in DOMAIN ops : ops'[x] \in Operation
      /\ SlotsTyped' /\ panicked' \in BOOLEAN /\ PanicOnlyWhenLate'
      /\ operations' \subseteq operations
      /\ stats' \in [total : Nat, active : Int, completed : Nat]
  <2>1. CASE ops[o].Type \in {"repeating", "cron"}
    <3>1. /\ ops' = [ops EXCEPT ![o].RunCount = @ + 1, ![o].NextRun = nextRun]
          /\ Place(o, nextRun) /\ UNCHANGED <<operations, stats>>
      BY <2>1 DEF OperationDone
    <3>2. nextRun \in Int
      BY <1>1 DEF Operation
    <3> HIDE DEF nextRun
    <3>3. /\ DOMAIN ops' = DOMAIN ops
          /\ \A x \in DOMAIN ops : x # o => ops'[x] = ops[x]
          /\ ops'[o] = [ops[o] EXCEPT !.RunCount = @ + 1, !.NextRun = nextRun]
      BY <1>1, <3>1
    <3>4. ops'[o] = [Type |-> ops[o].Type, NextRun |-> nextRun,
                     Created |-> ops[o].Created, Interval |-> ops[o].Interval,
                     RunCount |-> ops[o].RunCount + 1]
      BY <1>1, <3>3 DEF Operation
    <3>5. ops'[o] \in Operation /\ ops'[o].NextRun = nextRun
      BY <1>1, <3>2, <3>4 DEF Operation
    <3>6. \A x \in DOMAIN ops : ops'[x] \in Operation
      BY <3>3, <3>5 DEF TypeInv
    <3>7. SlotsTyped' /\ panicked' \in BOOLEAN /\ PanicOnlyWhenLate'
      <4>1. SlotsTyped /\ now' = now /\ DOMAIN ops \subseteq DOMAIN ops' /\ o \in DOMAIN ops'
        BY <1>1, <1>2, <3>3 DEF TypeInv
      <4>2. QED
        BY <1>1, <3>1, <3>2, <3>5, <4>1, PlaceTypes
    <3>8. QED
      BY <1>1, <3>1, <3>3, <3>6, <3>7
  <2>2. CASE ops[o].Type \notin {"repeating", "cron"}
    <3>1. /\ ops' = [ops EXCEPT ![o].RunCount = @ + 1]
          /\ operations' = operations \ {o}
          /\ stats' = [stats EXCEPT !.active = @ - 1]
          /\ UNCHANGED <<slots, panicked>>
      BY <2>2 DEF OperationDone
    <3>2. DOMAIN ops' = DOMAIN ops /\ \A x \in DOMAIN ops : ops'[x] \in Operation
      <4>1. /\ DOMAIN ops' = DOMAIN ops
            /\ \A x \in DOMAIN ops : x # o => ops'[x] = ops[x]
            /\ ops'[o] = [ops[o] EXCEPT !.RunCount = @ + 1]
        BY <1>1, <3>1
      <4>2. ops'[o] \in Operation
        BY <1>1, <4>1 DEF Operation
      <4>3. QED
        BY <4>1, <4>2 DEF TypeInv
    <3>3. stats' \in [total : Nat, active : Int, completed : Nat]
      BY <1>1, <3>1
    <3>4. SlotsTyped'
      BY <3>1, <3>2 DEF TypeInv, SlotsTyped
    <3>5. panicked' \in BOOLEAN /\ PanicOnlyWhenLate'
      BY <1>1, <3>1 DEF PanicOnlyWhenLate
    <3>6. QED
      BY <3>1, <3>2, <3>3, <3>4, <3>5
  <2>3. QED
    BY <2>1, <2>2
<1>6. \A x \in OpIDs \ DOMAIN ops' : running'[x] = 0 /\ finishing'[x] = 0
  BY <1>1, <1>2, <1>4, <1>5 DEF TypeInv
<1>7. QED
  BY <1>2, <1>4, <1>5, <1>6 DEF TypeInv, Wheels, Positions, OpIDs, Operation

LEMMA CancelTypes ==
    ASSUME NEW o \in OpIDs, TypeInv, CancelOperation(o)
    PROVE  TypeInv'
<1>1. /\ UNCHANGED <<now, tickReady, currentSlot, ops, nextOpID, running, finishing,
                     started, ctxDone, ticking, stopped, panicked>>
      /\ o \in operations /\ ~panicked
      /\ operations' = operations \ {o} /\ cancelled' = cancelled \cup {o}
      /\ stats' = [stats EXCEPT !.active = @ - 1]
      /\ slots' = [l \in Wheels |-> [k \in Positions(l) |->
                      Shifted(slots[l][k], o)]]
  BY DEF CancelOperation, flight, life
<1>2. SlotsTyped'
  <2>1. ASSUME NEW l \in Wheels, NEW k \in Positions(l)
        PROVE  slots'[l][k] \in Seq(DOMAIN ops)
    <3>1. slots[l][k] \in Seq(DOMAIN ops)
      BY DEF TypeInv, SlotsTyped
    <3>2. slots'[l][k] = Shifted(slots[l][k], o)
      BY <1>1
    <3>3. QED
      BY <3>1, <3>2, ShiftedType
  <2>2. DOMAIN slots' = Wheels /\ \A l \in Wheels : DOMAIN slots'[l] = Positions(l)
    BY <1>1
  <2>3. QED
    BY <1>1, <2>1, <2>2 DEF SlotsTyped, Wheels, Positions
<1>3. stats' \in [total : Nat, active : Int, completed : Nat]
  BY <1>1 DEF TypeInv
<1>4. PanicOnlyWhenLate'
  BY <1>1 DEF PanicOnlyWhenLate
<1>5. QED
  BY <1>1, <1>2, <1>3, <1>4 DEF TypeInv, Wheels, Positions, OpIDs, Operation

LEMMA HandlerTypes ==
    ASSUME NEW o \in OpIDs, TypeInv, HandlerReturns(o)
    PROVE  TypeInv'
<1>1. /\ UNCHANGED <<now, tickReady, slots, currentSlot, ops, operations, nextOpID,
                     started, ctxDone, ticking, stopped, panicked, cancelled>>
      /\ running[o] > 0 /\ ~panicked
      /\ running' = [running EXCEPT ![o] = @ - 1]
      /\ finishing' = [finishing EXCEPT ![o] = @ + 1]
      /\ stats' = [stats EXCEPT !.completed = @ + 1]
  BY DEF HandlerReturns, wheel, table, life
<1>2. running[o] - 1 \in Nat /\ finishing[o] + 1 \in Nat
  BY <1>1 DEF TypeInv
<1>3. running' \in [OpIDs -> Nat] /\ finishing' \in [OpIDs -> Nat]
  BY <1>1, <1>2 DEF TypeInv
<1>4. o \in DOMAIN ops
  BY <1>1 DEF TypeInv
<1>5. \A x \in OpIDs \ DOMAIN ops' : running'[x] = 0 /\ finishing'[x] = 0
  BY <1>1, <1>4 DEF TypeInv
<1>6. stats' \in [total : Nat, active : Int, completed : Nat]
  BY <1>1 DEF TypeInv
<1>7. SlotsTyped' /\ PanicOnlyWhenLate'
  BY <1>1 DEF TypeInv, SlotsTyped, PanicOnlyWhenLate
<1>8. QED
  BY <1>1, <1>3, <1>5, <1>6, <1>7 DEF TypeInv, Wheels, Positions, OpIDs, Operation

LEMMA StillTyped ==
    ASSUME TypeInv,
           UNCHANGED <<slots, currentSlot, ops, operations, running, finishing,
                       started, stats, cancelled, panicked>>,
           now' \in 0..MaxTime, nextOpID' \in 0..MaxOps, nextOpID' >= nextOpID,
           tickReady' \in BOOLEAN, ctxDone' \in BOOLEAN, ticking' \in BOOLEAN,
           stopped' \in BOOLEAN, panicked => now' = now
    PROVE  TypeInv'
<1>1. DOMAIN ops' \subseteq 0..(nextOpID' - 1)
  <2>1. nextOpID \in Nat /\ nextOpID' \in Nat
    BY BoundsAssumption DEF TypeInv
  <2>2. QED
    BY <2>1 DEF TypeInv
<1>2. SlotsTyped' /\ PanicOnlyWhenLate'
  BY DEF TypeInv, SlotsTyped, PanicOnlyWhenLate
<1>3. QED
  BY <1>1, <1>2 DEF TypeInv, Wheels, Positions, OpIDs, Operation

LEMMA NextTypes == TypeInv /\ [Next]_vars => TypeInv'
<1> SUFFICES ASSUME TypeInv, [Next]_vars PROVE TypeInv'
  OBVIOUS
<1> USE DEF flight, life, wheel, table
<1>0. /\ now \in 0..MaxTime /\ nextOpID \in 0..MaxOps /\ MaxTime \in Nat /\ MaxOps \in Nat
      /\ tickReady \in BOOLEAN /\ ctxDone \in BOOLEAN /\ ticking \in BOOLEAN
      /\ stopped \in BOOLEAN /\ panicked \in BOOLEAN
      /\ nextOpID >= nextOpID
  BY BoundsAssumption DEF TypeInv
<1>1. CASE Schedules
  <2>1. ASSUME NEW d \in Delays, NEW j \in Jitters, ScheduleOperation("once", d, 0, j)
        PROVE  TypeInv'
    BY <2>1, CallerAssumption, ScheduleTypes
  <2>2. ASSUME NEW i \in Intervals, NEW j \in Jitters,
               ScheduleOperation("repeating", 0, i, j)
        PROVE  TypeInv'
    BY <2>2, CallerAssumption, ScheduleTypes
  <2>3. ASSUME NEW j \in Jitters, ScheduleOperation("cron", 0, 0, j) PROVE TypeInv'
    BY <2>3, CallerAssumption, ScheduleTypes
  <2>4. CASE ScheduleUnsupported
    <3>1. nextOpID' \in 0..MaxOps /\ nextOpID' >= nextOpID
      BY <1>0, <2>4 DEF ScheduleUnsupported
    <3>2. QED
      BY <1>0, <2>4, <3>1, StillTyped DEF ScheduleUnsupported
  <2>5. QED
    BY <1>1, <2>1, <2>2, <2>3, <2>4 DEF Schedules
<1>2. CASE Clock
  <2>1. now' \in 0..MaxTime /\ tickReady' \in BOOLEAN /\ ~panicked
    <3>1. now' \in 0..MaxTime
      BY <1>0, <1>2 DEF Clock
    <3>2. tickReady' \in BOOLEAN
      BY <1>2, Zenon DEF Clock
    <3>3. QED
      BY <1>2, <3>1, <3>2 DEF Clock
  <2>2. QED
    BY <1>0, <1>2, <2>1, StillTyped DEF Clock
<1>3. CASE Tick
  BY <1>3, TickTypes
<1>4. CASE TickerStops
  BY <1>0, <1>4, StillTyped DEF TickerStops
<1>5. ASSUME NEW o \in OpIDs, HandlerReturns(o) PROVE TypeInv'
  BY <1>5, HandlerTypes
<1>6. ASSUME NEW o \in OpIDs, OperationDone(o) PROVE TypeInv'
  BY <1>6, DoneTypes
<1>7. CASE StopReturns
  BY <1>0, <1>7, StillTyped DEF StopReturns
<1>8. CASE Stop
  BY <1>0, <1>8, StillTyped DEF Stop
<1>9. ASSUME NEW o \in OpIDs, CancelOperation(o) PROVE TypeInv'
  BY <1>9, CancelTypes
<1>10. CASE UNCHANGED vars
  BY <1>0, <1>10, StillTyped DEF vars
<1>11. QED
  BY <1>1, <1>2, <1>3, <1>4, <1>5, <1>6, <1>7, <1>8, <1>9, <1>10 DEF Next, Runtime

LEMMA InitTypes == Init => TypeInv
<1> SUFFICES ASSUME Init PROVE TypeInv
  OBVIOUS
<1>1. FlightInv
  BY InitFlight
<1>2. DOMAIN ops = {} /\ operations = {} /\ cancelled = {}
  BY DEF Init
<1>3. /\ now \in 0..MaxTime /\ nextOpID \in 0..MaxOps
      /\ tickReady \in BOOLEAN /\ ctxDone \in BOOLEAN /\ ticking \in BOOLEAN
      /\ stopped \in BOOLEAN /\ panicked \in BOOLEAN /\ ~panicked
  <2>1. now \in 0..MaxTime /\ nextOpID \in 0..MaxOps
    BY BoundsAssumption DEF Init
  <2>2. /\ tickReady = FALSE /\ ctxDone = FALSE /\ ticking = TRUE
        /\ stopped = FALSE /\ panicked = FALSE
    BY Zenon DEF Init
  <2>3. QED
    BY <2>1, <2>2
<1>4. stats \in [total : Nat, active : Int, completed : Nat]
  BY DEF Init
<1>5. currentSlot \in [Wheels -> Nat] /\ \A l \in Wheels : currentSlot[l] \in Positions(l)
  <2>1. \A l \in Wheels : 0 \in Positions(l)
    BY WheelAssumption DEF Wheels, Positions
  <2>2. QED
    BY <2>1 DEF Init
<1>6. QED
  BY <1>1, <1>2, <1>3, <1>4, <1>5
     DEF TypeInv, FlightInv, FlightTyped, Unborn, PanicOnlyWhenLate

LEMMA SpecTypes == Spec => []TypeInv
  BY InitTypes, NextTypes, PTL DEF Spec

\* Every variable keeps its type, whatever is scheduled, cancelled or run:
\* slots hold operations that exist, and no counter goes below zero.
THEOREM SchedulerTypes == Spec => []TypeOK
<1>1. TypeInv => TypeOK
  <2> SUFFICES ASSUME TypeInv PROVE TypeOK
    OBVIOUS
  <2>1. ASSUME NEW l \in Wheels, NEW k \in Positions(l)
        PROVE  Range(slots[l][k]) \subseteq DOMAIN ops
    <3>1. slots[l][k] \in Seq(DOMAIN ops)
      BY DEF TypeInv, SlotsTyped
    <3>2. QED
      BY <3>1, LenProperties, ElementOfSeq DEF Range
  <2>2. \A l \in Wheels : DOMAIN slots[l] = Positions(l)
    BY DEF TypeInv, SlotsTyped
  <2>3. QED
    BY <2>1, <2>2 DEF TypeInv, TypeOK
<1>2. QED
  BY <1>1, SpecTypes, PTL

\* Only an operation that is late by a slot of the first wheel or more ends
\* the process, for wheels of any number and size.
THEOREM PanicNeedsLateness == Spec => []PanicOnlyWhenLate
<1>1. TypeInv => PanicOnlyWhenLate
  BY DEF TypeInv
<1>2. QED
  BY <1>1, SpecTypes, PTL
-----------------------------------------------------------------------------
(* Statistics.  Every run that began is in its handler or counted: a tick   *)
(* adds the same to both sums, a handler that returns moves one.            *)

RunsAreCounted == stats.completed + SumOf(running, OpIDs) = SumOf(started, OpIDs)

LEMMA OpIDsFinite == IsFiniteSet(OpIDs)
<1>1. 0 \in Int /\ MaxOps - 1 \in Int
  BY BoundsAssumption
<1>2. IsFiniteSet(0..(MaxOps - 1))
  BY <1>1, FS_Interval
<1>3. QED
  BY <1>1, <1>2 DEF OpIDs

LEMMA TickCounts == TypeInv /\ RunsAreCounted /\ Tick => RunsAreCounted'
<1> SUFFICES ASSUME TypeInv, RunsAreCounted, Tick PROVE RunsAreCounted'
  OBVIOUS
<1> DEFINE g == [o \in OpIDs |-> RunsOf(o)]
<1>1. /\ running' = [o \in OpIDs |-> running[o] + RunsOf(o)]
      /\ started' = [o \in OpIDs |-> started[o] + RunsOf(o)]
      /\ stats' = stats
  BY DEF Tick
<1>2. /\ running \in [OpIDs -> Int] /\ started \in [OpIDs -> Int]
      /\ stats.completed \in Int
  BY DEF TypeInv
<1>3. running' \in [OpIDs -> Int] /\ started' \in [OpIDs -> Int] /\ g \in [OpIDs -> Int]
  <2>1. \A o : RunsOf(o) \in Nat
    BY RunsFinite DEF TypeInv
  <2>2. \A o \in OpIDs : running[o] + RunsOf(o) \in Int /\ started[o] + RunsOf(o) \in Int
    BY <1>2, <2>1
  <2>3. QED
    BY <1>1, <2>1, <2>2
<1>4. \A o \in OpIDs : running'[o] = running[o] + g[o] /\ started'[o] = started[o] + g[o]
  BY <1>1
<1> HIDE DEF g
<1>5. /\ SumOf(running, OpIDs) \in Int /\ SumOf(g, OpIDs) \in Int
      /\ SumOf(running', OpIDs) = SumOf(running, OpIDs) + SumOf(g, OpIDs)
  BY <1>2, <1>3, <1>4, OpIDsFinite, SumOfAddition
<1>6. /\ SumOf(started, OpIDs) \in Int
      /\ SumOf(started', OpIDs) = SumOf(started, OpIDs) + SumOf(g, OpIDs)
  BY <1>2, <1>3, <1>4, OpIDsFinite, SumOfAddition
<1>7. QED
  BY <1>1, <1>2, <1>5, <1>6 DEF RunsAreCounted

LEMMA HandlerCounts ==
    ASSUME NEW o \in OpIDs, TypeInv, RunsAreCounted, HandlerReturns(o)
    PROVE  RunsAreCounted'
<1> DEFINE g == [x \in OpIDs |-> IF x = o THEN 1 ELSE 0]
<1>1. /\ running' = [running EXCEPT ![o] = @ - 1]
      /\ stats' = [stats EXCEPT !.completed = @ + 1]
      /\ started' = started
  BY DEF HandlerReturns
<1>2. /\ running \in [OpIDs -> Int] /\ started \in [OpIDs -> Int]
      /\ stats.completed \in Int
  BY DEF TypeInv
<1>3. running' \in [OpIDs -> Int] /\ g \in [OpIDs -> Int]
  BY <1>1, <1>2
<1>4. \A x \in OpIDs : running[x] = running'[x] + g[x]
  BY <1>1, <1>2
<1>5. SumOf(g, OpIDs) = 1
  <2>1. g = [x \in OpIDs |-> IF x = o THEN 1 ELSE 0] /\ 1 \in Int
    OBVIOUS
  <2> HIDE DEF g
  <2>2. QED
    BY <2>1, OpIDsFinite, SumOfOne
<1> HIDE DEF g
<1>6. /\ SumOf(running', OpIDs) \in Int
      /\ SumOf(running, OpIDs) = SumOf(running', OpIDs) + SumOf(g, OpIDs)
  BY <1>2, <1>3, <1>4, OpIDsFinite, SumOfAddition
<1>7. stats'.completed = stats.completed + 1
  BY <1>1 DEF TypeInv
<1>8. QED
  BY <1>1, <1>2, <1>5, <1>6, <1>7 DEF RunsAreCounted

LEMMA NextCountsRuns == TypeInv /\ RunsAreCounted /\ [Next]_vars => RunsAreCounted'
<1> SUFFICES ASSUME TypeInv, RunsAreCounted, [Next]_vars PROVE RunsAreCounted'
  OBVIOUS
<1> USE DEF flight, life, wheel, table
<1>0. ASSUME running' = running, started' = started, stats'.completed = stats.completed
      PROVE  RunsAreCounted'
  BY <1>0 DEF RunsAreCounted
<1> USE DEF TypeInv
<1>1. ASSUME NEW type, NEW d, NEW i, NEW j, ScheduleOperation(type, d, i, j)
      PROVE  RunsAreCounted'
  BY <1>0, <1>1 DEF ScheduleOperation
<1>2. CASE ScheduleUnsupported
  BY <1>0, <1>2 DEF ScheduleUnsupported
<1>3. CASE Clock
  BY <1>0, <1>3 DEF Clock
<1>4. CASE Tick
  BY <1>4, TickCounts
<1>5. CASE TickerStops
  BY <1>0, <1>5 DEF TickerStops
<1>6. ASSUME NEW o \in OpIDs, HandlerReturns(o) PROVE RunsAreCounted'
  BY <1>6, HandlerCounts
<1>7. ASSUME NEW o \in OpIDs, OperationDone(o) PROVE RunsAreCounted'
  BY <1>0, <1>7 DEF OperationDone
<1>8. CASE StopReturns
  BY <1>0, <1>8 DEF StopReturns
<1>9. CASE Stop
  BY <1>0, <1>9 DEF Stop
<1>10. ASSUME NEW o \in OpIDs, CancelOperation(o) PROVE RunsAreCounted'
  BY <1>0, <1>10 DEF CancelOperation
<1>11. CASE UNCHANGED vars
  BY <1>0, <1>11 DEF vars
<1>12. QED
  BY <1>1, <1>2, <1>3, <1>4, <1>5, <1>6, <1>7, <1>8, <1>9, <1>10, <1>11
     DEF Next, Schedules, Runtime

LEMMA OperationsFinite == TypeInv => IsFiniteSet(operations)
<1>1. TypeInv => operations \subseteq OpIDs
  <2> SUFFICES ASSUME TypeInv PROVE operations \subseteq OpIDs
    OBVIOUS
  <2>1. nextOpID \in Nat /\ nextOpID <= MaxOps /\ MaxOps \in Nat
    BY BoundsAssumption DEF TypeInv
  <2>2. QED
    BY <2>1 DEF TypeInv, OpIDs
<1>2. QED
  BY <1>1, OpIDsFinite, FS_Subset

LEMMA WaitingAfterPlace ==
    ASSUME SlotsTyped, DOMAIN ops \subseteq DOMAIN ops', NEW o \in DOMAIN ops',
           NEW r, Place(o, r)
    PROVE  \A x : Waiting(x)' => Waiting(x) \/ x = o
<1>1. PICK l, k, n : \A x, m, p, i :
          Found(x, m, p, i)' =>
              Found(x, m, p, i) \/ (x = o /\ m = l /\ p = k /\ i = n)
  BY FoundAfterPlace, Zenon
<1>2. QED
  BY <1>1 DEF Waiting

LEMMA TickOnlyEmpties ==
    SlotsTyped /\ Tick => \A o, l, k, n : Found(o, l, k, n)' => Found(o, l, k, n)
<1> SUFFICES ASSUME SlotsTyped, Tick,
                    NEW o, NEW l, NEW k, NEW n, Found(o, l, k, n)'
             PROVE  Found(o, l, k, n)
  OBVIOUS
<1>1. /\ l \in Wheels /\ k \in Positions(l)
      /\ n \in 1..Len(slots'[l][k]) /\ slots'[l][k][n] = o
  BY DEF Found, Wheels, Positions
<1>2. slots'[l][k] \in {<<>>, slots[l][k]}
  BY <1>1 DEF Tick, SlotsTyped
<1>3. slots'[l][k] # <<>>
  BY <1>1
<1>4. QED
  BY <1>1, <1>2, <1>3 DEF Found

\* What waits or runs is registered, and the registered are counted.
Registered ==
    \A o \in OpIDs : Waiting(o) \/ running[o] > 0 \/ finishing[o] > 0 => o \in operations

ActiveIsRegistered == Registered /\ stats.active = Cardinality(operations)

LEMMA ScheduleRegisters ==
    ASSUME NEW type \in {"once", "repeating", "cron"}, NEW d \in Int,
           NEW i \in Nat, NEW j \in Nat,
           TypeInv, ActiveIsRegistered, ScheduleOperation(type, d, i, j)
    PROVE  ActiveIsRegistered'
<1> DEFINE o == nextOpID
           nextRun == FirstRun(type, d, i) + j
<1>1. /\ DOMAIN ops' = DOMAIN ops \cup {o}
      /\ operations' = operations \cup {o}
      /\ stats'.active = stats.active + 1
      /\ Place(o, nextRun)
      /\ running' = running /\ finishing' = finishing
  BY DEF ScheduleOperation, flight, TypeInv
<1> HIDE DEF nextRun
<1>2. o \notin operations
  <2>1. o \in Nat
    BY BoundsAssumption DEF TypeInv
  <2>2. QED
    BY <2>1 DEF TypeInv
<1>3. IsFiniteSet(operations)
  BY OperationsFinite
<1>4. stats'.active = Cardinality(operations')
  BY <1>1, <1>2, <1>3, FS_AddElement DEF ActiveIsRegistered
<1>5. \A x : Waiting(x)' => Waiting(x) \/ x = o
  BY <1>1, WaitingAfterPlace DEF TypeInv
<1>6. Registered'
  BY <1>1, <1>5 DEF Registered, ActiveIsRegistered
<1>7. QED
  BY <1>4, <1>6 DEF ActiveIsRegistered

LEMMA TickRegisters ==
    TypeInv /\ FlightInv /\ ActiveIsRegistered /\ Tick => ActiveIsRegistered'
<1> SUFFICES ASSUME TypeInv, FlightInv, ActiveIsRegistered, Tick
             PROVE  ActiveIsRegistered'
  OBVIOUS
<1>1. /\ running' = [o \in OpIDs |-> running[o] + RunsOf(o)]
      /\ UNCHANGED <<operations, stats, finishing>>
  BY DEF Tick, table
<1>2. \A o : Waiting(o)' => Waiting(o)
  <2>1. \A o, l, k, n : Found(o, l, k, n)' => Found(o, l, k, n)
    BY TickOnlyEmpties DEF TypeInv
  <2>2. QED
    BY <2>1 DEF Waiting
<1>3. \A o : RunsOf(o) = 0 \/ Waiting(o)
  BY TickRunsOnce DEF Waiting, FlightInv
<1>4. ASSUME NEW o \in OpIDs, Waiting(o)' \/ running'[o] > 0 \/ finishing'[o] > 0
      PROVE  o \in operations'
  <2>1. running[o] \in Nat
    BY DEF TypeInv
  <2>2. CASE RunsOf(o) = 0
    <3>1. running'[o] = running[o]
      BY <1>1, <2>1, <2>2
    <3>2. QED
      BY <1>1, <1>2, <1>4, <3>1 DEF ActiveIsRegistered, Registered
  <2>3. CASE Waiting(o)
    BY <1>1, <2>3 DEF ActiveIsRegistered, Registered
  <2>4. QED
    BY <1>3, <2>2, <2>3
<1>5. QED
  BY <1>1, <1>4 DEF ActiveIsRegistered, Registered

LEMMA DoneRegisters ==
    ASSUME NEW o \in OpIDs, TypeInv, FlightInv, ActiveIsRegistered, OperationDone(o)
    PROVE  ActiveIsRegistered'
<1>1. /\ o \in DOMAIN ops /\ o \in operations
      /\ finishing[o] > 0 /\ finishing[o] \in Nat /\ running[o] \in Nat
      /\ finishing' = [finishing EXCEPT ![o] = @ - 1]
      /\ running' = running
  BY DEF OperationDone, TypeInv, ActiveIsRegistered, Registered
<1>2. \A x \in OpIDs : finishing'[x] > 0 => finishing[x] > 0
  BY <1>1 DEF TypeInv
<1>3. CASE ops[o].Type \in {"repeating", "cron"}
  <2>1. /\ \E r : Place(o, r)
        /\ DOMAIN ops' = DOMAIN ops
        /\ operations' = operations /\ stats' = stats
    BY <1>3 DEF OperationDone
  <2>2. \A x : Waiting(x)' => Waiting(x) \/ x = o
    BY <1>1, <2>1, WaitingAfterPlace DEF TypeInv
  <2>3. QED
    BY <1>1, <1>2, <2>1, <2>2 DEF ActiveIsRegistered, Registered
<1>4. CASE ~(ops[o].Type \in {"repeating", "cron"})
  <2>1. /\ slots' = slots
        /\ operations' = operations \ {o}
        /\ stats' = [stats EXCEPT !.active = @ - 1]
    BY <1>4 DEF OperationDone
  <2>2. stats'.active = Cardinality(operations')
    <3>1. IsFiniteSet(operations)
      BY OperationsFinite
    <3>2. Cardinality(operations \ {o}) = Cardinality(operations) - 1
      BY <1>1, <3>1, FS_RemoveElement
    <3>3. stats'.active = stats.active - 1
      BY <2>1 DEF TypeInv
    <3>4. QED
      BY <2>1, <3>2, <3>3 DEF ActiveIsRegistered
  <2>3. \A x : Waiting(x)' => Waiting(x)
    BY <2>1 DEF Waiting, Found
  <2>4. ~Waiting(o) /\ running[o] = 0 /\ finishing'[o] = 0
    <3>1. /\ running[o] + finishing[o] <= 1
          /\ Waiting(o) => running[o] = 0 /\ finishing[o] = 0
      BY <1>1 DEF FlightInv, OneFlight
    <3>2. finishing'[o] = finishing[o] - 1
      BY <1>1 DEF TypeInv
    <3>3. QED
      BY <1>1, <3>1, <3>2
  <2>5. Registered'
    BY <1>1, <1>2, <2>1, <2>3, <2>4 DEF ActiveIsRegistered, Registered
  <2>6. QED
    BY <2>2, <2>5 DEF ActiveIsRegistered
<1>5. QED
  BY <1>3, <1>4

LEMMA HandlerRegisters ==
    ASSUME NEW o \in OpIDs, TypeInv, ActiveIsRegistered, HandlerReturns(o)
    PROVE  ActiveIsRegistered'
<1>1. /\ running[o] > 0
      /\ running' = [running EXCEPT ![o] = @ - 1]
      /\ finishing' = [finishing EXCEPT ![o] = @ + 1]
      /\ stats' = [stats EXCEPT !.completed = @ + 1]
      /\ slots' = slots /\ operations' = operations
  BY DEF HandlerReturns, wheel, table
<1>2. \A x \in OpIDs : /\ running'[x] > 0 => running[x] > 0
                       /\ finishing'[x] > 0 => finishing[x] > 0 \/ x = o
  BY <1>1 DEF TypeInv
<1>3. \A x : Waiting(x)' => Waiting(x)
  BY <1>1 DEF Waiting, Found
<1>4. stats'.active = stats.active
  BY <1>1 DEF TypeInv
<1>5. QED
  BY <1>1, <1>2, <1>3, <1>4 DEF ActiveIsRegistered, Registered

ActiveUntilCancel == cancelled = {} => ActiveIsRegistered

LEMMA NextRegisters ==
    TypeInv /\ FlightUntilCancel /\ ActiveUntilCancel /\ [Next]_vars => ActiveUntilCancel'
<1> SUFFICES ASSUME TypeInv, FlightUntilCancel, ActiveUntilCancel, [Next]_vars,
                    cancelled' = {}
             PROVE  ActiveIsRegistered'
  BY DEF ActiveUntilCancel
<1> USE DEF flight, life, wheel, table
<1>1. ASSUME NEW o \in OpIDs, CancelOperation(o) PROVE FALSE
  BY <1>1 DEF CancelOperation
<1>2. FlightInv /\ ActiveIsRegistered
  <2>1. cancelled = {}
    BY <1>1 DEF Next, Schedules, Runtime, ScheduleOperation, ScheduleUnsupported,
       Clock, Tick, TickerStops, HandlerReturns, OperationDone, StopReturns, Stop, vars
  <2>2. QED
    BY <2>1 DEF FlightUntilCancel, ActiveUntilCancel
<1>3. ASSUME UNCHANGED <<slots, running, finishing, operations, stats>>
      PROVE  ActiveIsRegistered'
  <2>1. \A x : Waiting(x)' => Waiting(x)
    BY <1>3 DEF Waiting, Found
  <2>2. QED
    BY <1>2, <1>3, <2>1 DEF ActiveIsRegistered, Registered
<1>4. CASE Schedules
  <2>1. ASSUME NEW d \in Delays, NEW j \in Jitters, ScheduleOperation("once", d, 0, j)
        PROVE  ActiveIsRegistered'
    BY <1>2, <2>1, CallerAssumption, ScheduleRegisters
  <2>2. ASSUME NEW i \in Intervals, NEW j \in Jitters,
               ScheduleOperation("repeating", 0, i, j)
        PROVE  ActiveIsRegistered'
    BY <1>2, <2>2, CallerAssumption, ScheduleRegisters
  <2>3. ASSUME NEW j \in Jitters, ScheduleOperation("cron", 0, 0, j)
        PROVE  ActiveIsRegistered'
    BY <1>2, <2>3, CallerAssumption, ScheduleRegisters
  <2>4. CASE ScheduleUnsupported
    BY <1>3, <2>4 DEF ScheduleUnsupported
  <2>5. QED
    BY <1>4, <2>1, <2>2, <2>3, <2>4 DEF Schedules
<1>5. CASE Clock
  BY <1>3, <1>5 DEF Clock
<1>6. CASE Tick
  BY <1>2, <1>6, TickRegisters
<1>7. CASE TickerStops
  BY <1>3, <1>7 DEF TickerStops
<1>8. ASSUME NEW o \in OpIDs, HandlerReturns(o) PROVE ActiveIsRegistered'
  BY <1>2, <1>8, HandlerRegisters
<1>9. ASSUME NEW o \in OpIDs, OperationDone(o) PROVE ActiveIsRegistered'
  BY <1>2, <1>9, DoneRegisters
<1>10. CASE StopReturns
  BY <1>3, <1>10 DEF StopReturns
<1>11. CASE Stop
  BY <1>3, <1>11 DEF Stop
<1>12. CASE UNCHANGED vars
  BY <1>3, <1>12 DEF vars
<1>13. QED
  BY <1>1, <1>4, <1>5, <1>6, <1>7, <1>8, <1>9, <1>10, <1>11, <1>12 DEF Next, Runtime

LEMMA InitCounts == Init => RunsAreCounted /\ ActiveUntilCancel
<1> SUFFICES ASSUME Init PROVE RunsAreCounted /\ ActiveIsRegistered
  BY DEF ActiveUntilCancel
<1>1. /\ running \in [OpIDs -> Int] /\ started \in [OpIDs -> Int]
      /\ \A o \in OpIDs : running[o] = 0 /\ started[o] = 0 /\ finishing[o] = 0
      /\ operations = {} /\ DOMAIN ops = {}
      /\ stats.completed = 0 /\ stats.active = 0
  BY DEF Init
<1>2. SumOf(running, OpIDs) = 0 /\ SumOf(started, OpIDs) = 0
  BY <1>1, OpIDsFinite, SumOfZero
<1>3. \A o : ~Waiting(o)
  <2>1. ASSUME NEW o, NEW l, NEW k, NEW n, Found(o, l, k, n) PROVE FALSE
    <3>1. slots[l][k] = <<>>
      BY <2>1 DEF Found, Init
    <3>2. QED
      BY <2>1, <3>1 DEF Found
  <2>2. QED
    BY <2>1 DEF Waiting
<1>4. QED
  BY <1>1, <1>2, <1>3, FS_EmptySet DEF RunsAreCounted, ActiveIsRegistered, Registered

\* Until something is cancelled ActiveOperations is the number of registered
\* operations, and every run that began is in its handler or counted as
\* completed, for any number of operations that run at the same time.
THEOREM StatsAreExact == Spec => []StatsExact
<1>1. RunsAreCounted /\ ActiveUntilCancel => StatsExact
  <2>1. /\ MapThenSumSet(LAMBDA o : running[o], OpIDs) = SumOf(running, OpIDs)
        /\ MapThenSumSet(LAMBDA o : started[o], OpIDs) = SumOf(started, OpIDs)
    BY DEF SumOf
  <2>2. QED
    BY <2>1 DEF RunsAreCounted, ActiveUntilCancel, ActiveIsRegistered, StatsExact
<1>2. QED
  BY <1>1, InitCounts, NextCountsRuns, NextRegisters, SpecTypes, SpecFlight, PTL DEF Spec
=============================================================================
