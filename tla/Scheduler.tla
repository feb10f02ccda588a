----------------------------- MODULE Scheduler -----------------------------
(***************************************************************************)
(* The agent's Scheduler (agent/scheduler.go): a hierarchical timing wheel *)
(* driven by a ticker, operations that run in goroutines of their own, and *)
(* statistics.  Everything under s.mu is one step; a handler runs without  *)
(* it.  Time is counted in the unit of the clock; the ticker fires every   *)
(* SlotSize units and drops a tick that finds the last one unread.         *)
(* A slice index that is negative ends the process (panicked).             *)
(***************************************************************************)
EXTENDS Integers, Sequences, FiniteSetsExt, SequencesExt

CONSTANTS
    Levels,      \* number of wheels
    SlotCount,   \* SlotCount[l]: slots of wheel l
    SlotSize,    \* duration of a slot of the first wheel
    MaxOps,      \* bound on the operations scheduled
    MaxTime,     \* bound on the clock
    Delays,      \* RunAt - time.Now() a caller may ask for
    Intervals,   \* intervals a caller may ask for
    Jitters,     \* jitter that may be added to the first run
    CronStep     \* parseCronExpression: one minute, whatever the expression

ASSUME WheelAssumption ==
    /\ Levels \in Nat \ {0}
    /\ SlotCount \in [1..Levels -> Nat \ {0}]
    /\ SlotSize \in Nat \ {0}
ASSUME BoundsAssumption ==
    /\ MaxOps \in Nat /\ MaxTime \in Nat
    /\ CronStep \in Nat \ {0}
ASSUME CallerAssumption ==
    /\ Delays \subseteq Int /\ Intervals \subseteq Nat
    /\ Jitters \subseteq Nat

OpIDs == 0..(MaxOps - 1)
Wheels == 1..Levels
Positions(l) == 0..(SlotCount[l] - 1)

VARIABLES
    now,         \* the clock
    tickReady,   \* ticker.C holds a tick
    slots,       \* slots[l][k]: the operations in slot k of wheel l
    currentSlot, \* per wheel
    ops,         \* the ScheduledOperation objects ever created, by ID
    operations,  \* s.operations: the registered IDs
    nextOpID,
    running,     \* running[o]: goroutines in the handler of o
    finishing,   \* finishing[o]: goroutines past the statistics of o
    stats,       \* SchedulerStats
    ctxDone,     \* s.cancel was called
    ticking,     \* the ticker goroutine is alive
    stopped,     \* Stop or Shutdown returned after the last goroutine
    panicked,    \* the process is gone
    started,     \* history: started[o] counts the runs of o that began
    cancelled    \* history: IDs for which CancelOperation returned nil

wheel == <<slots, currentSlot>>
table == <<ops, operations, nextOpID>>
flight == <<running, finishing, started>>
life == <<ctxDone, ticking, stopped, panicked>>
vars == <<now, tickReady, wheel, table, flight, stats, life, cancelled>>

Operation ==
    [Type : {"once", "repeating", "cron"}, NextRun : Int, Created : Int,
     Interval : Nat, RunCount : Nat]

\* The type of every variable; a slot holds IDs.
TypeOK ==
    /\ now \in 0..MaxTime /\ tickReady \in BOOLEAN
    /\ \A l \in Wheels :
          /\ currentSlot[l] \in Positions(l)
          /\ DOMAIN slots[l] = Positions(l)
          /\ \A k \in Positions(l) : Range(slots[l][k]) \subseteq DOMAIN ops
    /\ nextOpID \in 0..MaxOps
    /\ DOMAIN ops \subseteq 0..(nextOpID - 1)
    /\ \A o \in DOMAIN ops : ops[o] \in Operation
    /\ operations \subseteq DOMAIN ops
    /\ running \in [OpIDs -> Nat] /\ finishing \in [OpIDs -> Nat]
    /\ started \in [OpIDs -> Nat]
    /\ stats \in [total : Nat, active : Int, completed : Nat]
    /\ {ctxDone, ticking, stopped, panicked} \subseteq BOOLEAN
    /\ cancelled \subseteq DOMAIN ops

Init ==
    /\ now = 0 /\ tickReady = FALSE
    /\ slots = [l \in Wheels |-> [k \in Positions(l) |-> <<>>]]
    /\ currentSlot = [l \in Wheels |-> 0]
    /\ ops = <<>> /\ operations = {} /\ nextOpID = 0
    /\ running = [o \in OpIDs |-> 0]
    /\ finishing = [o \in OpIDs |-> 0]
    /\ started = [o \in OpIDs |-> 0]
    /\ stats = [total |-> 0, active |-> 0, completed |-> 0]
    /\ ctxDone = FALSE /\ ticking = TRUE /\ stopped = FALSE
    /\ panicked = FALSE
    /\ cancelled = {}

-----------------------------------------------------------------------------
(* scheduleOperation: which wheel and which slot. *)

\* The duration of a slot of wheel l: a full turn of the wheel below it.
SizeOf[l \in Wheels] ==
    IF l = 1 THEN SlotSize ELSE SizeOf[l - 1] * SlotCount[l - 1]

\* The first wheel that spans the delay, the last one if none does.
TargetWheel(delay) ==
    LET spanning == {l \in Wheels : delay < SlotCount[l] * SizeOf[l]}
    IN  IF spanning = {} THEN Levels ELSE Min(spanning)

\* Mutant: the division rounds away from zero.
SlotIndexRoundsUp(delay) ==
    LET l == TargetWheel(delay)
        size == SizeOf[l] IN
    IF delay >= 0 THEN (delay \div size) % SlotCount[l]
                  ELSE -(((size - 1 - delay) \div size) % SlotCount[l])

\* int(delay / slotSize) % slotCount truncates towards zero: the index of a
\* negative delay is zero or negative.
SlotIndex(delay) ==
    LET l == TargetWheel(delay) IN
    IF delay >= 0 THEN (delay \div SizeOf[l]) % SlotCount[l]
                  ELSE -(((-delay) \div SizeOf[l]) % SlotCount[l])

\* The slot is counted from the start of the wheel, not from currentSlot.
Place(o, nextRun) ==
    LET delay == nextRun - now
        l == TargetWheel(delay)
        k == SlotIndex(delay)
    IN  IF k < 0
        THEN panicked' = TRUE /\ UNCHANGED slots
        ELSE slots' = [slots EXCEPT ![l][k] = Append(@, o)]
             /\ UNCHANGED panicked

-----------------------------------------------------------------------------
(* The exported methods. *)

\* The first run, before jitter.
FirstRun(type, d, i) ==
    CASE type = "once" -> now + d
      [] type = "repeating" -> now + i
      [] type = "cron" -> now + CronStep

\* RepeatCount is not kept: executeOperation reads the MaxRuns of the
\* operation, which nothing sets, so a repeating operation has no last run.
ScheduleOperation(type, d, i, j) ==
    /\ ~panicked /\ nextOpID < MaxOps
    /\ LET o == nextOpID
           nextRun == FirstRun(type, d, i) + j
       IN  /\ ops' = [x \in DOMAIN ops \cup {o} |->
                  IF x = o THEN [Type |-> type, NextRun |-> nextRun,
                                 Created |-> now, Interval |-> i,
                                 RunCount |-> 0]
                           ELSE ops[x]]
           /\ operations' = operations \cup {o}
           /\ Place(o, nextRun)
    /\ nextOpID' = nextOpID + 1
    /\ stats' = [stats EXCEPT !.total = @ + 1, !.active = @ + 1]
    /\ UNCHANGED <<now, tickReady, currentSlot, flight, ctxDone, ticking,
                   stopped, cancelled>>

\* Mutant: the ID is registered before the type is looked at.
ScheduleUnsupportedRegistered ==
    /\ ~panicked /\ nextOpID < MaxOps
    /\ nextOpID' = nextOpID + 1
    /\ operations' = operations \cup {nextOpID}
    /\ UNCHANGED <<now, tickReady, wheel, ops, flight, stats, life, cancelled>>

\* An unsupported type is refused after the ID was taken.
ScheduleUnsupported ==
    /\ ~panicked /\ nextOpID < MaxOps
    /\ nextOpID' = nextOpID + 1
    /\ UNCHANGED <<now, tickReady, wheel, ops, operations, flight, stats,
                   life, cancelled>>

\* append(slot[:i], slot[i+1:]...) shifts the array the slot shares with the
\* wheel, whose slice keeps its length: the last element is there twice, and
\* stays if it was the one to remove.
Shifted(s, o) ==
    IF o \notin Range(s) THEN s
    ELSE LET i == SelectInSeq(s, LAMBDA x : x = o)
         IN  Append(RemoveAt(s, i), Last(s))

CancelOperation(o) ==
    /\ ~panicked
    /\ o \in operations
    /\ slots' = [l \in Wheels |-> [k \in Positions(l) |->
                    Shifted(slots[l][k], o)]]
    /\ operations' = operations \ {o}
    /\ stats' = [stats EXCEPT !.active = @ - 1]
    /\ cancelled' = cancelled \cup {o}
    /\ UNCHANGED <<now, tickReady, currentSlot, ops, nextOpID, flight, life>>

\* Stop and Shutdown cancel the context...
Stop ==
    /\ ~panicked /\ ~ctxDone
    /\ ctxDone' = TRUE
    /\ UNCHANGED <<now, tickReady, wheel, table, flight, stats, ticking,
                   stopped, panicked, cancelled>>

\* Mutant: the goroutines of operations are not in the WaitGroup.
IdleTickerOnly == ~ticking

\* ... and return when the WaitGroup is at zero.
Idle == ~ticking /\ \A o \in OpIDs : running[o] = 0 /\ finishing[o] = 0

StopReturns ==
    /\ ~panicked /\ ctxDone /\ ~stopped
    /\ Idle
    /\ stopped' = TRUE
    /\ UNCHANGED <<now, tickReady, wheel, table, flight, stats, ctxDone,
                   ticking, panicked, cancelled>>

-----------------------------------------------------------------------------
(* The ticker goroutine and the goroutines of the operations. *)

\* The wheels a tick advances: each one whose lower wheels all wrap around.
NextSlot(l) == (currentSlot[l] + 1) % SlotCount[l]
Advanced == {l \in Wheels : \A k \in 1..(l - 1) : NextSlot(k) = 0}

\* Mutant: NextRun is not compared with the time.
DueAlways(o) == o \in DOMAIN ops

\* Where o is in the slots reached; it runs that often if it is due.
Reached(o) ==
    UNION {{<<l, n>> : n \in {m \in DOMAIN slots[l][NextSlot(l)] :
                                slots[l][NextSlot(l)][m] = o}} : l \in Advanced}
Due(o) == o \in DOMAIN ops /\ ops[o].NextRun < now
RunsOf(o) == IF Due(o) THEN Cardinality(Reached(o)) ELSE 0

\* Mutant: the slots reached keep their operations.
TickKeepsSlots ==
    /\ ~panicked /\ ticking /\ tickReady
    /\ tickReady' = FALSE
    /\ currentSlot' = [l \in Wheels |->
           IF l \in Advanced THEN NextSlot(l) ELSE currentSlot[l]]
    /\ running' = [o \in OpIDs |-> running[o] + RunsOf(o)]
    /\ started' = [o \in OpIDs |-> started[o] + RunsOf(o)]
    /\ UNCHANGED <<now, slots, table, finishing, stats, life, cancelled>>

\* tick: the slots reached are emptied, what is not due included.
Tick ==
    /\ ~panicked /\ ticking /\ tickReady
    /\ tickReady' = FALSE
    /\ currentSlot' = [l \in Wheels |->
           IF l \in Advanced THEN NextSlot(l) ELSE currentSlot[l]]
    /\ slots' = [l \in Wheels |->
           IF l \in Advanced THEN [slots[l] EXCEPT ![NextSlot(l)] = <<>>]
                             ELSE slots[l]]
    /\ running' = [o \in OpIDs |-> running[o] + RunsOf(o)]
    /\ started' = [o \in OpIDs |-> started[o] + RunsOf(o)]
    /\ UNCHANGED <<now, table, finishing, stats, life, cancelled>>

TickerStops ==
    /\ ~panicked /\ ticking /\ ctxDone
    /\ ticking' = FALSE
    /\ UNCHANGED <<now, tickReady, wheel, table, flight, stats, ctxDone,
                   stopped, panicked, cancelled>>

\* Mutants: the run is not counted; the handler does not return once the
\* context is cancelled.
HandlerReturnsUncounted(o) ==
    /\ ~panicked /\ running[o] > 0
    /\ running' = [running EXCEPT ![o] = @ - 1]
    /\ finishing' = [finishing EXCEPT ![o] = @ + 1]
    /\ UNCHANGED <<now, tickReady, wheel, table, started, stats, life, cancelled>>
HandlerIgnoresContext(o) ==
    /\ ~ctxDone
    /\ ~panicked /\ running[o] > 0
    /\ running' = [running EXCEPT ![o] = @ - 1]
    /\ finishing' = [finishing EXCEPT ![o] = @ + 1]
    /\ stats' = [stats EXCEPT !.completed = @ + 1]
    /\ UNCHANGED <<now, tickReady, wheel, table, started, life, cancelled>>

\* The handler returns and the statistics count the run, under stats.mu.
HandlerReturns(o) ==
    /\ ~panicked /\ running[o] > 0
    /\ running' = [running EXCEPT ![o] = @ - 1]
    /\ finishing' = [finishing EXCEPT ![o] = @ + 1]
    /\ stats' = [stats EXCEPT !.completed = @ + 1]
    /\ UNCHANGED <<now, tickReady, wheel, table, started, life, cancelled>>

\* Then, under s.mu, a repeating or cron operation is placed again, whether
\* or not it was cancelled, and a one-time operation is removed.
OperationDone(o) ==
    /\ ~panicked /\ finishing[o] > 0
    /\ finishing' = [finishing EXCEPT ![o] = @ - 1]
    /\ LET step == IF ops[o].Type = "cron" THEN CronStep ELSE ops[o].Interval
           nextRun == ops[o].NextRun + step
       IN  IF ops[o].Type \in {"repeating", "cron"}
           THEN /\ ops' = [ops EXCEPT ![o].RunCount = @ + 1,
                                      ![o].NextRun = nextRun]
                /\ Place(o, nextRun)
                /\ UNCHANGED <<operations, stats>>
           ELSE /\ ops' = [ops EXCEPT ![o].RunCount = @ + 1]
                /\ operations' = operations \ {o}
                /\ stats' = [stats EXCEPT !.active = @ - 1]
                /\ UNCHANGED <<slots, panicked>>
    /\ UNCHANGED <<now, tickReady, currentSlot, nextOpID, running, started,
                   ctxDone, ticking, stopped, cancelled>>

\* Time passes; every SlotSize units the ticker sends, unless its channel,
\* of capacity one, is full.
Clock ==
    /\ ~panicked /\ now < MaxTime
    /\ now' = now + 1
    /\ tickReady' = (tickReady \/ (ticking /\ now' % SlotSize = 0))
    /\ UNCHANGED <<wheel, table, flight, stats, life, cancelled>>

-----------------------------------------------------------------------------

Schedules ==
    \/ \E d \in Delays, j \in Jitters : ScheduleOperation("once", d, 0, j)
    \/ \E i \in Intervals, j \in Jitters :
           ScheduleOperation("repeating", 0, i, j)
    \/ \E j \in Jitters : ScheduleOperation("cron", 0, 0, j)
    \/ ScheduleUnsupported

Runtime ==
    \/ Clock
    \/ Tick
    \/ TickerStops
    \/ \E o \in OpIDs : HandlerReturns(o) \/ OperationDone(o)
    \/ StopReturns

Next == Schedules \/ Runtime \/ Stop \/ \E o \in OpIDs : CancelOperation(o)

Spec == Init /\ [][Next]_vars

\* select takes the cancelled context sooner or later, handlers return (they
\* are given a context that is cancelled or times out), and goroutines that
\* wait for s.mu or for the WaitGroup proceed.
FairSpec ==
    /\ Spec
    /\ WF_vars(TickerStops) /\ WF_vars(StopReturns)
    /\ \A o \in OpIDs : WF_vars(HandlerReturns(o)) /\ WF_vars(OperationDone(o))

-----------------------------------------------------------------------------
(* Properties. *)

\* The places of an operation: slots that hold it, as <<wheel, slot, index>>.
Places(o) ==
    UNION {UNION {{<<l, k, n>> : n \in {m \in DOMAIN slots[l][k] : slots[l][k][m] = o}} :
                  k \in Positions(l)} : l \in Wheels}

\* Until something is cancelled an operation is in one place at most: in one
\* slot of one wheel, or in one goroutine.  So no run overlaps another run of
\* the same operation, and a one-time operation runs once, although slots are
\* shared by the wheels and refilled by goroutines (executeOperation).
SingleFlight ==
    cancelled = {} =>
        \A o \in DOMAIN ops :
            /\ Cardinality(Places(o)) + running[o] + finishing[o] <= 1
            /\ ops[o].Type = "once" => started[o] <= 1

\* A repeating operation never runs faster than its interval, however late
\* its slot is reached: its n-th run begins after n intervals (executeOperation
\* counts from NextRun, advanceWheel compares with it).
RunsKeepInterval ==
    cancelled = {} =>
        \A o \in DOMAIN ops :
            ops[o].Type = "repeating"
                => started[o] * ops[o].Interval <= now - ops[o].Created

\* Until something is cancelled ActiveOperations is the number of registered
\* operations, and every run begun is in its handler or counted as completed.
StatsExact ==
    cancelled = {} =>
        /\ stats.active = Cardinality(operations)
        /\ stats.completed + MapThenSumSet(LAMBDA o : running[o], OpIDs)
               = MapThenSumSet(LAMBDA o : started[o], OpIDs)

\* "Stop stops the scheduler and waits for all operations to complete": once
\* it returned no handler runs and none is ever started, although a last tick
\* may win against the cancelled context and callers may go on scheduling.
StopIsFinal ==
    [][stopped => /\ \A o \in OpIDs : running[o] = 0 /\ finishing[o] = 0
                  /\ started' = started]_vars

\* Stop returns, whatever runs when it is called, unless the process is gone.
StopTerminates == ctxDone ~> (stopped \/ panicked)

\* Only an operation that is late by a slot of the first wheel or more ends
\* the process: a RunAt in the past, or a handler that outlasts its interval
\* (the index of a negative delay in scheduleOperation).
PanicOnlyWhenLate ==
    panicked => \E o \in DOMAIN ops : now - ops[o].NextRun >= SlotSize

-----------------------------------------------------------------------------
(* What a comment and a test say and the code does not do. *)

\* "advanceWheel advances a timing wheel and cascades operations"
\* (scheduler.go:169): a registered one-time operation that has not run yet
\* is in a wheel.  The slot is cleared also of operations that are not due.
NeverDropped ==
    \A o \in operations :
        ops[o].Type = "once" /\ started[o] = 0 => Places(o) # {}
=============================================================================
