------------------------------- MODULE Replay -------------------------------
(***************************************************************************)
(* The replay service (controller/replay_service.go) on the stream of      *)
(* EventBus.  A job is an object that its goroutine, the callback of its   *)
(* consumer and the methods of the service share without a common lock, so *)
(* each of their accesses is a step of its own; replayJobs refers to it by *)
(* its ID, which two jobs of one second can share.                        *)
(*                                                                         *)
(* The timeout of a job is a moment of its goroutine's own: 1 ms per event *)
(* and a second says nothing of how many events the callback sees by then.*)
(***************************************************************************)
EXTENDS EventBus

CONSTANTS
    Ranges,     \* what a caller asks for: a range of sequence numbers and
                \* the types its filters let through, none for a dry run
    Width,      \* bits of an unsigned sequence number
    MaxReplays, \* bound on the jobs between two restarts
    MaxClock,   \* bound on the clock
    MaxAge      \* what CleanupReplayJobs is called with

\* The types of events processReplayMessage stores.
KnownTypes == {"experiment", "log", "metric", "notification"}

ASSUME ReplayBoundsAssumption ==
    /\ Width \in Nat /\ MaxReplays \in Nat /\ MaxClock \in Nat /\ MaxAge \in Nat
    /\ 2^Width \in Nat /\ MaxMessages < 2^Width
ASSUME RangesAssumption ==
    \A r \in Ranges : r \in [from : 0..(2^Width - 1), to : 0..(2^Width - 1),
                             types : SUBSET KnownTypes]

VARIABLES
    clock,       \* time.Now().Unix()
    done,        \* is rs.ctx cancelled?
    replayJobs,  \* rs.replayJobs: job IDs to the number of a job; 0 is none
    jobs         \* the jobs in the order they were started

jobVars    == <<clock, done, replayJobs, jobs>>
replayVars == <<stream, jobVars>>

JobIDs == {<<r.from, r.to, t>> : r \in Ranges, t \in 0..MaxClock}

ReplayStatuses == {"pending", "running", "completed", "failed", "cancelled",
             "timeout"}

\* A job and the local variables of executeReplay and of its callback.
Job ==
    [range     : Ranges,
     id        : JobIDs,
     Status    : ReplayStatuses,
     EndTime   : 0..(MaxClock + 1),  \* one more than the second; 0 is zero
     at        : {"start", "running", "consuming", "ended", "failing",
                  "returned"},
     next      : Nat,           \* the next message for the callback
     processed : Nat,           \* events processed or skipped
     failed    : Nat,           \* events that could not be stored
     stored    : SUBSET SeqNumbers]

\* The type of every variable.
ReplayTypeOK ==
    /\ StreamTypeOK
    /\ clock \in 0..MaxClock
    /\ done \in BOOLEAN
    /\ replayJobs \in [JobIDs -> 0..MaxReplays]
    /\ Len(jobs) <= MaxReplays
    /\ \A n \in 1..Len(jobs) : jobs[n] \in Job

\* NewReplayService.
ReplayInit ==
    /\ StreamInit
    /\ clock = 0
    /\ done = FALSE
    /\ replayJobs = [i \in JobIDs |-> 0]
    /\ jobs = <<>>

----------------------------------------------------------------------------
(* The methods of ReplayService. *)

\* StartReplay; a job of the same ID is replaced in the map.
StartReplay(r) ==
    /\ Len(jobs) < MaxReplays
    /\ LET i == <<r.from, r.to, clock>>
       IN  /\ jobs' = Append(jobs,
                  [range |-> r, id |-> i, Status |-> "pending", EndTime |-> 0,
                   at |-> "start", next |-> r.from, processed |-> 0,
                   failed |-> 0, stored |-> {}])
           /\ replayJobs' = [replayJobs EXCEPT ![i] = Len(jobs) + 1]
    /\ UNCHANGED <<stream, clock, done>>

\* A method or a goroutine changes job n.
Update(n, job) ==
    /\ jobs' = [jobs EXCEPT ![n] = job]
    /\ UNCHANGED <<stream, clock, done, replayJobs>>

\* Mutant: the status is misspelt.
CancelMisspelt(i) ==
    LET n == replayJobs[i] IN
    /\ n # 0
    /\ jobs[n].Status \notin {"completed", "failed"}
    /\ Update(n, [jobs[n] EXCEPT !.Status = "canceled",
                                 !.EndTime = clock + 1])

\* CancelReplay sets the status; nothing tells the goroutine.
CancelReplay(i) ==
    LET n == replayJobs[i] IN
    /\ n # 0
    /\ jobs[n].Status \notin {"completed", "failed"}
    /\ Update(n, [jobs[n] EXCEPT !.Status = "cancelled",
                                 !.EndTime = clock + 1])

\* Mutant: every status but "pending" is taken for an end.
RemovableStarted(job) ==
    /\ job.Status # "pending"
    /\ clock + 1 > job.EndTime + MaxAge

\* What CleanupReplayJobs removes: a job at its end for more than MaxAge,
\* where a job without EndTime is as old as the zero time.
Removable(job) ==
    /\ job.Status \in {"completed", "failed", "cancelled"}
    /\ job.EndTime = 0 \/ clock + 1 > job.EndTime + MaxAge

CleanupReplayJobs ==
    /\ replayJobs' = [i \in JobIDs |->
           IF replayJobs[i] # 0 /\ Removable(jobs[replayJobs[i]])
           THEN 0 ELSE replayJobs[i]]
    /\ UNCHANGED <<stream, clock, done, jobs>>

\* Stop cancels the context and waits for no job: none is added to rs.wg.
Stop ==
    /\ ~done
    /\ done' = TRUE
    /\ UNCHANGED <<stream, clock, replayJobs, jobs>>

----------------------------------------------------------------------------
(* The goroutine and the callback of job n. *)

\* ToSequence - FromSequence + 1 on unsigned integers.
TotalEvents(r) == (2^Width + r.to - r.from + 1) % 2^Width

\* executeReplay begins.
Start(n) ==
    /\ jobs[n].at = "start"
    /\ Update(n, [jobs[n] EXCEPT !.Status = "running", !.at = "running"])

\* The consumer runs, or there is an error: no such stream, an empty range,
\* or a consumer refused, as it always is on a cancelled context and for
\* sequence 0.
Consume(n) ==
    /\ jobs[n].at = "running"
    /\ \/ /\ ~done /\ TotalEvents(jobs[n].range) > 0 /\ jobs[n].range.from > 0
          /\ Update(n, [jobs[n] EXCEPT !.at = "consuming"])
       \/ Update(n, [jobs[n] EXCEPT !.Status = "failed", !.at = "failing"])

\* Mutant: the end of the range is not looked at.
SeenToTheEnd(n, s) == jobs[n].at \in {"consuming", "ended"}

\* Messages after ToSequence are dropped, and all once the consumer stopped.
Seen(n, s) ==
    /\ jobs[n].at \in {"consuming", "ended"}
    /\ s <= jobs[n].range.to

\* processReplayMessage stores an event unless a filter, a dry run or an
\* unknown type is against it; it counts as processed all the same.
Stores(n, s) == messages[s].type \in jobs[n].range.types

\* The callback processes the next message of the stream that is left.  The
\* progress and the statistics follow from its counters.
Process(n, s) ==
    /\ Seen(n, s)
    /\ s >= jobs[n].next /\ s >= first /\ s <= Len(messages)
    /\ \A t \in jobs[n].next..(s - 1) : t < first
    /\ \/ Update(n, [jobs[n] EXCEPT
              !.next = s + 1, !.processed = @ + 1,
              !.stored = IF Stores(n, s) THEN @ \cup {s} ELSE @])
       \/ /\ Stores(n, s)
          /\ Update(n, [jobs[n] EXCEPT
                !.next = s + 1, !.failed = @ + 1])

\* Mutant: there is no timeout.
EndsCancelled(n) ==
    /\ jobs[n].at = "consuming"
    /\ done
    /\ Update(n, [jobs[n] EXCEPT !.Status = "cancelled", !.at = "ended"])

\* The select: the context is cancelled, or the timeout is over.
Ends(n) ==
    /\ jobs[n].at = "consuming"
    /\ \E st \in {"timeout"} \cup (IF done THEN {"cancelled"} ELSE {}) :
          Update(n, [jobs[n] EXCEPT !.Status = st, !.at = "ended"])

\* The end of executeReplay and its deferred calls: the consumer stops and
\* EndTime is set.  After Ends no status is "running", so none of them
\* becomes "completed".
Returns(n) ==
    /\ jobs[n].at \in {"ended", "failing"}
    /\ Update(n, [jobs[n] EXCEPT
          !.at = "returned", !.EndTime = clock + 1,
          !.Status = IF @ = "running" THEN "completed" ELSE @])

----------------------------------------------------------------------------
\* A second passes.
ClockTicks ==
    /\ clock < MaxClock
    /\ clock' = clock + 1
    /\ UNCHANGED <<stream, done, replayJobs, jobs>>

\* The controller is restarted: its jobs are gone.
RestartReplay ==
    /\ done' = FALSE
    /\ replayJobs' = [i \in JobIDs |-> 0]
    /\ jobs' = <<>>
    /\ UNCHANGED <<stream, clock>>

Goroutine(n) == Start(n) \/ Consume(n) \/ Ends(n) \/ Returns(n)

ReplayNext ==
    \/ Stream /\ UNCHANGED jobVars
    \/ \E r \in Ranges : StartReplay(r)
    \/ \E i \in JobIDs : CancelReplay(i)
    \/ CleanupReplayJobs
    \/ Stop
    \/ \E n \in 1..Len(jobs) :
          Goroutine(n) \/ \E s \in SeqNumbers : Process(n, s)
    \/ ClockTicks
    \/ RestartReplay

ReplaySpec == ReplayInit /\ [][ReplayNext]_replayVars

\* The goroutine of a job runs; its requests to the server end with an answer
\* or an error, and time.After fires.
ReplayFairness ==
    \A n \in 1..MaxReplays : WF_replayVars(n <= Len(jobs) /\ Goroutine(n))

----------------------------------------------------------------------------
\* A job stores events of its range only, and its progress, the events seen
\* of its total, stays within 100 percent, although its consumer runs to the
\* end of the stream and beyond the end of the job, and the total of a
\* reversed range wraps around (controller/replay_service.go: totalEvents and
\* the callback of executeReplay).
ReplayInRange ==
    \A n \in 1..Len(jobs) :
        LET job == jobs[n] IN
        /\ job.stored \subseteq job.range.from..job.range.to
        /\ job.processed + job.failed <= TotalEvents(job.range)

\* A job that nobody cancelled (it has no EndTime) is listed while it
\* replays, so that a caller can follow it, unless a job of the same range
\* and second took its ID
\* (controller/replay_service.go: StartReplay, CleanupReplayJobs).
ListedWhileReplaying ==
    \A n \in 1..Len(jobs) :
        jobs[n].at = "consuming" /\ jobs[n].EndTime = 0 =>
            \E m \in n..Len(jobs) :
                /\ jobs[m].id = jobs[n].id
                /\ m = n => replayJobs[jobs[n].id] = n

\* Every job ends: at the latest its timeout fires, cancelled or not, or the
\* controller is restarted
\* (controller/replay_service.go: the select of executeReplay).
EveryJobEnds ==
    \A n \in 1..MaxReplays :
        (n <= Len(jobs) /\ jobs[n].at = "start")
            ~> (n <= Len(jobs) => jobs[n].at = "returned")
============================================================================
