----------------------------- MODULE ReplayProofs -----------------------------
(* Proofs about Replay, for any streams, ranges and numbers of jobs.         *)
EXTENDS Replay, Integers, TLAPS

-----------------------------------------------------------------------------
(* Sequence numbers. *)

\* A range that is not reversed and does not start at 0 has its own length.
LEMMA TotalIs ==
    ASSUME NEW r \in Ranges, 0 < r.from, r.from <= r.to
    PROVE  TotalEvents(r) = r.to - r.from + 1
<1> DEFINE M == 2^Width
           x == r.to - r.from + 1
<1>1. M \in Nat /\ r.from \in 0..(M - 1) /\ r.to \in 0..(M - 1)
  BY ReplayBoundsAssumption, RangesAssumption
<1>2. TotalEvents(r) = (M + x) % M
  <2> HIDE DEF M
  <2>1. M + r.to - r.from + 1 = M + x
    BY <1>1
  <2>2. QED
    BY <2>1 DEF TotalEvents, M
<1> HIDE DEF M
<1>3. x \in 1..(M - 1)
  BY <1>1
<1> HIDE DEF x
<1>4. (M + x) % M = x
  BY <1>1, <1>3
<1>5. QED
  BY <1>2, <1>4 DEF x

LEMMA TotalNatural ==
    ASSUME NEW r \in Ranges
    PROVE  TotalEvents(r) \in Nat
<1> DEFINE M == 2^Width
           x == M + r.to - r.from + 1
<1>1. M \in Nat /\ r.from \in 0..(M - 1) /\ r.to \in 0..(M - 1)
  BY ReplayBoundsAssumption, RangesAssumption
<1>2. TotalEvents(r) = x % M
  BY DEF TotalEvents
<1> HIDE DEF M
<1>3. x \in Int /\ M > 0
  BY <1>1
<1> HIDE DEF x
<1>4. QED
  BY <1>1, <1>2, <1>3

-----------------------------------------------------------------------------
(* The invariant: what holds of one job, and who lists it. *)

Live(job) == job.at \in {"start", "running", "consuming"} /\ job.EndTime = 0

\* Between the first message and next it has seen each at most once, within
\* the range; it is not at an end while it is live.
JobOK(job) ==
    /\ job \in Job
    /\ job.stored \subseteq job.range.from..job.range.to
    /\ job.processed + job.failed <= job.next - job.range.from
    /\ job.next # job.range.from =>
          0 < job.range.from /\ job.range.from <= job.range.to
          /\ job.next <= job.range.to + 1
    /\ job.at \in {"consuming", "ended"} => 0 < job.range.from
    /\ Live(job) => job.Status \in {"pending", "running"}

Listed(n) ==
    \E m \in n..Len(jobs) :
        /\ jobs[m].id = jobs[n].id
        /\ m = n => replayJobs[jobs[n].id] = n

ReplayInv ==
    /\ StreamTypeOK
    /\ clock \in 0..MaxClock /\ done \in BOOLEAN
    /\ jobs \in Seq(Job) /\ Len(jobs) <= MaxReplays
    /\ replayJobs \in [JobIDs -> 0..Len(jobs)]
    /\ \A n \in 1..Len(jobs) :
          JobOK(jobs[n]) /\ (Live(jobs[n]) => Listed(n))

LEMMA InvProperties == ReplayInv => ReplayTypeOK /\ ReplayInRange /\ ListedWhileReplaying
<1> SUFFICES ASSUME ReplayInv PROVE ReplayTypeOK /\ ReplayInRange /\ ListedWhileReplaying
  OBVIOUS
<1>1. ReplayTypeOK
  BY ReplayBoundsAssumption DEF ReplayInv, ReplayTypeOK, JobOK
<1>2. ReplayInRange
  <2> SUFFICES ASSUME NEW n \in 1..Len(jobs)
               PROVE  /\ jobs[n].stored \subseteq jobs[n].range.from..jobs[n].range.to
                      /\ jobs[n].processed + jobs[n].failed <= TotalEvents(jobs[n].range)
    BY DEF ReplayInRange
  <2> DEFINE job == jobs[n]
  <2>1. JobOK(job)
    BY DEF ReplayInv
  <2> HIDE DEF job
  <2>2. /\ job.range \in Ranges /\ job.next \in Nat
        /\ job.processed \in Nat /\ job.failed \in Nat
    BY <2>1 DEF JobOK, Job
  <2>3. job.range.from \in Nat /\ job.range.to \in Nat
    BY <2>2, RangesAssumption, ReplayBoundsAssumption
  <2>4. CASE job.next = job.range.from
    <3>1. job.processed + job.failed = 0
      BY <2>1, <2>2, <2>3, <2>4 DEF JobOK
    <3>2. QED
      BY <2>1, <2>2, <3>1, TotalNatural DEF JobOK, job
  <2>5. CASE job.next # job.range.from
    <3>1. TotalEvents(job.range) = job.range.to - job.range.from + 1
      BY <2>1, <2>2, <2>5, TotalIs DEF JobOK
    <3>2. job.processed + job.failed <= TotalEvents(job.range)
      <4> DEFINE P == job.processed + job.failed
                 A == job.range.from
                 T == job.range.to
      <4>1. P <= job.next - A /\ job.next <= T + 1
        BY <2>1, <2>5 DEF JobOK
      <4>2. P \in Nat /\ A \in Nat /\ T \in Nat /\ job.next \in Nat
        BY <2>2, <2>3
      <4>3. TotalEvents(job.range) = T - A + 1
        BY <3>1
      <4> HIDE DEF P, A, T
      <4>4. P <= TotalEvents(job.range)
        BY <4>1, <4>2, <4>3
      <4>5. QED
        BY <4>4 DEF P
    <3>3. QED
      BY <2>1, <3>2 DEF JobOK, job
  <2>6. QED
    BY <2>4, <2>5
<1>3. ListedWhileReplaying
  BY DEF ReplayInv, ListedWhileReplaying, Live, Listed
<1>4. QED
  BY <1>1, <1>2, <1>3

-----------------------------------------------------------------------------
(* One lemma for each action. *)

LEMMA StreamKeeps == ReplayInv /\ Stream /\ UNCHANGED jobVars => ReplayInv'
<1> SUFFICES ASSUME ReplayInv, Stream, UNCHANGED jobVars PROVE ReplayInv'
  OBVIOUS
<1>1. StreamTypeOK'
  <2>1. CASE Discard
    BY <2>1 DEF Discard, ReplayInv, StreamTypeOK
  <2>2. ASSUME NEW x \in Events, Publish(x) PROVE StreamTypeOK'
    BY <2>2, MessagesAssumption DEF Publish, ReplayInv, StreamTypeOK
  <2>3. QED
    BY <2>1, <2>2 DEF Stream
<1>2. QED
  BY <1>1 DEF ReplayInv, jobVars, Listed

LEMMA StartReplayKeeps ==
    ASSUME ReplayInv, NEW r \in Ranges, StartReplay(r)
    PROVE  ReplayInv'
<1> DEFINE i == <<r.from, r.to, clock>>
           job == [range |-> r, id |-> i, Status |-> "pending", EndTime |-> 0,
                   at |-> "start", next |-> r.from, processed |-> 0,
                   failed |-> 0, stored |-> {}]
           last == Len(jobs) + 1
<1>1. /\ jobs \in Seq(Job) /\ Len(jobs) \in Nat /\ Len(jobs) < MaxReplays /\ MaxReplays \in Nat
      /\ clock \in 0..MaxClock /\ MaxClock \in Nat
  BY ReplayBoundsAssumption DEF ReplayInv, StartReplay
<1>2. r.from \in Nat /\ i \in JobIDs
  BY <1>1, RangesAssumption, ReplayBoundsAssumption DEF JobIDs
<1>3. jobs' = Append(jobs, job) /\ replayJobs' = [replayJobs EXCEPT ![i] = last]
      /\ UNCHANGED <<stream, clock, done>>
  BY DEF StartReplay
<1> HIDE DEF i
<1>4. JobOK(job) /\ job.id = i
  <2>1. 0 \in 0..(MaxClock + 1)
    BY <1>1
  <2>2. job \in Job
    BY <1>2, <2>1 DEF Job, ReplayStatuses
  <2>3. QED
    BY <1>2, <2>2 DEF JobOK, Live
<1> HIDE DEF job
<1>5. /\ jobs' \in Seq(Job) /\ Len(jobs') = last /\ jobs'[last] = job
      /\ \A n \in 1..Len(jobs) : jobs'[n] = jobs[n]
  BY <1>1, <1>3, <1>4 DEF JobOK
<1>6. replayJobs' \in [JobIDs -> 0..last] /\ replayJobs'[i] = last
      /\ \A x \in JobIDs : x # i => replayJobs'[x] = replayJobs[x]
  BY <1>1, <1>2, <1>3 DEF ReplayInv
<1>7. ASSUME NEW n \in 1..Len(jobs'), Live(jobs'[n]) PROVE Listed(n)'
  <2>1. CASE jobs'[n].id = i
    <3>1. /\ last \in n..Len(jobs') /\ jobs'[last].id = jobs'[n].id
          /\ replayJobs'[jobs'[n].id] = last
      BY <1>1, <1>4, <1>5, <1>6, <2>1
    <3>2. QED
      BY <3>1 DEF Listed
  <2>2. CASE jobs'[n].id # i
    <3>1. n \in 1..Len(jobs) /\ jobs'[n] = jobs[n]
      BY <1>1, <1>4, <1>5, <2>2
    <3>2. PICK m \in n..Len(jobs) : /\ jobs[m].id = jobs[n].id
                                    /\ m = n => replayJobs[jobs[n].id] = n
      BY <1>7, <3>1 DEF ReplayInv, Listed
    <3>3. m \in 1..Len(jobs) /\ m \in n..Len(jobs')
      BY <1>1, <1>5, <3>1
    <3>4. jobs'[m] = jobs[m] /\ jobs[n].id \in JobIDs
      <4>1. jobs'[m] = jobs[m]
        BY <1>5, <3>3
      <4>2. jobs[n] \in Job
        BY <1>1, <3>1
      <4>3. QED
        BY <4>1, <4>2 DEF Job
    <3>5. m = n => replayJobs'[jobs'[n].id] = n
      BY <1>6, <2>2, <3>1, <3>2, <3>4
    <3>6. QED
      BY <3>1, <3>2, <3>3, <3>4, <3>5 DEF Listed
  <2>3. QED
    BY <2>1, <2>2
<1>8. ASSUME NEW n \in 1..Len(jobs') PROVE JobOK(jobs'[n])
  BY <1>1, <1>4, <1>5 DEF ReplayInv
<1>9. StreamTypeOK'
  BY <1>3 DEF ReplayInv, StreamTypeOK, stream
<1>10. QED
  BY <1>1, <1>3, <1>5, <1>6, <1>7, <1>8, <1>9 DEF ReplayInv

\* A change of job n that its goroutine, its callback or a method makes.
LEMMA UpdateKeeps ==
    ASSUME ReplayInv, NEW n \in 1..Len(jobs), NEW job, JobOK(job),
           job.id = jobs[n].id, Live(job) => Live(jobs[n]), Update(n, job)
    PROVE  ReplayInv'
<1>1. /\ jobs' = [jobs EXCEPT ![n] = job] /\ jobs \in Seq(Job) /\ job \in Job
      /\ UNCHANGED <<stream, clock, done, replayJobs>>
  BY DEF Update, ReplayInv, JobOK
<1>2. /\ jobs' \in Seq(Job) /\ Len(jobs') = Len(jobs) /\ jobs'[n] = job
      /\ \A m \in 1..Len(jobs) : m # n => jobs'[m] = jobs[m]
  BY <1>1
<1>3. \A m \in 1..Len(jobs) : jobs'[m].id = jobs[m].id
  BY <1>2
<1>4. ASSUME NEW m \in 1..Len(jobs'), Live(jobs'[m]) PROVE Listed(m)'
  <2>1. m \in 1..Len(jobs) /\ Live(jobs[m])
    BY <1>2, <1>4
  <2>2. PICK k \in m..Len(jobs) : /\ jobs[k].id = jobs[m].id
                                  /\ k = m => replayJobs[jobs[m].id] = m
    BY <2>1 DEF ReplayInv, Listed
  <2>3. k \in 1..Len(jobs) /\ k \in m..Len(jobs')
    BY <1>2, <2>1
  <2>4. jobs'[k].id = jobs'[m].id /\ (k = m => replayJobs'[jobs'[m].id] = m)
    BY <1>1, <1>3, <2>1, <2>2, <2>3
  <2>5. QED
    BY <2>3, <2>4 DEF Listed
<1>5. ASSUME NEW m \in 1..Len(jobs') PROVE JobOK(jobs'[m])
  BY <1>2 DEF ReplayInv
<1>6. StreamTypeOK'
  BY <1>1 DEF ReplayInv, StreamTypeOK, stream
<1>7. QED
  BY <1>1, <1>2, <1>4, <1>5, <1>6 DEF ReplayInv

LEMMA CleanupKeeps == ReplayInv /\ CleanupReplayJobs => ReplayInv'
<1> SUFFICES ASSUME ReplayInv, CleanupReplayJobs PROVE ReplayInv'
  OBVIOUS
<1>1. /\ UNCHANGED <<stream, clock, done, jobs>>
      /\ replayJobs' \in [JobIDs -> 0..Len(jobs)]
      /\ \A i \in JobIDs : replayJobs[i] # 0 /\ ~Removable(jobs[replayJobs[i]])
                              => replayJobs'[i] = replayJobs[i]
  BY DEF CleanupReplayJobs, ReplayInv
<1>2. ASSUME NEW n \in 1..Len(jobs), Live(jobs[n]) PROVE Listed(n)'
  <2>1. JobOK(jobs[n]) /\ jobs[n].id \in JobIDs
    BY DEF ReplayInv, JobOK, Job
  <2>2. ~Removable(jobs[n])
    BY <1>2, <2>1 DEF JobOK, Removable
  <2>3. PICK m \in n..Len(jobs) : /\ jobs[m].id = jobs[n].id
                                  /\ m = n => replayJobs[jobs[n].id] = n
    BY <1>2 DEF ReplayInv, Listed
  <2>4. m = n => replayJobs'[jobs[n].id] = n
    BY <1>1, <2>1, <2>2, <2>3
  <2>5. QED
    BY <1>1, <2>3, <2>4 DEF Listed
<1>3. StreamTypeOK'
  BY <1>1 DEF ReplayInv, StreamTypeOK, stream
<1>4. QED
  BY <1>1, <1>2, <1>3 DEF ReplayInv

\* What is known of a job.
LEMMA JobFields ==
    ASSUME NEW old \in Job
    PROVE  /\ old.range \in Ranges /\ old.id \in JobIDs /\ old.Status \in ReplayStatuses
           /\ old.EndTime \in 0..(MaxClock + 1)
           /\ old.at \in {"start", "running", "consuming", "ended", "failing", "returned"}
           /\ old.next \in Nat /\ old.processed \in Nat /\ old.failed \in Nat
           /\ old.stored \in SUBSET SeqNumbers
BY DEF Job

\* Steps that leave the counters of a job alone.
LEMMA CountersKeep ==
    ASSUME NEW old, NEW new, JobOK(old), new \in Job,
           new.range = old.range, new.next = old.next,
           new.processed = old.processed, new.failed = old.failed,
           new.stored = old.stored,
           new.at \in {"consuming", "ended"} => 0 < old.range.from,
           Live(new) => new.Status \in {"pending", "running"}
    PROVE  JobOK(new)
BY DEF JobOK

LEMMA CancelKeeps ==
    ASSUME ReplayInv, NEW i \in JobIDs, CancelReplay(i)
    PROVE  ReplayInv'
<1> DEFINE n == replayJobs[i]
           new == [jobs[n] EXCEPT !.Status = "cancelled", !.EndTime = clock + 1]
<1>1. n \in 1..Len(jobs) /\ Update(n, new)
  BY DEF ReplayInv, CancelReplay
<1>2. JobOK(jobs[n]) /\ jobs[n] \in Job /\ clock + 1 \in 1..(MaxClock + 1)
  BY <1>1, ReplayBoundsAssumption DEF ReplayInv, JobOK
<1> HIDE DEF n
<1>3. /\ new \in Job /\ new.EndTime # 0 /\ new.id = jobs[n].id /\ new.at = jobs[n].at
      /\ new.range = jobs[n].range /\ new.next = jobs[n].next
      /\ new.processed = jobs[n].processed /\ new.failed = jobs[n].failed
      /\ new.stored = jobs[n].stored
  <2> DEFINE old == jobs[n]
             end == clock + 1
             st == "cancelled"
  <2>1. end \in 0..(MaxClock + 1) /\ end # 0 /\ st \in ReplayStatuses /\ old \in Job
    BY <1>2 DEF ReplayStatuses
  <2>2. new = [old EXCEPT !.Status = st, !.EndTime = end]
    OBVIOUS
  <2> HIDE DEF end, old, st, new
  <2>3. new \in Job
    BY <2>1, <2>2 DEF Job
  <2>4. /\ new.EndTime # 0 /\ new.id = old.id /\ new.at = old.at
        /\ new.range = old.range /\ new.next = old.next
        /\ new.processed = old.processed /\ new.failed = old.failed
        /\ new.stored = old.stored
    BY <2>1, <2>2 DEF Job
  <2>5. QED
    BY <2>3, <2>4 DEF old
<1>4. JobOK(new) /\ ~Live(new)
  <2>1. jobs[n].at \in {"consuming", "ended"} => 0 < jobs[n].range.from
    BY <1>2 DEF JobOK
  <2>2. ~Live(new)
    BY <1>3 DEF Live
  <2> HIDE DEF new
  <2>3. QED
    BY <1>2, <1>3, <2>1, <2>2, CountersKeep
<1> HIDE DEF new
<1>5. QED
  BY <1>1, <1>3, <1>4, UpdateKeeps

LEMMA GoroutineKeeps ==
    ASSUME ReplayInv, NEW n \in 1..Len(jobs), Goroutine(n)
    PROVE  ReplayInv'
<1> DEFINE old == jobs[n]
<1>1. JobOK(old) /\ old \in Job /\ clock + 1 \in 1..(MaxClock + 1)
  BY ReplayBoundsAssumption DEF ReplayInv, JobOK
<1>2. ASSUME NEW st \in ReplayStatuses, NEW at \in {"running", "consuming", "ended", "failing"},
             at \in {"consuming", "ended"} => 0 < old.range.from,
             at \in {"running", "consuming"} => Live(old) \/ old.EndTime # 0,
             at = "running" => st = "running",
             at = "consuming" => st = old.Status,
             Update(n, [old EXCEPT !.Status = st, !.at = at])
      PROVE  ReplayInv'
  <2> DEFINE new == [old EXCEPT !.Status = st, !.at = at]
  <2>1. /\ new \in Job /\ new.id = old.id /\ new.at = at /\ new.Status = st
        /\ new.EndTime = old.EndTime
        /\ new.range = old.range /\ new.next = old.next
        /\ new.processed = old.processed /\ new.failed = old.failed
        /\ new.stored = old.stored
    BY <1>1 DEF Job
  <2> HIDE DEF new, old
  <2>2. Live(new) => Live(old)
    BY <1>2, <2>1 DEF Live
  <2>3. Live(new) => new.Status \in {"pending", "running"}
    BY <1>1, <1>2, <2>1, <2>2 DEF Live, JobOK
  <2>4. JobOK(new)
    BY <1>1, <1>2, <2>1, <2>3, CountersKeep
  <2>5. QED
    BY <1>2, <2>1, <2>2, <2>4, UpdateKeeps DEF new, old
<1>3. CASE Start(n)
  <2>1. Update(n, [old EXCEPT !.Status = "running", !.at = "running"])
    BY <1>3 DEF Start
  <2>2. Live(old) \/ old.EndTime # 0
    BY <1>3 DEF Start, Live
  <2>3. QED
    BY <1>2, <2>1, <2>2 DEF ReplayStatuses
<1>4. CASE Consume(n)
  <2>1. CASE /\ jobs[n].range.from > 0
             /\ Update(n, [jobs[n] EXCEPT !.at = "consuming"])
    <3>1. [jobs[n] EXCEPT !.at = "consuming"]
            = [old EXCEPT !.Status = old.Status, !.at = "consuming"]
      BY <1>1 DEF Job
    <3>2. old.Status \in ReplayStatuses /\ old.range.from > 0
      BY <1>1, <2>1 DEF Job
    <3>3. Live(old) \/ old.EndTime # 0
      BY <1>4 DEF Consume, Live
    <3>4. 0 < old.range.from
      BY <1>1, <3>2, RangesAssumption, ReplayBoundsAssumption DEF Job
    <3>5. QED
      BY <1>2, <2>1, <3>1, <3>2, <3>3, <3>4
  <2>2. CASE Update(n, [jobs[n] EXCEPT !.Status = "failed", !.at = "failing"])
    BY <1>2, <2>2 DEF ReplayStatuses
  <2>3. QED
    BY <1>4, <2>1, <2>2 DEF Consume
<1>5. CASE Ends(n)
  <2>1. PICK st \in {"timeout", "cancelled"} :
            Update(n, [old EXCEPT !.Status = st, !.at = "ended"])
    BY <1>5 DEF Ends
  <2>2. 0 < old.range.from
    BY <1>1, <1>5 DEF Ends, JobOK
  <2>3. QED
    BY <1>2, <2>1, <2>2 DEF ReplayStatuses
<1>6. CASE Returns(n)
  <2> DEFINE st == IF old.Status = "running" THEN "completed" ELSE old.Status
             new == [old EXCEPT !.at = "returned", !.EndTime = clock + 1, !.Status = st]
  <2>1. Update(n, new)
    BY <1>6 DEF Returns
  <2>2. /\ new \in Job /\ new.id = old.id /\ new.at = "returned"
        /\ new.range = old.range /\ new.next = old.next
        /\ new.processed = old.processed /\ new.failed = old.failed
        /\ new.stored = old.stored
    <3> DEFINE end == clock + 1
    <3>1. end \in 0..(MaxClock + 1) /\ st \in ReplayStatuses
      BY <1>1, JobFields DEF ReplayStatuses
    <3>2. new = [old EXCEPT !.at = "returned", !.EndTime = end, !.Status = st]
      OBVIOUS
    <3>3. old \in Job
      BY <1>1
    <3> HIDE DEF end, st, new, old
    <3>4. new \in Job
      BY <3>1, <3>2, <3>3 DEF Job
    <3>5. QED
      BY <3>2, <3>3, <3>4 DEF Job
  <2> HIDE DEF new, old
  <2>3. ~Live(new)
    BY <2>2 DEF Live
  <2>4. JobOK(new)
    BY <1>1, <2>2, <2>3, CountersKeep
  <2>5. QED
    BY <2>1, <2>2, <2>3, <2>4, UpdateKeeps DEF old
<1>7. QED
  BY <1>3, <1>4, <1>5, <1>6 DEF Goroutine

LEMMA ProcessKeeps ==
    ASSUME ReplayInv, NEW n \in 1..Len(jobs), NEW s \in SeqNumbers, Process(n, s)
    PROVE  ReplayInv'
<1> DEFINE old == jobs[n]
           A == old.range.from
           T == old.range.to
<1>1. JobOK(old) /\ old \in Job
  BY DEF ReplayInv, JobOK
<1>2. /\ A \in Nat /\ T \in Nat /\ s \in Nat /\ old.next \in Nat
      /\ old.processed \in Nat /\ old.failed \in Nat /\ old.stored \subseteq SeqNumbers
  BY <1>1, RangesAssumption, ReplayBoundsAssumption, MessagesAssumption DEF Job, SeqNumbers
<1>3. /\ old.at \in {"consuming", "ended"} /\ s <= T /\ s >= old.next /\ 0 < A
      /\ old.processed + old.failed <= old.next - A /\ old.stored \subseteq A..T
      /\ A <= old.next
  <2>1. /\ old.at \in {"consuming", "ended"} /\ s <= T /\ s >= old.next
    BY DEF Process, Seen
  <2>2. /\ 0 < A /\ old.processed + old.failed <= old.next - A /\ old.stored \subseteq A..T
    BY <1>1, <2>1 DEF JobOK
  <2>3. A <= old.next
    BY <1>2, <2>2
  <2>4. QED
    BY <2>1, <2>2, <2>3
<1>4. ASSUME NEW p \in Nat, NEW f \in Nat, NEW stored \in SUBSET SeqNumbers, NEW new,
             p + f = old.processed + old.failed + 1,
             stored \subseteq old.stored \cup {s},
             new = [old EXCEPT !.next = s + 1, !.processed = p, !.failed = f,
                               !.stored = stored],
             Update(n, new)
      PROVE  ReplayInv'
  <2>1. /\ new \in Job /\ new.id = old.id /\ new.at = old.at /\ new.Status = old.Status
        /\ new.EndTime = old.EndTime /\ new.range = old.range /\ new.next = s + 1
        /\ new.processed = p /\ new.failed = f /\ new.stored = stored
    <3> DEFINE next == s + 1
    <3>1. next \in Nat /\ new = [old EXCEPT !.next = next, !.processed = p,
                                           !.failed = f, !.stored = stored]
      BY <1>2, <1>4
    <3>2. old \in Job
      BY <1>1
    <3> HIDE DEF old, A, T, next
    <3>3. new \in Job
      BY <3>1, <3>2 DEF Job
    <3>4. /\ new.id = old.id /\ new.at = old.at /\ new.Status = old.Status
          /\ new.EndTime = old.EndTime /\ new.range = old.range /\ new.next = next
          /\ new.processed = p /\ new.failed = f /\ new.stored = stored
      BY <3>1, <3>2 DEF Job
    <3>5. QED
      BY <3>3, <3>4 DEF next
  <2>2. stored \subseteq A..T /\ p + f <= s + 1 - A /\ A <= T /\ s + 1 <= T + 1
    <3> HIDE DEF A, T, old
    <3>1. s \in A..T
      BY <1>2, <1>3
    <3>2. stored \subseteq A..T
      BY <1>3, <1>4, <3>1
    <3>3. p + f <= s + 1 - A
      BY <1>2, <1>3, <1>4
    <3>4. QED
      BY <1>2, <1>3, <3>2, <3>3
  <2>3. Live(new) <=> Live(old)
    BY <2>1 DEF Live
  <2>4. JobOK(new)
    <3>1. new.range.from = A /\ new.range.to = T
      BY <2>1
    <3>2. Live(new) => new.Status \in {"pending", "running"}
      BY <1>1, <2>1, <2>3 DEF JobOK
    <3>3. new.at \in {"consuming", "ended"} /\ 0 < A
      BY <1>3, <2>1
    <3> HIDE DEF A, T, old
    <3>4. new.stored \subseteq new.range.from..new.range.to
      BY <2>1, <2>2, <3>1
    <3>5. new.processed + new.failed <= new.next - new.range.from
      <4>1. /\ new.processed + new.failed = p + f
            /\ new.next - new.range.from = (s + 1) - A
        BY <2>1, <3>1
      <4>2. p + f <= (s + 1) - A
        BY <1>2, <2>2
      <4>3. QED
        BY <4>1, <4>2
    <3>6. /\ 0 < new.range.from /\ new.range.from <= new.range.to
          /\ new.next <= new.range.to + 1
      BY <2>1, <2>2, <3>1, <3>3
    <3>7. new \in Job
      BY <2>1
    <3>8. QED
      BY <3>2, <3>4, <3>5, <3>6, <3>7 DEF JobOK
  <2>5. QED
    BY <1>4, <2>1, <2>3, <2>4, UpdateKeeps
<1>5. CASE Update(n, [jobs[n] EXCEPT
              !.next = s + 1, !.processed = @ + 1,
              !.stored = IF Stores(n, s) THEN @ \cup {s} ELSE @])
  <2> DEFINE stored == IF Stores(n, s) THEN old.stored \cup {s} ELSE old.stored
             p == old.processed + 1
             f == old.failed
             new == [old EXCEPT !.next = s + 1, !.processed = p, !.failed = f,
                                !.stored = stored]
  <2>1. /\ stored \in SUBSET SeqNumbers /\ stored \subseteq old.stored \cup {s}
        /\ p \in Nat /\ f \in Nat /\ p + f = old.processed + old.failed + 1
    BY <1>2
  <2>2. [jobs[n] EXCEPT !.next = s + 1, !.processed = @ + 1,
                        !.stored = IF Stores(n, s) THEN @ \cup {s} ELSE @] = new
    BY <1>1 DEF Job
  <2>3. Update(n, new)
    BY <1>5, <2>2
  <2> HIDE DEF stored, p, f
  <2>4. QED
    BY <1>4, <2>1, <2>3
<1>6. CASE Update(n, [jobs[n] EXCEPT !.next = s + 1, !.failed = @ + 1])
  <2> DEFINE p == old.processed
             f == old.failed + 1
             stored == old.stored
             new == [old EXCEPT !.next = s + 1, !.processed = p, !.failed = f,
                                !.stored = stored]
  <2>1. /\ stored \in SUBSET SeqNumbers /\ stored \subseteq old.stored \cup {s}
        /\ p \in Nat /\ f \in Nat /\ p + f = old.processed + old.failed + 1
    BY <1>2
  <2>2. [jobs[n] EXCEPT !.next = s + 1, !.failed = @ + 1] = new
    BY <1>1 DEF Job
  <2>3. Update(n, new)
    BY <1>6, <2>2
  <2> HIDE DEF stored, p, f
  <2>4. QED
    BY <1>4, <2>1, <2>3
<1>7. QED
  BY <1>5, <1>6 DEF Process

LEMMA StopKeeps == ReplayInv /\ Stop => ReplayInv'
<1> SUFFICES ASSUME ReplayInv, Stop PROVE ReplayInv'
  OBVIOUS
<1>1. done' \in BOOLEAN /\ UNCHANGED <<stream, clock, replayJobs, jobs>>
  BY DEF Stop
<1>2. QED
  BY <1>1 DEF ReplayInv, StreamTypeOK, stream, Listed

LEMMA TickKeeps == ReplayInv /\ ClockTicks => ReplayInv'
<1> SUFFICES ASSUME ReplayInv, ClockTicks PROVE ReplayInv'
  OBVIOUS
<1>1. clock' \in 0..MaxClock /\ UNCHANGED <<stream, done, replayJobs, jobs>>
  BY ReplayBoundsAssumption DEF ClockTicks, ReplayInv
<1>2. QED
  BY <1>1 DEF ReplayInv, StreamTypeOK, stream, Listed

LEMMA RestartKeeps == ReplayInv /\ RestartReplay => ReplayInv'
<1> SUFFICES ASSUME ReplayInv, RestartReplay PROVE ReplayInv'
  OBVIOUS
<1>1. /\ jobs' = <<>> /\ done' = FALSE /\ UNCHANGED <<stream, clock>>
      /\ replayJobs' = [i \in JobIDs |-> 0]
  BY DEF RestartReplay
<1>2. /\ jobs' \in Seq(Job) /\ Len(jobs') = 0 /\ Len(jobs') <= MaxReplays
      /\ replayJobs' \in [JobIDs -> 0..Len(jobs')]
  BY <1>1, ReplayBoundsAssumption
<1>3. \A n \in 1..Len(jobs') : FALSE
  BY <1>2
<1>4. QED
  BY <1>1, <1>2, <1>3 DEF ReplayInv, StreamTypeOK, stream

-----------------------------------------------------------------------------
LEMMA InitReplay == ReplayInit => ReplayInv
<1> SUFFICES ASSUME ReplayInit PROVE ReplayInv
  OBVIOUS
<1>1. /\ clock \in 0..MaxClock /\ done \in BOOLEAN
      /\ jobs = <<>> /\ replayJobs = [i \in JobIDs |-> 0]
  <2>1. clock = 0 /\ MaxClock \in Nat
    BY ReplayBoundsAssumption DEF ReplayInit
  <2>2. clock \in 0..MaxClock
    BY <2>1
  <2>3. done \in BOOLEAN /\ jobs = <<>> /\ replayJobs = [i \in JobIDs |-> 0]
    BY Zenon DEF ReplayInit
  <2>4. QED
    BY <2>2, <2>3
<1>2. /\ jobs \in Seq(Job) /\ Len(jobs) = 0 /\ Len(jobs) <= MaxReplays
      /\ replayJobs \in [JobIDs -> 0..Len(jobs)]
  BY <1>1, ReplayBoundsAssumption
<1>3. \A n \in 1..Len(jobs) : FALSE
  BY <1>2
<1>4. StreamTypeOK
  <2>1. messages = <<>> /\ first = 1
    BY DEF ReplayInit, StreamInit
  <2>2. messages \in Seq(Events) /\ Len(messages) = 0
    BY <2>1
  <2>3. QED
    BY <2>1, <2>2, MessagesAssumption DEF StreamTypeOK
<1>5. QED
  BY <1>1, <1>2, <1>3, <1>4 DEF ReplayInv

LEMMA NextReplay == ReplayInv /\ [ReplayNext]_replayVars => ReplayInv'
<1> SUFFICES ASSUME ReplayInv, [ReplayNext]_replayVars PROVE ReplayInv'
  OBVIOUS
<1>1. CASE Stream /\ UNCHANGED jobVars
  BY <1>1, StreamKeeps
<1>2. ASSUME NEW r \in Ranges, StartReplay(r) PROVE ReplayInv'
  BY <1>2, StartReplayKeeps
<1>3. ASSUME NEW i \in JobIDs, CancelReplay(i) PROVE ReplayInv'
  BY <1>3, CancelKeeps
<1>4. CASE CleanupReplayJobs
  BY <1>4, CleanupKeeps
<1>5. CASE Stop
  BY <1>5, StopKeeps
<1>6. ASSUME NEW n \in 1..Len(jobs), Goroutine(n) PROVE ReplayInv'
  BY <1>6, GoroutineKeeps
<1>7. ASSUME NEW n \in 1..Len(jobs), NEW s \in SeqNumbers, Process(n, s)
      PROVE  ReplayInv'
  BY <1>7, ProcessKeeps
<1>8. CASE ClockTicks
  BY <1>8, TickKeeps
<1>9. CASE RestartReplay
  BY <1>9, RestartKeeps
<1>10. CASE UNCHANGED replayVars
  BY <1>10 DEF ReplayInv, StreamTypeOK, replayVars, jobVars, stream, Listed
<1>11. QED
  BY <1>1, <1>2, <1>3, <1>4, <1>5, <1>6, <1>7, <1>8, <1>9, <1>10 DEF ReplayNext

LEMMA SpecReplay == ReplaySpec => []ReplayInv
BY InitReplay, NextReplay, PTL DEF ReplaySpec

-----------------------------------------------------------------------------
(* How a job ends. *)

NotCompleted(job) ==
    /\ job.Status # "completed"
    /\ job.at \in {"ended", "failing"} => job.Status # "running"

NoneCompleted == \A n \in 1..Len(jobs) : NotCompleted(jobs[n])

LEMMA UpdateCompletesNone ==
    ASSUME ReplayInv, NoneCompleted, NEW n \in 1..Len(jobs), NEW job,
           NotCompleted(job), Update(n, job)
    PROVE  NoneCompleted'
<1>1. jobs \in Seq(Job) /\ jobs' = [jobs EXCEPT ![n] = job]
  BY DEF Update, ReplayInv
<1>2. /\ Len(jobs') = Len(jobs) /\ jobs'[n] = job
      /\ \A m \in 1..Len(jobs) : m # n => jobs'[m] = jobs[m]
  BY <1>1
<1>3. ASSUME NEW m \in 1..Len(jobs') PROVE NotCompleted(jobs'[m])
  BY <1>2 DEF NoneCompleted
<1>4. QED
  BY <1>3 DEF NoneCompleted, NotCompleted

LEMMA GoroutineCompletesNone ==
    ASSUME ReplayInv, NoneCompleted, NEW n \in 1..Len(jobs), Goroutine(n)
    PROVE  NoneCompleted'
<1>1. jobs[n] \in Job /\ NotCompleted(jobs[n])
  BY DEF ReplayInv, NoneCompleted, JobOK
<1>2. CASE Start(n)
  <2>1. NotCompleted([jobs[n] EXCEPT !.Status = "running", !.at = "running"])
    BY <1>1 DEF NotCompleted, Job
  <2>2. QED
    BY <1>2, <2>1, UpdateCompletesNone DEF Start
<1>3. CASE Consume(n)
  <2>1. /\ NotCompleted([jobs[n] EXCEPT !.at = "consuming"])
        /\ NotCompleted([jobs[n] EXCEPT !.Status = "failed", !.at = "failing"])
    BY <1>1 DEF NotCompleted, Job
  <2>2. QED
    BY <1>3, <2>1, UpdateCompletesNone DEF Consume
<1>4. CASE Ends(n)
  <2>1. PICK st \in {"timeout", "cancelled"} :
            Update(n, [jobs[n] EXCEPT !.Status = st, !.at = "ended"])
    BY <1>4 DEF Ends
  <2>2. NotCompleted([jobs[n] EXCEPT !.Status = st, !.at = "ended"])
    BY <1>1 DEF NotCompleted, Job
  <2>3. QED
    BY <2>1, <2>2, UpdateCompletesNone
<1>5. CASE Returns(n)
  <2> DEFINE st == IF jobs[n].Status = "running" THEN "completed" ELSE jobs[n].Status
             end == clock + 1
             new == [jobs[n] EXCEPT !.at = "returned", !.EndTime = end, !.Status = st]
  <2>1. Update(n, new)
    BY <1>5 DEF Returns
  <2>2. jobs[n].Status # "running"
    BY <1>1, <1>5 DEF Returns, NotCompleted
  <2>3. new.Status = jobs[n].Status /\ new.at = "returned"
    <3>1. st = jobs[n].Status
      BY <2>2
    <3> HIDE DEF st, end
    <3>2. QED
      BY <1>1, <3>1 DEF Job
  <2> HIDE DEF new
  <2>4. NotCompleted(new)
    BY <1>1, <2>3 DEF NotCompleted
  <2>5. QED
    BY <2>1, <2>4, UpdateCompletesNone
<1>6. QED
  BY <1>2, <1>3, <1>4, <1>5 DEF Goroutine

LEMMA ProcessCompletesNone ==
    ASSUME ReplayInv, NoneCompleted, NEW n \in 1..Len(jobs), NEW s \in SeqNumbers,
           Process(n, s)
    PROVE  NoneCompleted'
<1>1. jobs[n] \in Job /\ NotCompleted(jobs[n])
  BY DEF ReplayInv, NoneCompleted, JobOK
<1>2. ASSUME NEW p, NEW f, NEW x, NEW stored,
             Update(n, [jobs[n] EXCEPT !.next = x, !.processed = p, !.failed = f,
                                       !.stored = stored])
      PROVE  NoneCompleted'
  <2> DEFINE new == [jobs[n] EXCEPT !.next = x, !.processed = p, !.failed = f,
                                    !.stored = stored]
  <2>1. NotCompleted(new)
    BY <1>1 DEF NotCompleted, Job
  <2>2. QED
    BY <1>2, <2>1, UpdateCompletesNone
<1>3. CASE Update(n, [jobs[n] EXCEPT
              !.next = s + 1, !.processed = @ + 1,
              !.stored = IF Stores(n, s) THEN @ \cup {s} ELSE @])
  <2> DEFINE stored == IF Stores(n, s) THEN jobs[n].stored \cup {s} ELSE jobs[n].stored
  <2>1. [jobs[n] EXCEPT !.next = s + 1, !.processed = @ + 1,
                        !.stored = IF Stores(n, s) THEN @ \cup {s} ELSE @]
          = [jobs[n] EXCEPT !.next = s + 1, !.processed = jobs[n].processed + 1,
                            !.failed = jobs[n].failed, !.stored = stored]
    BY <1>1 DEF Job
  <2>2. QED
    BY <1>2, <1>3, <2>1
<1>4. CASE Update(n, [jobs[n] EXCEPT !.next = s + 1, !.failed = @ + 1])
  <2>1. [jobs[n] EXCEPT !.next = s + 1, !.failed = @ + 1]
          = [jobs[n] EXCEPT !.next = s + 1, !.processed = jobs[n].processed,
                            !.failed = jobs[n].failed + 1, !.stored = jobs[n].stored]
    BY <1>1 DEF Job
  <2> DEFINE x == s + 1
             p == jobs[n].processed
             f == jobs[n].failed + 1
             stored == jobs[n].stored
  <2>2. Update(n, [jobs[n] EXCEPT !.next = x, !.processed = p, !.failed = f,
                                  !.stored = stored])
    BY <1>4, <2>1
  <2> HIDE DEF x, p, f, stored
  <2>3. QED
    BY <1>2, <2>2
<1>5. QED
  BY <1>3, <1>4 DEF Process

LEMMA CancelCompletesNone ==
    ASSUME ReplayInv, NoneCompleted, NEW i \in JobIDs, CancelReplay(i)
    PROVE  NoneCompleted'
<1> DEFINE n == replayJobs[i]
           end == clock + 1
           new == [jobs[n] EXCEPT !.Status = "cancelled", !.EndTime = end]
<1>1. n \in 1..Len(jobs) /\ Update(n, new)
  BY DEF ReplayInv, CancelReplay
<1>2. jobs[n] \in Job
  BY <1>1 DEF ReplayInv, JobOK
<1>3. NotCompleted(new)
  <2> HIDE DEF end, n
  <2>1. QED
    BY <1>2 DEF NotCompleted, Job
<1> HIDE DEF n, new
<1>4. QED
  BY <1>1, <1>3, UpdateCompletesNone

LEMMA NextCompletesNone ==
    ReplayInv /\ NoneCompleted /\ [ReplayNext]_replayVars => NoneCompleted'
<1> SUFFICES ASSUME ReplayInv, NoneCompleted, [ReplayNext]_replayVars PROVE NoneCompleted'
  OBVIOUS
<1>1. CASE UNCHANGED jobs
  BY <1>1 DEF NoneCompleted
<1>2. ASSUME NEW r \in Ranges, StartReplay(r) PROVE NoneCompleted'
  <2> DEFINE job == [range |-> r, id |-> <<r.from, r.to, clock>>,
                     Status |-> "pending", EndTime |-> 0,
                     at |-> "start", next |-> r.from, processed |-> 0,
                     failed |-> 0, stored |-> {}]
  <2>1. jobs \in Seq(Job) /\ jobs' = Append(jobs, job) /\ NotCompleted(job)
    BY <1>2 DEF StartReplay, ReplayInv, NotCompleted
  <2> HIDE DEF job
  <2>2. /\ Len(jobs') = Len(jobs) + 1 /\ jobs'[Len(jobs) + 1] = job
        /\ \A n \in 1..Len(jobs) : jobs'[n] = jobs[n]
    BY <2>1
  <2>3. ASSUME NEW n \in 1..Len(jobs') PROVE NotCompleted(jobs'[n])
    BY <2>1, <2>2 DEF NoneCompleted
  <2>4. QED
    BY <2>3 DEF NoneCompleted, NotCompleted
<1>3. ASSUME NEW i \in JobIDs, CancelReplay(i) PROVE NoneCompleted'
  BY <1>3, CancelCompletesNone
<1>4. ASSUME NEW n \in 1..Len(jobs), Goroutine(n) PROVE NoneCompleted'
  BY <1>4, GoroutineCompletesNone
<1>5. ASSUME NEW n \in 1..Len(jobs), NEW s \in SeqNumbers, Process(n, s)
      PROVE  NoneCompleted'
  BY <1>5, ProcessCompletesNone
<1>6. CASE RestartReplay
  <2>1. jobs' = <<>> /\ Len(jobs') = 0
    BY <1>6 DEF RestartReplay
  <2>2. QED
    BY <2>1 DEF NoneCompleted
<1>7. CASE \/ Stream /\ UNCHANGED jobVars
           \/ CleanupReplayJobs \/ Stop \/ ClockTicks \/ UNCHANGED replayVars
  BY <1>1, <1>7 DEF jobVars, replayVars, CleanupReplayJobs, Stop, ClockTicks
<1>8. QED
  BY <1>2, <1>3, <1>4, <1>5, <1>6, <1>7 DEF ReplayNext

-----------------------------------------------------------------------------
(* The theorems. *)

\* The variables of the replay service keep their types.
THEOREM ReplayTypes == ReplaySpec => []ReplayTypeOK
BY SpecReplay, InvProperties, PTL

\* A job stores events of its range only and its progress stays within its
\* total, also while its consumer goes on after the job has ended
\* (controller/replay_service.go: the callback of executeReplay).
THEOREM StaysInRange == ReplaySpec => []ReplayInRange
BY SpecReplay, InvProperties, PTL

\* No clean-up takes a job that nobody cancelled off the list while it replays,
\* and only a later job of its ID replaces it there
\* (controller/replay_service.go: StartReplay, CleanupReplayJobs).
THEOREM StaysListed == ReplaySpec => []ListedWhileReplaying
BY SpecReplay, InvProperties, PTL

\* No replay job becomes "completed", also where its consumer has seen its whole
\* range: the status is no longer "running" when executeReplay looks at it
\* (controller/replay_service.go: the select and the end of executeReplay).
THEOREM NeverCompletes == ReplaySpec => [](\A n \in 1..Len(jobs) : jobs[n].Status # "completed")
<1>1. ReplayInit => NoneCompleted
  <2> SUFFICES ASSUME ReplayInit PROVE NoneCompleted
    OBVIOUS
  <2>1. jobs = <<>> /\ Len(jobs) = 0
    BY DEF ReplayInit
  <2>2. QED
    BY <2>1 DEF NoneCompleted
<1>2. NoneCompleted => \A n \in 1..Len(jobs) : jobs[n].Status # "completed"
  BY DEF NoneCompleted, NotCompleted
<1>3. QED
  BY <1>1, <1>2, SpecReplay, NextCompletesNone, PTL DEF ReplaySpec

=============================================================================
