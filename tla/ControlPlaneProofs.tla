------------------------- MODULE ControlPlaneProofs -------------------------
(* Proofs about the deployed system, for any agents and endpoints, any       *)
(* requests and any number of them.                                          *)
EXTENDS ControlPlane, TLAPS, FiniteSetTheorems, SequenceTheorems

DispatchStages == {"sleeping", "ready", "posting", "dispatched", "lost"}
Types == {req.type : req \in Requests}
Goroutines == [agent : Agents, type : Types, duration : Nat, stage : Stages,
               left : Nat]

-----------------------------------------------------------------------------
(* The inductive invariant. *)

\* What the controller keeps of its experiments.
DispatchTyped ==
    /\ now \in 0..MaxTime
    /\ requests \in Seq(Requests) /\ Len(requests) <= MaxRequests
    /\ stage \in Seq(DispatchStages) /\ Len(stage) = Len(requests)
    /\ posts \in Seq(SUBSET Nat) /\ Len(posts) = Len(requests)
    /\ experimentList \in Seq(1..Len(requests))

\* Posts are left to make only while they are made, and none is made before
\* the start time.
PostsWhilePosting ==
    \A x \in 1..Len(requests) :
        /\ posts[x] \subseteq Copies(requests[x])
        /\ posts[x] # {} => stage[x] = "posting"
        /\ stage[x] \in {"ready", "posting"} => requests[x].start <= now

AgentsTyped ==
    /\ injections \in [DOMAIN injections -> Goroutines]
    /\ qdisc \in [Agents -> {None} \cup DOMAIN injections]
    /\ mishap \subseteq Agents

\* An injection comes of a post that is made and is not made again.
PostedOnce ==
    \A n \in DOMAIN injections :
        /\ n \in (1..Len(requests)) \X Nat
        /\ n[2] \in Copies(requests[n[1]]) \ posts[n[1]]
        /\ stage[n[1]] \notin {"sleeping", "ready"}
        /\ requests[n[1]].start <= now
        /\ injections[n].agent = AgentOf(n[2])

DispatchInv == DispatchTyped /\ PostsWhilePosting
Inv == DispatchInv /\ AgentsTyped /\ PostedOnce /\ FaultHasOwner

-----------------------------------------------------------------------------
(* Requests, copies and endpoints. *)

LEMMA RequestFields ==
    ASSUME NEW req \in Requests
    PROVE  /\ req.duration \in Nat /\ req.start \in Nat
           /\ req.count \in Nat /\ req.count <= MaxAgentCount
           /\ req.parallel \in BOOLEAN /\ req.json \in BOOLEAN
  BY RequestsAssumption, DispatchAssumption, BoundsAssumption

LEMMA CopiesType ==
    ASSUME NEW req \in Requests
    PROVE  /\ Copies(req) \subseteq Nat
           /\ \A i \in Copies(req) : i < MaxAgentCount
  BY RequestFields, BoundsAssumption DEF Copies, Parallel

LEMMA AgentOfType == ASSUME NEW i \in Nat PROVE AgentOf(i) \in Agents
<1> DEFINE E == Len(Endpoints)
<1>1. E \in Nat /\ E > 0
  BY EndpointsAssumption, DispatchAssumption
<1>2. i % E \in 0..(E - 1)
  BY <1>1
<1>3. (i % E) + 1 \in 1..E
  <2> HIDE DEF E
  <2> QED BY <1>1, <1>2
<1>4. QED
  BY <1>3, EndpointsAssumption, ElementOfSeq DEF AgentOf

-----------------------------------------------------------------------------
(* The controller's part of the invariant. *)

LEMMA StartDispatch ==
    ASSUME DispatchInv, NEW req \in Requests, StartRequest(req)
    PROVE  /\ DispatchInv'
           /\ Len(requests') = Len(requests) + 1
           /\ \A x \in 1..Len(requests) :
                  /\ requests'[x] = requests[x]
                  /\ stage'[x] = stage[x] /\ posts'[x] = posts[x]
<1> DEFINE n == Len(requests)
           s == IF req.start > now THEN "sleeping" ELSE "ready"
<1>1. /\ requests' = Append(requests, req)
      /\ experimentList' = Append(experimentList, n + 1)
      /\ stage' = Append(stage, s) /\ posts' = Append(posts, {})
      /\ now' = now /\ n < MaxRequests
  BY DEF StartRequest, Start, WithinBounds
<1>2. /\ n \in Nat /\ requests \in Seq(Requests)
      /\ stage \in Seq(DispatchStages) /\ Len(stage) = n
      /\ posts \in Seq(SUBSET Nat) /\ Len(posts) = n
      /\ experimentList \in Seq(1..n) /\ now \in Nat /\ now \in 0..MaxTime
  BY DispatchAssumption DEF DispatchInv, DispatchTyped
<1>3. s \in DispatchStages /\ (s = "ready" => req.start <= now) /\ s # "posting"
  BY <1>2, RequestFields DEF DispatchStages
<1>4. /\ requests' \in Seq(Requests) /\ Len(requests') = n + 1
      /\ \A x \in 1..n : requests'[x] = requests[x]
      /\ requests'[n + 1] = req
  BY <1>1, <1>2, AppendProperties
<1> HIDE DEF s
<1>5. /\ stage' \in Seq(DispatchStages) /\ Len(stage') = n + 1
      /\ \A x \in 1..n : stage'[x] = stage[x]
      /\ stage'[n + 1] = s
  BY <1>1, <1>2, <1>3, AppendProperties
<1>6. /\ posts' \in Seq(SUBSET Nat) /\ Len(posts') = n + 1
      /\ \A x \in 1..n : posts'[x] = posts[x]
      /\ posts'[n + 1] = {}
  <2>1. {} \in SUBSET Nat
    OBVIOUS
  <2>2. QED
    BY <1>1, <1>2, <2>1, AppendProperties
<1>7. experimentList' \in Seq(1..(n + 1))
  <2>1. experimentList \in Seq(1..(n + 1))
    <3>1. 1..n \subseteq 1..(n + 1)
      BY <1>2
    <3>2. QED
      BY <3>1, <1>2, SeqMonotonic
  <2>2. n + 1 \in 1..(n + 1)
    BY <1>2
  <2>3. QED
    BY <1>1, <2>1, <2>2, AppendProperties
<1>8. DispatchTyped'
  BY <1>1, <1>2, <1>4, <1>5, <1>6, <1>7, BoundsAssumption DEF DispatchTyped
<1>9. PostsWhilePosting'
  <2>1. SUFFICES ASSUME NEW x \in 1..(n + 1)
        PROVE  /\ posts'[x] \subseteq Copies(requests'[x])
               /\ posts'[x] # {} => stage'[x] = "posting"
               /\ stage'[x] \in {"ready", "posting"} => requests'[x].start <= now
    BY <1>1, <1>4 DEF PostsWhilePosting, Copies, Parallel
  <2>2. CASE x \in 1..n
    BY <2>2, <1>4, <1>5, <1>6 DEF DispatchInv, PostsWhilePosting
  <2>3. CASE x = n + 1
    BY <2>3, <1>3, <1>4, <1>5, <1>6
  <2>4. QED
    BY <1>2, <2>2, <2>3
<1>10. QED
  BY <1>4, <1>5, <1>6, <1>8, <1>9 DEF DispatchInv

\* The goroutine of an experiment moves on, with other posts left or not.
Moves(x, s, p) ==
    /\ s \in DispatchStages /\ p \subseteq Copies(requests[x])
    /\ p # {} => s = "posting"
    /\ s \in {"ready", "posting"} => requests[x].start <= now
    /\ stage' = [stage EXCEPT ![x] = s] /\ posts' = [posts EXCEPT ![x] = p]
    /\ UNCHANGED <<now, requests, experimentList>>

LEMMA MoveDispatch ==
    ASSUME DispatchInv, NEW x \in 1..Len(requests), NEW s, NEW p, Moves(x, s, p)
    PROVE  /\ DispatchInv'
           /\ \A y \in 1..Len(requests) :
                  /\ stage'[y] = IF y = x THEN s ELSE stage[y]
                  /\ posts'[y] = IF y = x THEN p ELSE posts[y]
<1> USE DEF Moves
<1>1. /\ requests \in Seq(Requests)
      /\ stage \in Seq(DispatchStages) /\ Len(stage) = Len(requests)
      /\ posts \in Seq(SUBSET Nat) /\ Len(posts) = Len(requests)
  BY DEF DispatchInv, DispatchTyped
<1>2. p \in SUBSET Nat
  BY <1>1, ElementOfSeq, CopiesType
<1>3. /\ stage' \in Seq(DispatchStages) /\ Len(stage') = Len(requests)
      /\ \A y \in 1..Len(requests) : stage'[y] = IF y = x THEN s ELSE stage[y]
  BY <1>1, ExceptSeq
<1>4. /\ posts' \in Seq(SUBSET Nat) /\ Len(posts') = Len(requests)
      /\ \A y \in 1..Len(requests) : posts'[y] = IF y = x THEN p ELSE posts[y]
  <2> DEFINE S == SUBSET Nat
  <2>1. posts \in Seq(S) /\ p \in S /\ x \in 1..Len(posts)
    BY <1>1, <1>2
  <2> HIDE DEF S
  <2>2. posts' \in Seq(S) /\ Len(posts') = Len(posts)
    BY <2>1, ExceptSeq
  <2>3. \A y \in 1..Len(posts) : posts'[y] = IF y = x THEN p ELSE posts[y]
    BY <2>1, ExceptSeq
  <2>4. posts' \in Seq(SUBSET Nat)
    BY <2>2 DEF S
  <2>5. Len(posts) = Len(requests)
    BY <1>1
  <2>6. QED
    BY <2>2, <2>3, <2>4, <2>5
<1>5. DispatchTyped'
  BY <1>3, <1>4 DEF DispatchInv, DispatchTyped
<1>6. PostsWhilePosting'
  <2>1. SUFFICES ASSUME NEW y \in 1..Len(requests)
        PROVE  /\ posts'[y] \subseteq Copies(requests[y])
               /\ posts'[y] # {} => stage'[y] = "posting"
               /\ stage'[y] \in {"ready", "posting"} => requests[y].start <= now
    BY DEF PostsWhilePosting, Copies, Parallel
  <2>2. CASE y = x
    BY <2>2, <1>3, <1>4
  <2>3. CASE y # x
    BY <2>3, <1>3, <1>4 DEF DispatchInv, PostsWhilePosting
  <2>4. QED
    BY <2>2, <2>3
<1>7. QED
  BY <1>3, <1>4, <1>5, <1>6 DEF DispatchInv

\* A step of the controller on an experiment keeps what injections rest on:
\* an experiment that is past its start stays so and gets no new post.
Onward ==
    /\ Len(requests) <= Len(requests') /\ now <= now'
    /\ \A x \in 1..Len(requests) :
          /\ requests'[x] = requests[x]
          /\ stage[x] \notin {"sleeping", "ready"}
                => /\ stage'[x] \notin {"sleeping", "ready"}
                   /\ posts'[x] \subseteq posts[x]

LEMMA DispatchTypes ==
    ASSUME DispatchInv
    PROVE  /\ Len(requests) \in Nat /\ now \in Nat
           /\ DOMAIN requests = 1..Len(requests)
           /\ stage = [x \in 1..Len(requests) |-> stage[x]]
           /\ posts = [x \in 1..Len(requests) |-> posts[x]]
           /\ \A x \in 1..Len(requests) :
                  /\ requests[x] \in Requests /\ stage[x] \in DispatchStages
                  /\ Copies(requests[x]) \subseteq Nat
<1>1. /\ requests \in Seq(Requests)
      /\ stage \in Seq(DispatchStages) /\ Len(stage) = Len(requests)
      /\ posts \in Seq(SUBSET Nat) /\ Len(posts) = Len(requests)
      /\ now \in 0..MaxTime
  BY DEF DispatchInv, DispatchTyped
<1>2. /\ Len(requests) \in Nat /\ now \in Nat
      /\ DOMAIN requests = 1..Len(requests)
      /\ stage = [x \in 1..Len(requests) |-> stage[x]]
      /\ posts = [x \in 1..Len(requests) |-> posts[x]]
  BY <1>1, LenProperties, DispatchAssumption
<1>3. \A x \in 1..Len(requests) :
          requests[x] \in Requests /\ stage[x] \in DispatchStages
  BY <1>1, ElementOfSeq
<1>4. QED
  BY <1>2, <1>3, CopiesType

LEMMA ControllerSteps ==
    ASSUME DispatchInv, NEW x \in 1..Len(requests), UNCHANGED now,
           Wakes(x) \/ DispatchExperiment(x) \/ Dispatched(x)
    PROVE  DispatchInv' /\ Onward
<1>1. /\ stage[x] \in DispatchStages /\ posts[x] \subseteq Copies(requests[x])
      /\ posts[x] # {} => stage[x] = "posting"
      /\ stage[x] \in {"ready", "posting"} => requests[x].start <= now
      /\ Len(requests) \in Nat /\ now \in Nat
  BY DispatchTypes DEF DispatchInv, PostsWhilePosting
<1>2. posts = [posts EXCEPT ![x] = posts[x]]
  BY DispatchTypes
<1>3. CASE Wakes(x)
  <2>1. posts[x] = {} /\ requests[x].start <= now /\ requests' = requests
    BY <1>1, <1>3 DEF Wakes
  <2>2. Moves(x, "ready", posts[x])
    BY <1>1, <1>2, <1>3, <2>1 DEF Moves, Wakes, DispatchStages
  <2>3. /\ DispatchInv'
        /\ \A y \in 1..Len(requests) :
              /\ stage'[y] = IF y = x THEN "ready" ELSE stage[y]
              /\ posts'[y] = IF y = x THEN posts[x] ELSE posts[y]
    BY <2>2, MoveDispatch
  <2>4. QED
    BY <1>1, <1>3, <2>1, <2>3 DEF Wakes, Onward
<1>4. CASE DispatchExperiment(x)
  <2> DEFINE p == Copies(requests[x])
  <2>1. stage[x] = "ready" /\ requests' = requests
    BY <1>4 DEF DispatchExperiment
  <2>2. Moves(x, "posting", p)
    BY <1>1, <1>4 DEF DispatchExperiment, DispatchStages, Moves
  <2>3. /\ DispatchInv'
        /\ \A y \in 1..Len(requests) :
              /\ stage'[y] = IF y = x THEN "posting" ELSE stage[y]
              /\ posts'[y] = IF y = x THEN p ELSE posts[y]
    BY <2>2, MoveDispatch
  <2>4. QED
    BY <1>1, <2>1, <2>3 DEF Onward
<1>5. CASE Dispatched(x)
  <2>1. posts[x] = {} /\ requests' = requests
    BY <1>5 DEF Dispatched
  <2>2. Moves(x, "dispatched", posts[x])
    BY <1>2, <1>5, <2>1 DEF Dispatched, DispatchStages, Moves
  <2>3. /\ DispatchInv'
        /\ \A y \in 1..Len(requests) :
              /\ stage'[y] = IF y = x THEN "dispatched" ELSE stage[y]
              /\ posts'[y] = IF y = x THEN posts[x] ELSE posts[y]
    BY <2>2, MoveDispatch
  <2>4. QED
    BY <1>1, <2>1, <2>3 DEF Onward
<1>6. QED
  BY <1>3, <1>4, <1>5

LEMMA PostStep ==
    ASSUME DispatchInv, NEW x \in 1..Len(requests), NEW i \in posts[x],
           MakeAgentRequest(x, i), UNCHANGED now
    PROVE  /\ DispatchInv' /\ Onward
           /\ requests' = requests
           /\ posts'[x] = posts[x] \ {i} /\ stage'[x] = "posting"
           /\ i \in Copies(requests[x]) /\ requests[x].start <= now
<1>1. /\ stage[x] = "posting" /\ posts[x] \subseteq Copies(requests[x])
      /\ requests[x].start <= now
      /\ Len(requests) \in Nat /\ now \in Nat
  BY DispatchTypes DEF DispatchInv, PostsWhilePosting
<1>2. stage = [stage EXCEPT ![x] = "posting"]
  BY <1>1, DispatchTypes
<1>3. requests' = requests
  BY DEF MakeAgentRequest
<1>4. Moves(x, "posting", posts[x] \ {i})
  BY <1>1, <1>2 DEF Moves, MakeAgentRequest, DispatchStages
<1>5. /\ DispatchInv'
      /\ \A y \in 1..Len(requests) :
            /\ stage'[y] = IF y = x THEN "posting" ELSE stage[y]
            /\ posts'[y] = IF y = x THEN posts[x] \ {i} ELSE posts[y]
  BY <1>4, MoveDispatch
<1>6. QED
  BY <1>1, <1>3, <1>5 DEF Onward

LEMMA RestartStep ==
    ASSUME DispatchInv, ControllerRestart, UNCHANGED now
    PROVE  DispatchInv' /\ Onward
<1> DEFINE n == Len(requests)
           left(x) == IF stage[x] = "dispatched" THEN stage[x] ELSE "lost"
<1>1. /\ n \in Nat /\ now \in Nat /\ requests' = requests
      /\ stage' = [x \in 1..n |-> left(x)]
      /\ posts' = [x \in 1..n |-> {}]
      /\ experimentList' = <<>>
      /\ \A x \in 1..n : stage[x] \in DispatchStages
  BY DispatchTypes DEF ControllerRestart
<1>2. \A x \in 1..n : /\ left(x) \in DispatchStages
                       /\ left(x) \notin {"sleeping", "ready", "posting"}
  BY DEF DispatchStages
<1>3. \A x \in 1..n : stage'[x] = left(x) /\ posts'[x] = {}
  BY <1>1
<1>4. stage' \in Seq(DispatchStages) /\ Len(stage') = n
  <2> HIDE DEF left, n
  <2>1. stage' \in [1..n -> DispatchStages]
    BY <1>1, <1>2
  <2>2. QED
    BY <1>1, <2>1
<1>5. posts' \in Seq(SUBSET Nat) /\ Len(posts') = n
  <2> HIDE DEF n
  <2>1. posts' \in [1..n -> SUBSET Nat]
    BY <1>1
  <2>2. QED
    BY <1>1, <2>1
<1>6. DispatchTyped'
  BY <1>1, <1>4, <1>5 DEF DispatchInv, DispatchTyped
<1>7. PostsWhilePosting'
  <2> HIDE DEF left
  <2>1. SUFFICES ASSUME NEW x \in 1..n
        PROVE  /\ posts'[x] \subseteq Copies(requests[x])
               /\ posts'[x] # {} => stage'[x] = "posting"
               /\ stage'[x] \in {"ready", "posting"} => requests[x].start <= now
    BY <1>1 DEF PostsWhilePosting, Copies, Parallel
  <2>2. QED
    BY <1>2, <1>3
<1>8. Onward
  <2> HIDE DEF left
  <2>1. QED
    BY <1>1, <1>2, <1>3 DEF Onward
<1>9. QED
  BY <1>6, <1>7, <1>8 DEF DispatchInv

-----------------------------------------------------------------------------
(* The agents' part. *)

AgentsInv == AgentsTyped /\ PostedOnce /\ FaultHasOwner

\* Goroutines that change their stage only.
SameGoroutines ==
    /\ DOMAIN injections' = DOMAIN injections
    /\ injections' \in [DOMAIN injections -> Goroutines]
    /\ \A m \in DOMAIN injections : injections'[m].agent = injections[m].agent

LEMMA StillPosted ==
    ASSUME DispatchInv, DispatchInv', PostedOnce, Onward, SameGoroutines
    PROVE  PostedOnce'
<1>1. /\ Len(requests) \in Nat /\ Len(requests') \in Nat /\ now' \in Nat
      /\ Len(requests) <= Len(requests') /\ now <= now'
  BY DispatchTypes, DispatchAssumption DEF Onward, DispatchInv, DispatchTyped
<1>2. SUFFICES ASSUME NEW n \in DOMAIN injections
      PROVE  /\ n \in (1..Len(requests')) \X Nat
             /\ n[2] \in Copies(requests'[n[1]]) \ posts'[n[1]]
             /\ stage'[n[1]] \notin {"sleeping", "ready"}
             /\ requests'[n[1]].start <= now'
             /\ injections'[n].agent = AgentOf(n[2])
  BY DEF PostedOnce, SameGoroutines, Copies, Parallel, AgentOf
<1>3. /\ n \in (1..Len(requests)) \X Nat
      /\ n[2] \in Copies(requests[n[1]]) \ posts[n[1]]
      /\ stage[n[1]] \notin {"sleeping", "ready"}
      /\ requests[n[1]].start <= now
      /\ injections'[n].agent = AgentOf(n[2])
  BY DEF PostedOnce, SameGoroutines
<1>4. n[1] \in 1..Len(requests) /\ n[2] \in Nat
  BY <1>3
<1>5. /\ requests'[n[1]] = requests[n[1]]
      /\ stage'[n[1]] \notin {"sleeping", "ready"}
      /\ posts'[n[1]] \subseteq posts[n[1]]
  BY <1>3, <1>4 DEF Onward
<1>6. requests[n[1]].start \in Nat /\ now \in Nat
  BY <1>4, DispatchTypes, RequestFields
<1>7. requests'[n[1]].start <= now'
  BY <1>1, <1>3, <1>5, <1>6
<1>8. n \in (1..Len(requests')) \X Nat
  <2>1. 1..Len(requests) \subseteq 1..Len(requests')
    BY <1>1
  <2>2. QED
    BY <1>3, <2>1
<1>9. QED
  BY <1>3, <1>5, <1>7, <1>8

LEMMA ToKeeps ==
    ASSUME AgentsTyped, NEW n \in DOMAIN injections,
           NEW s \in Stages, NEW l \in Nat, To(n, s, l)
    PROVE  /\ SameGoroutines
           /\ injections'[n].stage = s
           /\ \A m \in DOMAIN injections \ {n} : injections'[m] = injections[m]
<1> DEFINE old == injections[n]
           new == [old EXCEPT !.stage = s, !.left = l]
<1>1. old \in Goroutines
  BY DEF AgentsTyped
<1>2. injections' = [injections EXCEPT ![n] = new]
  BY DEF To, AgentsTyped
<1>3. new \in Goroutines /\ new.stage = s /\ new.agent = old.agent
  BY <1>1 DEF Goroutines
<1> HIDE DEF new
<1>4. QED
  BY <1>2, <1>3 DEF SameGoroutines, AgentsTyped

\* A goroutine that had no fault in place.
LEMMA StepWithoutFault ==
    ASSUME AgentsTyped, FaultHasOwner, NEW n \in DOMAIN injections,
           NEW s \in Stages, NEW l \in Nat, To(n, s, l),
           injections[n].stage # "sleeping", UNCHANGED <<qdisc, mishap>>
    PROVE  SameGoroutines /\ AgentsTyped' /\ FaultHasOwner'
<1>1. /\ SameGoroutines
      /\ \A m \in DOMAIN injections \ {n} : injections'[m] = injections[m]
  BY ToKeeps
<1>2. AgentsTyped'
  BY <1>1 DEF AgentsTyped, SameGoroutines
<1>3. SUFFICES ASSUME NEW a \in Agents, qdisc[a] # None, a \notin mishap
      PROVE  /\ injections'[qdisc[a]].stage = "sleeping"
             /\ injections'[qdisc[a]].agent = a
  BY <1>1, <1>2 DEF FaultHasOwner
<1>4. /\ injections[qdisc[a]].stage = "sleeping"
      /\ injections[qdisc[a]].agent = a
      /\ qdisc[a] \in DOMAIN injections
  BY <1>3 DEF FaultHasOwner, AgentsTyped
<1>5. QED
  BY <1>1, <1>4

LEMMA AddStep ==
    ASSUME AgentsTyped, FaultHasOwner, NEW n \in DOMAIN injections,
           AddNetworkFault(n)
    PROVE  SameGoroutines /\ AgentsTyped' /\ FaultHasOwner'
<1> DEFINE a == injections[n].agent
<1>1. /\ a \in Agents /\ injections[n].duration \in Nat
      /\ "sleeping" \in Stages
  BY DEF AgentsTyped, Goroutines, Stages
<1>2. /\ To(n, "sleeping", injections[n].duration) /\ mishap' = mishap
      /\ injections[n].stage = "accepted"
      /\ \/ qdisc[a] = None /\ qdisc' = [qdisc EXCEPT ![a] = n]
         \/ qdisc' = qdisc
  BY DEF AddNetworkFault, QdiscAdd
<1>3. /\ SameGoroutines /\ injections'[n].stage = "sleeping"
      /\ \A m \in DOMAIN injections \ {n} : injections'[m] = injections[m]
  BY <1>1, <1>2, ToKeeps
<1>4. AgentsTyped'
  BY <1>1, <1>2, <1>3 DEF AgentsTyped, SameGoroutines
<1>5. SUFFICES ASSUME NEW b \in Agents, qdisc'[b] # None, b \notin mishap
      PROVE  /\ injections'[qdisc'[b]].stage = "sleeping"
             /\ injections'[qdisc'[b]].agent = b
  BY <1>2, <1>3, <1>4 DEF FaultHasOwner
<1>6. CASE b = a /\ qdisc'[b] = n
  <2>1. injections'[n].agent = a
    BY <1>3 DEF SameGoroutines
  <2>2. QED
    BY <1>3, <1>6, <2>1
<1>7. CASE ~(b = a /\ qdisc'[b] = n)
  <2>1. qdisc'[b] = qdisc[b]
    BY <1>1, <1>2, <1>7 DEF AgentsTyped
  <2>2. /\ injections[qdisc[b]].stage = "sleeping"
        /\ injections[qdisc[b]].agent = b
        /\ qdisc[b] \in DOMAIN injections \ {n}
    BY <1>2, <1>5, <2>1 DEF FaultHasOwner, AgentsTyped
  <2>3. QED
    BY <1>3, <2>1, <2>2
<1>8. QED
  BY <1>6, <1>7

LEMMA RemoveStep ==
    ASSUME AgentsTyped, FaultHasOwner, NEW n \in DOMAIN injections,
           RemoveNetworkFault(n)
    PROVE  SameGoroutines /\ AgentsTyped' /\ FaultHasOwner'
<1> DEFINE a == injections[n].agent
<1>1. a \in Agents /\ "completed" \in Stages /\ 0 \in Nat
  BY DEF AgentsTyped, Goroutines, Stages
<1>2. /\ To(n, "completed", 0)
      /\ \/ /\ qdisc' = [qdisc EXCEPT ![a] = None]
            /\ mishap' = mishap \ {a}
         \/ /\ mishap' = mishap \cup {a}
            /\ qdisc' = qdisc
  BY DEF RemoveNetworkFault
<1>3. /\ SameGoroutines
      /\ \A m \in DOMAIN injections \ {n} : injections'[m] = injections[m]
  BY <1>1, <1>2, ToKeeps
<1>4. AgentsTyped'
  <2>1. qdisc' \in [Agents -> {None} \cup DOMAIN injections]
    BY <1>1, <1>2 DEF AgentsTyped
  <2>2. mishap' \subseteq Agents
    BY <1>1, <1>2 DEF AgentsTyped
  <2>3. QED
    BY <1>3, <2>1, <2>2 DEF AgentsTyped, SameGoroutines
<1>5. SUFFICES ASSUME NEW b \in Agents, qdisc'[b] # None, b \notin mishap'
      PROVE  /\ injections'[qdisc'[b]].stage = "sleeping"
             /\ injections'[qdisc'[b]].agent = b
  BY <1>3, <1>4 DEF FaultHasOwner
<1>6. b # a /\ qdisc'[b] = qdisc[b] /\ b \notin mishap
  BY <1>1, <1>2, <1>5 DEF AgentsTyped
<1>7. /\ injections[qdisc[b]].stage = "sleeping"
      /\ injections[qdisc[b]].agent = b
      /\ qdisc[b] \in DOMAIN injections \ {n}
  BY <1>5, <1>6 DEF FaultHasOwner, AgentsTyped
<1>8. QED
  BY <1>3, <1>6, <1>7

LEMMA KillStep ==
    ASSUME AgentsTyped, FaultHasOwner, NEW n \in DOMAIN injections,
           KillProcess(n)
    PROVE  SameGoroutines /\ AgentsTyped' /\ FaultHasOwner'
<1> DEFINE a == injections[n].agent
           dies(m) == /\ injections[m].agent = a
                      /\ injections[m].stage \in {"accepted", "sleeping", "stressing"}
           dead(m) == [injections[m] EXCEPT !.stage = "killed", !.left = 0]
<1>1. /\ a \in Agents /\ "completed" \in Stages /\ "killed" \in Stages /\ 0 \in Nat
      /\ injections[n].stage = "accepted" /\ qdisc' = qdisc
  BY DEF AgentsTyped, Goroutines, Stages, KillProcess
<1>2. CASE To(n, "completed", 0) /\ UNCHANGED mishap
  <2>1. UNCHANGED <<qdisc, mishap>> /\ injections[n].stage # "sleeping"
    BY <1>1, <1>2
  <2>2. QED
    BY <1>1, <1>2, <2>1, StepWithoutFault
<1>3. CASE /\ injections' = [m \in DOMAIN injections |->
                               IF dies(m) THEN dead(m) ELSE injections[m]]
           /\ mishap' = IF qdisc[a] = None THEN mishap ELSE mishap \cup {a}
  <2>1. ASSUME NEW m \in DOMAIN injections
        PROVE  dead(m) \in Goroutines /\ dead(m).agent = injections[m].agent
    <3>1. injections[m] \in Goroutines
      BY DEF AgentsTyped
    <3>2. QED
      BY <1>1, <3>1 DEF Goroutines
  <2> HIDE DEF dead
  <2>2. SameGoroutines
    <3>1. \A m \in DOMAIN injections : injections[m] \in Goroutines
      BY DEF AgentsTyped
    <3> HIDE DEF dies
    <3>2. QED
      BY <1>3, <2>1, <3>1 DEF SameGoroutines
  <2>3. mishap' \subseteq Agents
    BY <1>1, <1>3 DEF AgentsTyped
  <2>4. AgentsTyped'
    BY <1>1, <2>2, <2>3 DEF AgentsTyped, SameGoroutines
  <2>5. SUFFICES ASSUME NEW b \in Agents, qdisc[b] # None, b \notin mishap'
        PROVE  /\ injections'[qdisc[b]].stage = "sleeping"
               /\ injections'[qdisc[b]].agent = b
    BY <1>1, <2>2, <2>4 DEF FaultHasOwner
  <2>6. b # a /\ b \notin mishap
    BY <1>1, <1>3, <2>5
  <2>7. /\ injections[qdisc[b]].stage = "sleeping"
        /\ injections[qdisc[b]].agent = b
        /\ qdisc[b] \in DOMAIN injections
    BY <2>5, <2>6 DEF FaultHasOwner, AgentsTyped
  <2>8. ~dies(qdisc[b])
    BY <2>6, <2>7
  <2>9. QED
    BY <1>3, <2>7, <2>8
<1>4. QED
  BY <1>2, <1>3 DEF KillProcess

LEMMA AgentStep ==
    ASSUME AgentsTyped, FaultHasOwner, NEW n \in DOMAIN injections, Step(n)
    PROVE  SameGoroutines /\ AgentsTyped' /\ FaultHasOwner'
<1>0. {"stressing", "completed", "unknown"} \subseteq Stages /\ 0 \in Nat
  BY DEF Stages
<1>1. CASE Stress(n)
  <2>1. /\ To(n, "stressing", 0) /\ UNCHANGED <<qdisc, mishap>>
        /\ injections[n].stage # "sleeping"
    BY <1>1 DEF Stress
  <2>2. QED
    BY <1>0, <2>1, StepWithoutFault
<1>2. CASE StressEnds(n)
  <2>1. /\ To(n, "completed", 0) /\ UNCHANGED <<qdisc, mishap>>
        /\ injections[n].stage # "sleeping"
    BY <1>2 DEF StressEnds
  <2>2. QED
    BY <1>0, <2>1, StepWithoutFault
<1>3. CASE UnknownType(n)
  <2>1. /\ To(n, "unknown", 0) /\ UNCHANGED <<qdisc, mishap>>
        /\ injections[n].stage # "sleeping"
    BY <1>3 DEF UnknownType
  <2>2. QED
    BY <1>0, <2>1, StepWithoutFault
<1>4. QED
  BY <1>1, <1>2, <1>3, AddStep, RemoveStep, KillStep DEF Step

LEMMA ElapseStep ==
    ASSUME AgentsTyped, FaultHasOwner, Elapse
    PROVE  SameGoroutines /\ AgentsTyped' /\ FaultHasOwner'
<1> DEFINE later(m) == [injections[m] EXCEPT !.left = @ - 1]
<1>1. ASSUME NEW m \in Sleeping
      PROVE  /\ later(m) \in Goroutines
             /\ later(m).agent = injections[m].agent
             /\ later(m).stage = injections[m].stage
  <2>1. injections[m] \in Goroutines /\ injections[m].left > 0
    BY DEF AgentsTyped, Sleeping
  <2>2. injections[m].left - 1 \in Nat
    BY <2>1 DEF Goroutines
  <2>3. QED
    BY <2>1, <2>2 DEF Goroutines
<1>2. injections' = [m \in DOMAIN injections |->
                        IF m \in Sleeping THEN later(m) ELSE injections[m]]
  BY DEF Elapse
<1> HIDE DEF later
<1>3. \A m \in DOMAIN injections :
          /\ injections'[m].stage = injections[m].stage
          /\ injections'[m].agent = injections[m].agent
          /\ injections'[m] \in Goroutines
  BY <1>1, <1>2 DEF AgentsTyped
<1>4. SameGoroutines
  BY <1>2, <1>3 DEF SameGoroutines
<1>5. UNCHANGED <<qdisc, mishap>>
  BY DEF Elapse
<1>6. AgentsTyped'
  BY <1>4, <1>5 DEF AgentsTyped, SameGoroutines
<1>7. FaultHasOwner'
  BY <1>3, <1>5 DEF FaultHasOwner, AgentsTyped
<1>8. QED
  BY <1>4, <1>6, <1>7

LEMMA NoAgentMoves ==
    ASSUME AgentsTyped, FaultHasOwner, UNCHANGED agents
    PROVE  SameGoroutines /\ AgentsTyped' /\ FaultHasOwner'
  BY DEF agents, SameGoroutines, AgentsTyped, FaultHasOwner

\* A post that arrives starts a goroutine of its own.
LEMMA ArrivesStep ==
    ASSUME Inv, NEW x \in 1..Len(requests), NEW i \in posts[x], Arrives(x, i)
    PROVE  Inv'
<1> DEFINE n == <<x, i>>
           req == requests[x]
           new == [agent |-> AgentOf(i), type |-> req.type,
                   duration |-> req.duration, stage |-> "accepted", left |-> 0]
<1>1. /\ MakeAgentRequest(x, i) /\ UNCHANGED <<now, qdisc, mishap>>
      /\ injections' = [m \in DOMAIN injections \cup {n} |->
                           IF m = n THEN new ELSE injections[m]]
  BY DEF Arrives, Inject
<1>2. /\ DispatchInv' /\ Onward
      /\ requests' = requests
      /\ posts'[x] = posts[x] \ {i} /\ stage'[x] = "posting"
      /\ i \in Copies(req) /\ req.start <= now
  BY <1>1, PostStep DEF Inv
<1>3. i \in Nat /\ req \in Requests /\ AgentOf(i) \in Agents
  BY <1>2, DispatchTypes, AgentOfType DEF Inv
<1>4. n \notin DOMAIN injections
  BY DEF Inv, PostedOnce
<1>5. new \in Goroutines
  BY <1>3, RequestFields DEF Goroutines, Types, Stages
<1>6. new.agent = AgentOf(i)
  OBVIOUS
<1> HIDE DEF new
<1>7. /\ DOMAIN injections' = DOMAIN injections \cup {n}
      /\ injections'[n] = new
      /\ \A m \in DOMAIN injections : injections'[m] = injections[m]
  BY <1>1, <1>4
<1> HIDE DEF n
<1>8. AgentsTyped'
  <2>1. injections' \in [DOMAIN injections' -> Goroutines]
    BY <1>1, <1>5, <1>7 DEF Inv, AgentsTyped
  <2>2. qdisc' \in [Agents -> {None} \cup DOMAIN injections']
    BY <1>1, <1>7 DEF Inv, AgentsTyped
  <2>3. QED
    BY <1>1, <2>1, <2>2 DEF Inv, AgentsTyped
<1>9. FaultHasOwner'
  BY <1>1, <1>7 DEF Inv, AgentsTyped, FaultHasOwner
<1>10. PostedOnce'
  <2>1. SUFFICES ASSUME NEW m \in DOMAIN injections'
        PROVE  /\ m \in (1..Len(requests)) \X Nat
               /\ m[2] \in Copies(requests[m[1]]) \ posts'[m[1]]
               /\ stage'[m[1]] \notin {"sleeping", "ready"}
               /\ requests[m[1]].start <= now
               /\ injections'[m].agent = AgentOf(m[2])
    BY <1>1, <1>2 DEF PostedOnce, Copies, Parallel, AgentOf
  <2>2. CASE m = n
    <3>1. m = <<x, i>> /\ injections'[m].agent = AgentOf(i)
      BY <1>6, <1>7, <2>2 DEF n
    <3>2. QED
      BY <1>2, <1>3, <3>1
  <2>3. CASE m \in DOMAIN injections
    <3>1. /\ m \in (1..Len(requests)) \X Nat
          /\ m[2] \in Copies(requests[m[1]]) \ posts[m[1]]
          /\ stage[m[1]] \notin {"sleeping", "ready"}
          /\ requests[m[1]].start <= now
          /\ injections'[m].agent = AgentOf(m[2])
      BY <1>7, <2>3 DEF Inv, PostedOnce
    <3>2. QED
      BY <1>2, <3>1 DEF Onward
  <2>4. QED
    BY <1>7, <2>1, <2>2, <2>3
<1>11. QED
  BY <1>2, <1>8, <1>9, <1>10 DEF Inv

-----------------------------------------------------------------------------
(* The invariant is one. *)

LEMMA InitInv == Init => Inv
<1> SUFFICES ASSUME Init PROVE Inv
  OBVIOUS
<1>1. /\ now = 0 /\ requests = <<>> /\ experimentList = <<>>
      /\ stage = <<>> /\ posts = <<>>
      /\ injections = <<>> /\ qdisc = [a \in Agents |-> None] /\ mishap = {}
  BY DEF Init, DispatchInit, InjectionInit
<1>2. /\ requests \in Seq(Requests) /\ stage \in Seq(DispatchStages)
      /\ posts \in Seq(SUBSET Nat) /\ experimentList \in Seq(1..Len(requests))
  BY <1>1, EmptySeq
<1>3. Len(requests) = 0 /\ Len(stage) = 0 /\ Len(posts) = 0
  BY <1>1, EmptySeq
<1>4. DispatchInv
  BY <1>1, <1>2, <1>3, DispatchAssumption, BoundsAssumption
     DEF DispatchInv, DispatchTyped, PostsWhilePosting
<1>5. DOMAIN injections = {}
  BY <1>1
<1>6. AgentsTyped
  <2>1. injections \in [DOMAIN injections -> Goroutines]
    BY <1>1, <1>5
  <2>2. QED
    BY <1>1, <2>1 DEF AgentsTyped
<1>7. PostedOnce
  BY <1>5 DEF PostedOnce
<1>8. FaultHasOwner
  BY <1>1 DEF FaultHasOwner
<1>9. QED
  BY <1>4, <1>6, <1>7, <1>8 DEF Inv

\* A step of the controller, of the agents or of the clock, but for the one
\* with which a post arrives.
LEMMA Separately ==
    ASSUME Inv, DispatchInv', Onward,
           SameGoroutines, AgentsTyped', FaultHasOwner'
    PROVE  Inv'
  BY StillPosted DEF Inv

LEMMA NoDispatch ==
    ASSUME DispatchInv, UNCHANGED dispatch, now' \in now..MaxTime
    PROVE  DispatchInv' /\ Onward
<1>1. /\ requests' = requests /\ stage' = stage /\ posts' = posts
      /\ experimentList' = experimentList /\ now <= now'
      /\ now \in Nat /\ now' \in Nat /\ Len(requests) \in Nat /\ MaxTime \in Nat
  BY DispatchTypes, DispatchAssumption DEF dispatch
<1>2. DispatchTyped'
  BY <1>1 DEF DispatchInv, DispatchTyped
<1>3. PostsWhilePosting'
  <2>1. SUFFICES ASSUME NEW x \in 1..Len(requests)
        PROVE  /\ posts[x] \subseteq Copies(requests[x])
               /\ posts[x] # {} => stage[x] = "posting"
               /\ stage[x] \in {"ready", "posting"} => requests[x].start <= now'
    BY <1>1 DEF PostsWhilePosting, Copies, Parallel
  <2>2. requests[x].start \in Nat
    BY DispatchTypes, RequestFields
  <2>3. QED
    BY <1>1, <2>2 DEF DispatchInv, PostsWhilePosting
<1>4. QED
  BY <1>1, <1>2, <1>3 DEF DispatchInv, Onward

LEMMA NextInv == Inv /\ [Next]_vars => Inv'
<1> SUFFICES ASSUME Inv, [Next]_vars PROVE Inv'
  OBVIOUS
<1>0. DispatchInv /\ AgentsTyped /\ FaultHasOwner
  BY DEF Inv
<1>1. /\ Len(requests) \in Nat /\ now \in Nat /\ now \in 0..MaxTime
      /\ DOMAIN requests = 1..Len(requests) /\ MaxTime \in Nat
  BY <1>0, DispatchTypes, DispatchAssumption DEF DispatchInv, DispatchTyped
<1>2. ASSUME NEW req \in Requests, StartRequest(req) PROVE Inv'
  <2>1. /\ DispatchInv'
        /\ Len(requests') = Len(requests) + 1
        /\ \A x \in 1..Len(requests) :
               /\ requests'[x] = requests[x]
               /\ stage'[x] = stage[x] /\ posts'[x] = posts[x]
    BY <1>0, <1>2, StartDispatch
  <2>2. Onward
    BY <1>1, <1>2, <2>1 DEF Onward, StartRequest
  <2>3. UNCHANGED agents
    BY <1>2 DEF StartRequest
  <2>4. QED
    BY <1>0, <2>1, <2>2, <2>3, NoAgentMoves, Separately
<1>3. ASSUME NEW x \in DOMAIN requests, Controller(x) PROVE Inv'
  <2>1. DispatchInv' /\ Onward
    BY <1>0, <1>1, <1>3, ControllerSteps DEF Controller
  <2>2. UNCHANGED agents
    BY <1>3 DEF Controller
  <2>3. QED
    BY <1>0, <2>1, <2>2, NoAgentMoves, Separately
<1>4. ASSUME NEW x \in DOMAIN requests, NEW i \in posts[x], Arrives(x, i)
      PROVE  Inv'
  BY <1>1, <1>4, ArrivesStep
<1>5. ASSUME NEW x \in DOMAIN requests, NEW i \in posts[x], Lost(x, i)
      PROVE  Inv'
  <2>1. DispatchInv' /\ Onward
    BY <1>0, <1>1, <1>5, PostStep DEF Lost
  <2>2. UNCHANGED agents
    BY <1>5 DEF Lost
  <2>3. QED
    BY <1>0, <2>1, <2>2, NoAgentMoves, Separately
<1>6. ASSUME NEW n \in DOMAIN injections, Agent(n) PROVE Inv'
  <2>1. Step(n) /\ UNCHANGED <<now, dispatch>>
    BY <1>6 DEF Agent
  <2>2. now' \in now..MaxTime
    BY <1>1, <2>1
  <2>3. QED
    BY <1>0, <2>1, <2>2, NoDispatch, AgentStep, Separately
<1>7. CASE Restart
  <2>1. DispatchInv' /\ Onward
    BY <1>0, <1>7, RestartStep DEF Restart
  <2>2. UNCHANGED agents
    BY <1>7 DEF Restart
  <2>3. QED
    BY <1>0, <2>1, <2>2, NoAgentMoves, Separately
<1>8. CASE Tick
  <2>1. /\ now' = IF now < MaxTime THEN now + 1 ELSE now
        /\ Elapse /\ UNCHANGED dispatch
    BY <1>8 DEF Tick
  <2>2. now' \in now..MaxTime
    BY <1>1, <2>1
  <2>3. QED
    BY <1>0, <2>1, <2>2, NoDispatch, ElapseStep, Separately
<1>9. CASE UNCHANGED vars
  <2>1. UNCHANGED dispatch /\ UNCHANGED agents /\ now' = now
    BY <1>9 DEF vars
  <2>2. now' \in now..MaxTime
    BY <1>1, <2>1
  <2>3. QED
    BY <1>0, <2>1, <2>2, NoDispatch, NoAgentMoves, Separately
<1>10. QED
  BY <1>2, <1>3, <1>4, <1>5, <1>6, <1>7, <1>8, <1>9 DEF Next

\* Every variable of the controller and of the agents keeps its type,
\* whatever is asked for, lost, killed or started again.
THEOREM ControlPlaneTypes == Spec => []TypeOK
<1>1. Inv => TypeOK
  <2> SUFFICES ASSUME Inv PROVE TypeOK
    OBVIOUS
  <2>1. /\ Len(requests) \in Nat /\ Len(requests) <= MaxRequests
        /\ now \in 0..MaxTime /\ MaxRequests \in Nat /\ MaxAgentCount \in Nat
        /\ DOMAIN requests = 1..Len(requests)
        /\ DOMAIN stage = 1..Len(requests) /\ DOMAIN posts = 1..Len(requests)
        /\ \A x \in 1..Len(requests) :
              requests[x] \in Requests /\ stage[x] \in DispatchStages
    BY DispatchTypes, BoundsAssumption DEF Inv, DispatchInv, DispatchTyped
  <2>2. \A k \in DOMAIN experimentList : experimentList[k] \in 1..Len(requests)
    BY LenProperties, ElementOfSeq DEF Inv, DispatchInv, DispatchTyped
  <2>3. \A x \in 1..Len(requests) :
          /\ stage[x] \in {"sleeping", "ready", "posting", "dispatched", "lost"}
          /\ posts[x] \subseteq Copies(requests[x])
    BY <2>1 DEF DispatchStages, Inv, DispatchInv, PostsWhilePosting
  <2>4. ASSUME NEW n \in DOMAIN injections
        PROVE  /\ n \in Injections /\ n[1] \in 1..Len(requests)
               /\ injections[n].agent \in Agents
               /\ injections[n].stage \in Stages
    <3>1. /\ n \in (1..Len(requests)) \X Nat
          /\ n[2] \in Copies(requests[n[1]])
          /\ injections[n] \in Goroutines
      BY DEF Inv, PostedOnce, AgentsTyped
    <3>2. n[1] \in 1..Len(requests) /\ n[2] \in Nat /\ n = <<n[1], n[2]>>
      BY <3>1
    <3>3. n[2] < MaxAgentCount
      BY <2>1, <3>1, <3>2, CopiesType
    <3>4. n[1] \in Experiments /\ n[2] \in 0..(MaxAgentCount - 1)
      BY <2>1, <3>2, <3>3 DEF Experiments
    <3>5. n \in Injections
      BY <3>2, <3>4 DEF Injections
    <3>6. QED
      BY <3>1, <3>2, <3>5 DEF Goroutines
  <2>5. /\ qdisc \in [Agents -> {None} \cup DOMAIN injections]
        /\ mishap \subseteq Agents
    BY DEF Inv, AgentsTyped
  <2>6. QED
    BY <2>1, <2>2, <2>3, <2>4, <2>5 DEF TypeOK
<1>2. QED
  BY <1>1, InitInv, NextInv, PTL DEF Spec

\* Overlapping injections never leave a network fault behind that no goroutine
\* will remove, but for a tc command that fails and an agent that dies.
THEOREM FaultsHaveOwners == Spec => []FaultHasOwner
<1>1. Inv => FaultHasOwner
  BY DEF Inv
<1>2. QED
  BY <1>1, InitInv, NextInv, PTL DEF Spec

-----------------------------------------------------------------------------
(* Counting what agents run. *)

LEMMA DivMod ==
    ASSUME NEW i \in Nat, NEW E \in Nat \ {0}
    PROVE  /\ i \div E \in Nat /\ i % E \in 0..(E - 1)
           /\ i = E * (i \div E) + (i % E)
  OBVIOUS

\* The copies 0..(N - 1) go round E endpoints in (N + E - 1) \div E rounds.
LEMMA Rounds ==
    ASSUME NEW N \in Nat \ {0}, NEW E \in Nat \ {0}, NEW i \in 0..(N - 1)
    PROVE  i \div E \in 0..((N + E - 1) \div E - 1)
<1> DEFINE q == (N + E - 1) \div E
           r == (N + E - 1) % E
           d == i \div E
           m == i % E
<1>1. q \in Nat /\ r \in 0..(E - 1) /\ N + E - 1 = E * q + r
  <2>1. N + E - 1 \in Nat
    OBVIOUS
  <2>2. QED
    BY <2>1, DivMod
<1>2. d \in Nat /\ m \in 0..(E - 1) /\ i = E * d + m
  BY DivMod
<1> HIDE DEF q, r, d, m
<1>3. E * q + r >= E * d + m + E
  BY <1>1, <1>2
<1>4. ASSUME d >= q PROVE FALSE
  <2>1. E * d >= E * q
    BY <1>1, <1>2, <1>4
  <2>2. QED
    BY <1>1, <1>2, <1>3, <2>1
<1>5. d \in 0..(q - 1)
  BY <1>1, <1>2, <1>4
<1>6. QED
  BY <1>5 DEF d, q

LEMMA AtMost ==
    ASSUME NEW S, NEW T, IsFiniteSet(T), NEW f \in [S -> T],
           \A s, t \in S : f[s] = f[t] => s = t
    PROVE  Cardinality(S) <= Cardinality(T)
  BY FS_Injection DEF Injection, IsInjective

\* The injections of an experiment that are on some of the agents.
OnAgents(x, A) == {n \in DOMAIN injections : n[1] = x /\ injections[n].agent \in A}
CopiesAsked(req) == IF req.parallel /\ req.count > 0 THEN req.count ELSE 1

LEMMA CopiesAskedType ==
    ASSUME NEW req \in Requests
    PROVE  /\ CopiesAsked(req) \in Nat \ {0}
           /\ Copies(req) \subseteq 0..(CopiesAsked(req) - 1)
<1>1. req.count \in Nat /\ req.parallel \in BOOLEAN
  BY RequestFields
<1>2. QED
  BY <1>1 DEF Copies, Parallel, CopiesAsked

LEMMA OnAgentsCopies ==
    ASSUME Inv, NEW x \in 1..Len(requests), NEW A, NEW n \in OnAgents(x, A)
    PROVE  /\ n = <<x, n[2]>> /\ n[2] \in Nat
           /\ n[2] \in 0..(CopiesAsked(requests[x]) - 1)
           /\ AgentOf(n[2]) \in A
           /\ requests[x].start <= now
<1>1. /\ n \in (1..Len(requests)) \X Nat /\ n[1] = x
      /\ n[2] \in Copies(requests[n[1]])
      /\ AgentOf(n[2]) \in A
      /\ requests[n[1]].start <= now
  BY DEF OnAgents, Inv, PostedOnce
<1>2. requests[x] \in Requests
  BY DispatchTypes DEF Inv
<1>3. QED
  BY <1>1, <1>2, CopiesAskedType

LEMMA AtMostAsked ==
    ASSUME Inv, NEW x \in 1..Len(requests), NEW A
    PROVE  Cardinality(OnAgents(x, A)) <= CopiesAsked(requests[x])
<1> DEFINE N == CopiesAsked(requests[x])
           S == OnAgents(x, A)
           f == [n \in S |-> n[2]]
<1>1. N \in Nat \ {0}
  BY DispatchTypes, CopiesAskedType DEF Inv
<1>2. f \in [S -> 0..(N - 1)]
  BY OnAgentsCopies
<1>3. \A s, t \in S : f[s] = f[t] => s = t
  <2>1. SUFFICES ASSUME NEW s \in S, NEW t \in S, s[2] = t[2] PROVE s = t
    OBVIOUS
  <2>2. s = <<x, s[2]>> /\ t = <<x, t[2]>>
    BY OnAgentsCopies
  <2>3. QED
    BY <2>1, <2>2
<1> HIDE DEF N, f, S
<1>4. IsFiniteSet(0..(N - 1)) /\ Cardinality(0..(N - 1)) = N
  BY <1>1, FS_Interval
<1>5. Cardinality(S) <= Cardinality(0..(N - 1))
  BY <1>2, <1>3, <1>4, AtMost
<1>6. QED
  BY <1>4, <1>5 DEF N, S

LEMMA AtMostShare ==
    ASSUME Inv, NEW x \in 1..Len(requests), NEW a \in Agents,
           NEW E, E = Len(Endpoints)
    PROVE  Cardinality(OnAgents(x, {a}))
             <= Cardinality({k \in 1..E : Endpoints[k] = a})
                  * ((CopiesAsked(requests[x]) + E - 1) \div E)
<1> DEFINE N == CopiesAsked(requests[x])
           q == (N + E - 1) \div E
           S == OnAgents(x, {a})
           K == {k \in 1..E : Endpoints[k] = a}
           f == [n \in S |-> <<(n[2] % E) + 1, n[2] \div E>>]
<1>1. N \in Nat \ {0} /\ E \in Nat \ {0}
  BY DispatchTypes, CopiesAskedType, EndpointsAssumption, DispatchAssumption DEF Inv
<1>2. q \in Nat
  <2>1. N + E - 1 \in Nat
    BY <1>1
  <2>2. QED
    BY <1>1, <2>1, DivMod
<1>3. ASSUME NEW n \in S
      PROVE  /\ n = <<x, n[2]>> /\ n[2] \in Nat
             /\ (n[2] % E) + 1 \in K /\ n[2] \div E \in 0..(q - 1)
             /\ n[2] = E * (n[2] \div E) + (n[2] % E)
             /\ n[2] % E \in Nat /\ n[2] \div E \in Nat
  <2>1. /\ n = <<x, n[2]>> /\ n[2] \in Nat
        /\ n[2] \in 0..(N - 1) /\ AgentOf(n[2]) = a
    BY OnAgentsCopies
  <2>2. /\ n[2] \div E \in Nat /\ n[2] % E \in 0..(E - 1)
        /\ n[2] = E * (n[2] \div E) + (n[2] % E)
    BY <1>1, <2>1, DivMod
  <2>3. (n[2] % E) + 1 \in 1..E /\ n[2] % E \in Nat
    <3> DEFINE m == n[2] % E
    <3>1. m \in 0..(E - 1)
      BY <2>2
    <3> HIDE DEF m
    <3>2. m + 1 \in 1..E /\ m \in Nat
      BY <1>1, <3>1
    <3>3. QED
      BY <3>2 DEF m
  <2>4. Endpoints[(n[2] % E) + 1] = a
    BY <2>1 DEF AgentOf
  <2>5. n[2] \div E \in 0..(q - 1)
    BY <1>1, <2>1, Rounds
  <2>6. QED
    BY <2>1, <2>2, <2>3, <2>4, <2>5
<1> HIDE DEF q, N, S, K
<1>4. f \in [S -> K \X (0..(q - 1))]
  BY <1>3
<1>5. \A s, t \in S : f[s] = f[t] => s = t
  <2>1. SUFFICES ASSUME NEW s \in S, NEW t \in S,
                        (s[2] % E) + 1 = (t[2] % E) + 1, s[2] \div E = t[2] \div E
                 PROVE  s = t
    OBVIOUS
  <2>2. s[2] % E = t[2] % E
    BY <1>3, <2>1
  <2>3. s[2] = t[2]
    BY <1>3, <2>1, <2>2
  <2>4. QED
    BY <1>3, <2>3
<1> HIDE DEF f
<1>6. IsFiniteSet(K)
  <2>1. IsFiniteSet(1..E)
    BY <1>1, FS_Interval
  <2>2. K \in SUBSET (1..E)
    BY DEF K
  <2>3. QED
    BY <2>1, <2>2, FS_Subset
<1>7. IsFiniteSet(0..(q - 1)) /\ Cardinality(0..(q - 1)) = q
  <2>1. 0 \in Int /\ q - 1 \in Int
    BY <1>2
  <2>2. /\ IsFiniteSet(0..(q - 1))
        /\ Cardinality(0..(q - 1)) = IF 0 > q - 1 THEN 0 ELSE (q - 1) - 0 + 1
    BY <2>1, FS_Interval
  <2>3. QED
    BY <1>2, <2>2
<1>8. /\ IsFiniteSet(K \X (0..(q - 1)))
      /\ Cardinality(K \X (0..(q - 1))) = Cardinality(K) * q
  BY <1>6, <1>7, FS_Product
<1>9. Cardinality(S) <= Cardinality(K) * q
  BY <1>4, <1>5, <1>8, AtMost
<1>10. QED
  BY <1>9 DEF S, K, q, N

\* Agents run of an experiment no more copies than were asked for, each agent
\* no more than its share, and none before the start time, whatever is lost
\* and whoever restarts.
THEOREM InjectionsAsAsked == Spec => []InjectionsMatchRequest
<1>1. Inv => InjectionsMatchRequest
  <2> SUFFICES ASSUME Inv, NEW x \in 1..Len(requests)
      PROVE  LET req == requests[x]
                 N == CopiesAsked(req)
                 E == Len(Endpoints)
             IN  /\ Cardinality(OnAgents(x, Agents)) <= N
                 /\ \A a \in Agents :
                       Cardinality(OnAgents(x, {a})) <=
                           Cardinality({k \in 1..E : Endpoints[k] = a})
                               * ((N + E - 1) \div E)
                 /\ OnAgents(x, Agents) # {} => req.start <= now
    BY DispatchTypes DEF Inv, InjectionsMatchRequest, OnAgents, CopiesAsked
  <2>1. Cardinality(OnAgents(x, Agents)) <= CopiesAsked(requests[x])
    BY AtMostAsked
  <2>2. OnAgents(x, Agents) # {} => requests[x].start <= now
    BY OnAgentsCopies
  <2>3. QED
    BY <2>1, <2>2, AtMostShare
<1>2. QED
  BY <1>1, InitInv, NextInv, PTL DEF Spec

-----------------------------------------------------------------------------
(* What clients see: the refinement of ExperimentService.  The mapping reads *)
(* phases off the stages of goroutines and impaired agents off the qdiscs.   *)

Network == {"network-latency", "network-loss"}

\* Only network faults sleep, and only sleeps have time left.
StagesFit ==
    \A n \in DOMAIN injections :
        /\ injections[n].stage = "sleeping" => injections[n].type \in Network
        /\ injections[n].stage = "stressing" => injections[n].type \notin Network
        /\ injections[n].stage # "sleeping" => injections[n].left = 0

\* What clients see of a fault, and what moving it to another phase makes of it.
Fault(a, t, d, p, l) ==
    [agent |-> a, type |-> t, duration |-> d, phase |-> p, left |-> l]

LEMMA FaultTurned ==
    ASSUME NEW a, NEW t, NEW d, NEW p0, NEW l0, NEW p, NEW l
    PROVE  Service!Turned(Fault(a, t, d, p0, l0), p, l) = Fault(a, t, d, p, l)
<1> DEFINE r == Fault(a, t, d, p0, l0)
           mid == [r EXCEPT !.phase = p]
           new == [mid EXCEPT !.left = l]
<1>1. mid = Fault(a, t, d, p, l0)
  BY DEF Fault
<1>2. new = Fault(a, t, d, p, l)
  <2> HIDE DEF mid
  <2>1. QED
    BY <1>1 DEF Fault
<1>3. Service!Turned(r, p, l) = new
  <2> HIDE DEF r
  <2>1. QED
    BY DEF Service!Turned
<1>4. QED
  BY <1>2, <1>3

LEMMA Seen ==
    ASSUME NEW n \in DOMAIN injections
    PROVE  FaultsSeen[n] = Fault(injections[n].agent, injections[n].type,
                                 injections[n].duration, Phase(injections[n].stage),
                                 injections[n].left)
BY DEF FaultsSeen, FaultOf, Fault

\* What becomes of the injections and of what clients see.
LEMMA ToSets ==
    ASSUME AgentsTyped, NEW n \in DOMAIN injections,
           NEW s \in Stages, NEW l \in Nat, To(n, s, l)
    PROVE  /\ DOMAIN injections' = DOMAIN injections
           /\ \A m \in DOMAIN injections \ {n} : injections'[m] = injections[m]
           /\ injections'[n].type = injections[n].type
           /\ injections'[n].stage = s /\ injections'[n].left = l
           /\ Service!To(n, Phase(s), l)
<1> DEFINE old == injections[n]
           mid == [old EXCEPT !.stage = s]
           new == [mid EXCEPT !.left = l]
<1>1. old \in Goroutines
  BY DEF AgentsTyped
<1>2. injections' = [injections EXCEPT ![n] = new]
  BY DEF To, AgentsTyped
<1>3. /\ mid \in Goroutines /\ mid.stage = s /\ mid.agent = old.agent
      /\ mid.type = old.type /\ mid.duration = old.duration
  BY <1>1 DEF Goroutines
<1> HIDE DEF mid
<1>4. /\ new \in Goroutines /\ new.stage = s /\ new.left = l /\ new.agent = old.agent
      /\ new.type = old.type /\ new.duration = old.duration
  BY <1>3 DEF Goroutines
<1> HIDE DEF new
<1>5. /\ DOMAIN injections' = DOMAIN injections /\ injections'[n] = new
      /\ \A m \in DOMAIN injections \ {n} : injections'[m] = injections[m]
  BY <1>2
<1>6. FaultsSeen' = [FaultsSeen EXCEPT ![n] = FaultOf(new)]
  <2>1. FaultsSeen' = [m \in DOMAIN injections |-> FaultOf(injections'[m])]
    BY <1>5 DEF FaultsSeen, FaultOf, Phase
  <2>2. QED
    BY <1>5, <2>1 DEF FaultsSeen
<1>7. FaultOf(new) = Service!Turned(FaultsSeen[n], Phase(s), l)
  <2>1. FaultsSeen[n] = Fault(old.agent, old.type, old.duration, Phase(old.stage), old.left)
    BY Seen
  <2>2. FaultOf(new) = Fault(old.agent, old.type, old.duration, Phase(s), l)
    BY <1>4 DEF FaultOf, Fault
  <2> HIDE DEF old
  <2>3. QED
    BY <2>1, <2>2, FaultTurned
<1>8. Service!To(n, Phase(s), l)
  BY <1>6, <1>7 DEF Service!To
<1>9. QED
  BY <1>4, <1>5, <1>8

LEMMA ToFits ==
    ASSUME AgentsTyped, StagesFit, NEW n \in DOMAIN injections,
           NEW s \in Stages, NEW l \in Nat, To(n, s, l),
           s = "sleeping" => injections[n].type \in Network,
           s = "stressing" => injections[n].type \notin Network,
           s # "sleeping" => l = 0
    PROVE  StagesFit'
BY ToSets DEF StagesFit, Network

LEMMA PhaseOf ==
    ASSUME NEW n \in DOMAIN injections
    PROVE  /\ n \in DOMAIN FaultsSeen
           /\ FaultsSeen[n].agent = injections[n].agent
           /\ FaultsSeen[n].type = injections[n].type
           /\ FaultsSeen[n].duration = injections[n].duration
           /\ FaultsSeen[n].left = injections[n].left
           /\ FaultsSeen[n].phase = Phase(injections[n].stage)
           /\ Service!IsNetworkFault(FaultsSeen[n]) <=> injections[n].type \in Network
BY DEF FaultsSeen, FaultOf, Service!IsNetworkFault, Network

\* The steps of a goroutine of an agent.
LEMMA AgentRefines ==
    ASSUME Inv, StagesFit, NEW n \in DOMAIN injections, Agent(n)
    PROVE  StagesFit' /\ Service!Next
<1> DEFINE a == injections[n].agent
<1>1. AgentsTyped /\ n \in Nat \X Nat
  <2>1. n \in (1..Len(requests)) \X Nat /\ Len(requests) \in Nat
    BY DispatchTypes DEF Inv, PostedOnce
  <2>2. QED
    BY <2>1 DEF Inv
<1>2. /\ injections[n] \in Goroutines /\ a \in Agents
      /\ Step(n) /\ now' = now /\ requests' = requests
      /\ n \in DOMAIN FaultsSeen /\ qdisc \in [Agents -> {None} \cup DOMAIN injections]
  BY <1>1, PhaseOf DEF AgentsTyped, Goroutines, Agent, dispatch
<1>3. {"sleeping", "stressing", "completed", "unknown", "killed"} \subseteq Stages /\ 0 \in Nat
  BY DEF Stages
<1>4. \E m \in DOMAIN FaultsSeen :
          Service!Begin(m) \/ Service!Pass(m) \/ Service!End(m) => Service!Next
  BY <1>2 DEF Service!Next
<1>5. CASE AddNetworkFault(n)
  <2>1. /\ injections[n].stage = "accepted" /\ injections[n].type \in Network
        /\ \/ qdisc' = [qdisc EXCEPT ![a] = n]
           \/ qdisc' = qdisc /\ AddMayFail
           \/ qdisc' = qdisc /\ qdisc[a] # None
        /\ To(n, "sleeping", injections[n].duration) /\ mishap' = mishap
        /\ injections[n].duration \in Nat
    BY <1>2, <1>5 DEF AddNetworkFault, QdiscAdd, Network, Goroutines
  <2>2. Service!To(n, "on", injections[n].duration)
    <3>1. Service!To(n, Phase("sleeping"), injections[n].duration)
      BY <1>1, <1>3, <2>1, ToSets
    <3>2. Phase("sleeping") = "on"
      BY DEF Phase
    <3>3. QED
      BY <3>1, <3>2
  <2>3. \/ ImpairedAgents' = ImpairedAgents \cup {a}
        \/ AddMayFail /\ ImpairedAgents' = ImpairedAgents
    <3>1. CASE qdisc' = [qdisc EXCEPT ![a] = n]
      BY <1>1, <1>2, <3>1, NoneAssumption DEF ImpairedAgents
    <3>2. CASE qdisc' = qdisc
      <4>1. ImpairedAgents' = ImpairedAgents
        BY <3>2 DEF ImpairedAgents
      <4>2. CASE qdisc[a] # None
        <5>1. a \in ImpairedAgents
          BY <1>2, <4>2 DEF ImpairedAgents
        <5>2. QED
          BY <4>1, <5>1
      <4>3. CASE AddMayFail
        BY <4>1, <4>3
      <4>4. QED
        <5>1. CASE qdisc' = [qdisc EXCEPT ![a] = n]
          <6>1. qdisc'[a] = n /\ n # None
            BY <1>1, <1>2, <5>1, NoneAssumption
          <6>2. QED
            BY <3>2, <4>2, <6>1
        <5>2. QED
          BY <2>1, <4>2, <4>3, <5>1
    <3>3. QED
      BY <2>1, <3>1, <3>2
  <2>4. FaultsSeen[n].phase = "reached"
    BY <2>1, PhaseOf DEF Phase
  <2>5. Service!Begin(n)
    BY <1>2, <2>1, <2>2, <2>3, <2>4, PhaseOf DEF Service!Begin
  <2>6. StagesFit'
    BY <1>1, <1>3, <2>1, ToFits
  <2>7. QED
    BY <1>2, <2>5, <2>6 DEF Service!Next
<1>6. CASE RemoveNetworkFault(n)
  <2>1. /\ injections[n].stage = "sleeping" /\ injections[n].left = 0
        /\ injections[n].type \in Network
        /\ To(n, "completed", 0)
        /\ \/ /\ qdisc' = [qdisc EXCEPT ![a] = None]
              /\ mishap' = mishap \ {a}
           \/ /\ DelMayFail /\ qdisc[a] # None
              /\ mishap' = mishap \cup {a}
              /\ qdisc' = qdisc
    BY <1>6 DEF RemoveNetworkFault, StagesFit
  <2>2. Service!To(n, "over", 0)
    <3>1. Service!To(n, Phase("completed"), 0)
      BY <1>1, <1>3, <2>1, ToSets
    <3>2. Phase("completed") = "over"
      BY DEF Phase
    <3>3. QED
      BY <3>1, <3>2
  <2>3. \/ /\ ImpairedAgents' = ImpairedAgents \ {a}
           /\ mishap' = mishap \ {a}
        \/ /\ DelMayFail /\ a \in ImpairedAgents
           /\ mishap' = mishap \cup {a}
           /\ ImpairedAgents' = ImpairedAgents
    BY <1>2, <2>1 DEF ImpairedAgents
  <2>4. FaultsSeen[n].phase = "on"
    BY <2>1, PhaseOf DEF Phase
  <2>5. Service!End(n)
    BY <1>2, <2>1, <2>2, <2>3, <2>4, PhaseOf DEF Service!End
  <2>6. StagesFit'
    BY <1>1, <1>3, <2>1, ToFits
  <2>7. QED
    BY <1>2, <2>5, <2>6 DEF Service!Next
<1>7. CASE Stress(n)
  <2>1. /\ injections[n].stage = "accepted" /\ injections[n].type \notin Network
        /\ To(n, "stressing", 0) /\ qdisc' = qdisc /\ mishap' = mishap
    BY <1>7 DEF Stress, Network
  <2>2. Service!To(n, "on", 0)
    <3>1. Service!To(n, Phase("stressing"), 0)
      BY <1>1, <1>3, <2>1, ToSets
    <3>2. Phase("stressing") = "on"
      BY DEF Phase
    <3>3. QED
      BY <3>1, <3>2
  <2>3. ImpairedAgents' = ImpairedAgents
    BY <2>1 DEF ImpairedAgents
  <2>4. FaultsSeen[n].phase = "reached"
    BY <2>1, PhaseOf DEF Phase
  <2>5. Service!Begin(n)
    BY <1>2, <2>1, <2>2, <2>3, <2>4, PhaseOf DEF Service!Begin
  <2>6. StagesFit'
    BY <1>1, <1>3, <2>1, ToFits
  <2>7. QED
    BY <1>2, <2>5, <2>6 DEF Service!Next
<1>8. CASE StressEnds(n)
  <2>1. /\ injections[n].stage = "stressing" /\ injections[n].left = 0
        /\ injections[n].type \notin Network
        /\ To(n, "completed", 0) /\ qdisc' = qdisc /\ mishap' = mishap
    BY <1>8 DEF StressEnds, StagesFit
  <2>2. Service!To(n, "over", 0)
    <3>1. Service!To(n, Phase("completed"), 0)
      BY <1>1, <1>3, <2>1, ToSets
    <3>2. Phase("completed") = "over"
      BY DEF Phase
    <3>3. QED
      BY <3>1, <3>2
  <2>3. ImpairedAgents' = ImpairedAgents
    BY <2>1 DEF ImpairedAgents
  <2>4. FaultsSeen[n].phase = "on"
    BY <2>1, PhaseOf DEF Phase
  <2>5. Service!End(n)
    BY <1>2, <2>1, <2>2, <2>3, <2>4, PhaseOf DEF Service!End
  <2>6. StagesFit'
    BY <1>1, <1>3, <2>1, ToFits
  <2>7. QED
    BY <1>2, <2>5, <2>6 DEF Service!Next
<1>9. ASSUME NEW s \in {"completed", "unknown"}, To(n, s, 0), UNCHANGED <<qdisc, mishap>>,
             injections[n].stage = "accepted", injections[n].type \notin Network
      PROVE  StagesFit' /\ Service!Next
  <2>1. Service!To(n, "over", 0)
    <3>1. Service!To(n, Phase(s), 0)
      BY <1>1, <1>3, <1>9, ToSets
    <3>2. Phase(s) = "over"
      BY DEF Phase
    <3>3. QED
      BY <3>1, <3>2
  <2>2. ImpairedAgents' = ImpairedAgents /\ mishap' = mishap
    BY <1>9 DEF ImpairedAgents
  <2>3. FaultsSeen[n].phase = "reached"
    BY <1>9, PhaseOf DEF Phase
  <2>4. Service!Pass(n)
    BY <1>2, <1>9, <2>1, <2>2, <2>3, PhaseOf DEF Service!Pass
  <2>5. StagesFit'
    BY <1>1, <1>3, <1>9, ToFits
  <2>6. QED
    BY <1>2, <2>4, <2>5 DEF Service!Next
<1>10. CASE UnknownType(n)
  BY <1>9, <1>10 DEF UnknownType, Network
<1>11. CASE KillProcess(n)
  <2> DEFINE dies(m) == /\ injections[m].agent = a
                        /\ injections[m].stage \in {"accepted", "sleeping", "stressing"}
             mid(m) == [injections[m] EXCEPT !.stage = "killed"]
             dead(m) == [injections[m] EXCEPT !.stage = "killed", !.left = 0]
  <2>1. injections[n].stage = "accepted" /\ injections[n].type = "process-kill" /\ qdisc' = qdisc
    BY <1>11, Zenon DEF KillProcess
  <2>2. CASE To(n, "completed", 0) /\ UNCHANGED mishap
    BY <1>9, <2>1, <2>2 DEF Network
  <2>3. CASE /\ KillMayHitAgent
             /\ injections' = [m \in DOMAIN injections |->
                                  IF dies(m) THEN dead(m) ELSE injections[m]]
             /\ mishap' = IF qdisc[a] = None THEN mishap ELSE mishap \cup {a}
    <3>1. ASSUME NEW m \in DOMAIN injections
          PROVE  /\ dead(m).agent = injections[m].agent /\ dead(m).type = injections[m].type
                 /\ dead(m).duration = injections[m].duration
                 /\ dead(m).stage = "killed" /\ dead(m).left = 0
      <4>1. injections[m] \in Goroutines
        BY <1>1 DEF AgentsTyped
      <4>2. /\ mid(m).agent = injections[m].agent /\ mid(m).type = injections[m].type
            /\ mid(m).duration = injections[m].duration /\ mid(m).stage = "killed"
            /\ mid(m) \in Goroutines
        BY <1>3, <4>1 DEF Goroutines
      <4>3. dead(m) = [mid(m) EXCEPT !.left = 0]
        OBVIOUS
      <4> HIDE DEF mid, dead
      <4>4. QED
        BY <4>2, <4>3 DEF Goroutines
    <3> HIDE DEF mid, dead, dies
    <3>2. StagesFit'
      <4>1. ASSUME NEW m \in DOMAIN injections
            PROVE  /\ injections'[m].stage = "sleeping" => injections'[m].type \in Network
                   /\ injections'[m].stage = "stressing" => injections'[m].type \notin Network
                   /\ injections'[m].stage # "sleeping" => injections'[m].left = 0
        <5>1. CASE dies(m)
          BY <2>3, <3>1, <5>1
        <5>2. CASE ~dies(m)
          BY <2>3, <5>2 DEF StagesFit
        <5>3. QED
          BY <5>1, <5>2
      <4>2. DOMAIN injections' = DOMAIN injections
        BY <2>3
      <4>3. QED
        BY <4>1, <4>2 DEF StagesFit, Network
    <3>3. FaultsSeen' = [m \in DOMAIN FaultsSeen |->
              IF FaultsSeen[m].agent = a /\ FaultsSeen[m].phase # "over"
              THEN Service!Turned(FaultsSeen[m], "over", 0)
              ELSE FaultsSeen[m]]
      <4>1. ASSUME NEW m \in DOMAIN injections
            PROVE  FaultOf(injections'[m]) =
                     IF FaultsSeen[m].agent = a /\ FaultsSeen[m].phase # "over"
                     THEN Service!Turned(FaultsSeen[m], "over", 0)
                     ELSE FaultsSeen[m]
        <5>1. FaultsSeen[m] = FaultOf(injections[m])
          BY DEF FaultsSeen
        <5>0. injections[m] \in Goroutines
          BY <1>1 DEF AgentsTyped
        <5>2. dies(m) <=> FaultsSeen[m].agent = a /\ FaultsSeen[m].phase # "over"
          BY <5>0, PhaseOf DEF Phase, dies, Goroutines, Stages
        <5>3. CASE dies(m)
          <6>1. injections'[m] = dead(m)
            BY <2>3, <5>3
          <6>2. FaultOf(injections'[m]) =
                  Fault(injections[m].agent, injections[m].type, injections[m].duration,
                        "over", 0)
            BY <3>1, <6>1 DEF FaultOf, Phase, Fault
          <6>3. FaultOf(injections'[m]) = Service!Turned(FaultsSeen[m], "over", 0)
            BY <6>2, Seen, FaultTurned
          <6>4. QED
            BY <5>2, <5>3, <6>3, Zenon
        <5>4. CASE ~dies(m)
          BY <2>3, <5>1, <5>2, <5>4
        <5>5. QED
          BY <5>3, <5>4
      <4>2. FaultsSeen' = [m \in DOMAIN injections |-> FaultOf(injections'[m])]
        BY <2>3 DEF FaultsSeen, FaultOf, Phase
      <4>3. DOMAIN FaultsSeen = DOMAIN injections
        BY DEF FaultsSeen
      <4>4. QED
        BY <4>1, <4>2, <4>3
    <3>4. /\ FaultsSeen[n].agent = a /\ FaultsSeen[n].phase = "reached"
          /\ FaultsSeen[n].type = "process-kill"
      BY <2>1, PhaseOf DEF Phase
    <3>5. /\ mishap' = IF a \in ImpairedAgents THEN mishap \cup {a} ELSE mishap
          /\ ImpairedAgents' = ImpairedAgents
      BY <1>2, <2>1, <2>3 DEF ImpairedAgents
    <3>6. Service!Die(a)
      BY <1>2, <2>3, <3>3, <3>4, <3>5 DEF Service!Die
    <3>7. QED
      BY <1>2, <3>2, <3>6 DEF Service!Next
  <2>4. QED
    <3> HIDE DEF dead
    <3>1. \/ To(n, "completed", 0) /\ UNCHANGED mishap
          \/ /\ KillMayHitAgent
             /\ injections' = [m \in DOMAIN injections |->
                                  IF dies(m) THEN dead(m) ELSE injections[m]]
             /\ mishap' = IF qdisc[a] = None THEN mishap ELSE mishap \cup {a}
      BY <1>11, Zenon DEF KillProcess, dead
    <3>2. QED
      BY <2>2, <2>3, <3>1
<1>12. QED
  BY <1>2, <1>5, <1>6, <1>7, <1>8, <1>10, <1>11 DEF Step

\* A copy that is posted is one of those asked for.
LEMMA CopyIsAsked ==
    ASSUME NEW req \in Requests, NEW i \in Copies(req)
    PROVE  i \in 0..(Service!NumberAsked(req) - 1) /\ i < Service!NumberAsked(req)
<1>1. Service!NumberAsked(req) \in Nat \ {0} /\ i \in 0..(Service!NumberAsked(req) - 1)
  BY CopiesAskedType DEF CopiesAsked, Service!NumberAsked
<1>2. QED
  BY <1>1

\* A post that arrives.
LEMMA ArrivesRefines ==
    ASSUME Inv, StagesFit, NEW x \in 1..Len(requests), NEW i \in posts[x], Arrives(x, i)
    PROVE  StagesFit' /\ Service!Next
<1> DEFINE n == <<x, i>>
           req == requests[x]
           new == [agent |-> AgentOf(i), type |-> req.type,
                   duration |-> req.duration, stage |-> "accepted", left |-> 0]
<1>1. /\ MakeAgentRequest(x, i) /\ UNCHANGED <<now, qdisc, mishap>>
      /\ injections' = [m \in DOMAIN injections \cup {n} |->
                           IF m = n THEN new ELSE injections[m]]
  BY DEF Arrives, Inject
<1>2. /\ requests' = requests /\ req.start <= now /\ DOMAIN requests = 1..Len(requests)
      /\ i \in Copies(req) /\ req \in Requests /\ AgentOf(i) \in Agents
      /\ Copies(req) \subseteq Nat
  BY <1>1, PostStep, DispatchTypes, AgentOfType DEF Inv
<1>3. n \notin DOMAIN injections
  BY DEF Inv, PostedOnce
<1>4. /\ DOMAIN injections' = DOMAIN injections \cup {n}
      /\ injections'[n] = new
      /\ \A m \in DOMAIN injections : injections'[m] = injections[m]
  BY <1>1, <1>3
<1>5. new.stage = "accepted" /\ new.left = 0
  OBVIOUS
<1>6. FaultOf(new) = [agent |-> AgentOf(i), type |-> req.type, duration |-> req.duration,
                      phase |-> "reached", left |-> 0]
  BY DEF FaultOf, Phase
<1> HIDE DEF new
<1>7. StagesFit'
  <2> HIDE DEF n
  <2>1. QED
    BY <1>4, <1>5 DEF StagesFit, Network
<1>8. FaultsSeen' = [m \in DOMAIN FaultsSeen \cup {n} |->
                        IF m = n THEN FaultOf(new) ELSE FaultsSeen[m]]
  <2> HIDE DEF n
  <2>1. FaultsSeen' = [m \in DOMAIN injections' |-> FaultOf(injections'[m])]
    BY DEF FaultsSeen, FaultOf, Phase
  <2>2. DOMAIN FaultsSeen = DOMAIN injections
    BY DEF FaultsSeen
  <2>3. \A m \in DOMAIN injections : FaultsSeen[m] = FaultOf(injections[m])
    BY DEF FaultsSeen
  <2>4. QED
    BY <1>3, <1>4, <2>1, <2>2, <2>3
<1>9. n \notin DOMAIN FaultsSeen
  BY <1>3 DEF FaultsSeen
<1>10. i \in 0..(Service!NumberAsked(req) - 1) /\ i < Service!NumberAsked(req)
  <2> HIDE DEF req
  <2>1. QED
    BY <1>2, CopyIsAsked
<1>11. Service!Reach(x, i, AgentOf(i))
  <2>1. ImpairedAgents' = ImpairedAgents
    BY <1>1 DEF ImpairedAgents
  <2>2. QED
    BY <1>1, <1>2, <1>6, <1>8, <1>9, <1>10, <2>1 DEF Service!Reach
<1>12. QED
  BY <1>2, <1>7, <1>10, <1>11 DEF Service!Next

\* The clock.
LEMMA TickRefines ==
    ASSUME Inv, StagesFit, Tick
    PROVE  StagesFit' /\ Service!Next
<1> DEFINE later(m) == [injections[m] EXCEPT !.left = @ - 1]
<1>1. /\ injections' = [m \in DOMAIN injections |->
                           IF m \in Sleeping THEN later(m) ELSE injections[m]]
      /\ UNCHANGED <<requests, qdisc, mishap>>
      /\ now' \in {now, now + 1}
  BY DEF Tick, Elapse, dispatch
<1>2. ASSUME NEW m \in DOMAIN injections
      PROVE  /\ m \in Sleeping <=> injections[m].left > 0
             /\ m \in Sleeping => injections[m].stage = "sleeping"
             /\ later(m).agent = injections[m].agent /\ later(m).type = injections[m].type
             /\ later(m).duration = injections[m].duration
             /\ later(m).stage = injections[m].stage
             /\ later(m).left = injections[m].left - 1
  <2>1. injections[m] \in Goroutines
    BY DEF Inv, AgentsTyped
  <2>2. QED
    BY <2>1 DEF Goroutines, Sleeping, StagesFit
<1> HIDE DEF later
<1>3. StagesFit'
  <2>1. DOMAIN injections' = DOMAIN injections
    BY <1>1
  <2>2. ASSUME NEW m \in DOMAIN injections
        PROVE  /\ injections'[m].stage = "sleeping" => injections'[m].type \in Network
               /\ injections'[m].stage = "stressing" => injections'[m].type \notin Network
               /\ injections'[m].stage # "sleeping" => injections'[m].left = 0
    <3>1. CASE m \in Sleeping
      BY <1>1, <1>2, <3>1 DEF StagesFit
    <3>2. CASE m \notin Sleeping
      BY <1>1, <3>2 DEF StagesFit
    <3>3. QED
      BY <3>1, <3>2
  <2>3. QED
    BY <2>1, <2>2 DEF StagesFit, Network
<1>4. FaultsSeen' = [m \in DOMAIN FaultsSeen |->
          IF FaultsSeen[m].left > 0 THEN [FaultsSeen[m] EXCEPT !.left = @ - 1]
                                    ELSE FaultsSeen[m]]
  <2>1. ASSUME NEW m \in DOMAIN injections
        PROVE  FaultOf(injections'[m]) =
                 IF FaultsSeen[m].left > 0 THEN [FaultsSeen[m] EXCEPT !.left = @ - 1]
                                           ELSE FaultsSeen[m]
    <3> DEFINE i == injections[m]
    <3>1. FaultsSeen[m] = FaultOf(i) /\ FaultsSeen[m].left = i.left
      BY PhaseOf DEF FaultsSeen
    <3>2. CASE m \in Sleeping
      <4>1. injections'[m] = later(m)
        BY <1>1, <3>2
      <4>2. FaultOf(later(m)) = Fault(i.agent, i.type, i.duration, Phase(i.stage), i.left - 1)
        BY <1>2 DEF FaultOf, Fault
      <4> DEFINE f == FaultsSeen[m]
      <4>3. f = Fault(i.agent, i.type, i.duration, Phase(i.stage), i.left)
        BY Seen
      <4>4. [f EXCEPT !.left = @ - 1]
              = Fault(i.agent, i.type, i.duration, Phase(i.stage), i.left - 1)
        <5> HIDE DEF f, i
        <5>1. QED
          BY <4>3 DEF Fault
      <4>5. QED
        BY <1>2, <3>1, <3>2, <4>1, <4>2, <4>4, Zenon
    <3>3. CASE m \notin Sleeping
      BY <1>1, <1>2, <3>1, <3>3
    <3>4. QED
      BY <3>2, <3>3
  <2>2. FaultsSeen' = [m \in DOMAIN injections |-> FaultOf(injections'[m])]
    BY <1>1 DEF FaultsSeen, FaultOf, Phase
  <2>3. DOMAIN FaultsSeen = DOMAIN injections
    BY DEF FaultsSeen
  <2>4. QED
    BY <2>1, <2>2, <2>3
<1>5. Service!Tick
  <2>1. ImpairedAgents' = ImpairedAgents
    BY <1>1 DEF ImpairedAgents
  <2>2. QED
    BY <1>1, <1>4, <2>1 DEF Service!Tick
<1>6. QED
  BY <1>3, <1>5 DEF Service!Next

\* What happens at the agents is all that clients see.
LEMMA Unseen ==
    ASSUME StagesFit, UNCHANGED agents
    PROVE  /\ StagesFit'
           /\ UNCHANGED <<FaultsSeen, ImpairedAgents, mishap>>
BY DEF agents, StagesFit, Network, FaultsSeen, FaultOf, Phase, ImpairedAgents

LEMMA NextRefines ==
    ASSUME Inv, StagesFit, [Next]_vars
    PROVE  StagesFit' /\ [Service!Next]_(Service!vars)
<1>1. DOMAIN requests = 1..Len(requests)
  BY DispatchTypes DEF Inv
<1>2. ASSUME NEW req \in Requests, StartRequest(req)
      PROVE  StagesFit' /\ Service!Next
  <2>1. /\ requests' = Append(requests, req) /\ now' = now /\ UNCHANGED agents
    BY <1>2 DEF StartRequest, Start
  <2>2. Service!Ask(req)
    BY <2>1, Unseen DEF Service!Ask
  <2>3. QED
    BY <2>1, <2>2, Unseen DEF Service!Next
<1>3. ASSUME UNCHANGED <<now, requests, agents>>
      PROVE  StagesFit' /\ UNCHANGED Service!vars
  BY <1>3, Unseen DEF Service!vars
<1>4. ASSUME NEW x \in DOMAIN requests, Controller(x)
      PROVE  UNCHANGED <<now, requests, agents>>
  BY <1>4 DEF Controller, Wakes, DispatchExperiment, Dispatched
<1>5. ASSUME NEW x \in DOMAIN requests, NEW i \in posts[x], Lost(x, i)
      PROVE  UNCHANGED <<now, requests, agents>>
  BY <1>5 DEF Lost, MakeAgentRequest
<1>6. ASSUME NEW x \in DOMAIN requests, NEW i \in posts[x], Arrives(x, i)
      PROVE  StagesFit' /\ Service!Next
  BY <1>1, <1>6, ArrivesRefines
<1>7. CASE Restart
  <2>1. UNCHANGED <<now, requests, agents>>
    BY <1>7 DEF Restart, ControllerRestart
  <2>2. QED
    BY <1>3, <2>1
<1>8. CASE UNCHANGED vars
  <2>1. UNCHANGED <<now, requests, agents>>
    BY <1>8 DEF vars, dispatch
  <2>2. QED
    BY <1>3, <2>1
<1>9. QED
  BY <1>2, <1>3, <1>4, <1>5, <1>6, <1>7, <1>8, AgentRefines, TickRefines DEF Next

\* ChaosLabs gives what ExperimentService promises: whatever posts are lost,
\* however faults overlap on eth0, whoever dies and starts again, an accepted
\* experiment becomes no fault it did not ask for, and the network of an agent
\* is impaired by nothing but a fault that began there, which may also fail to
\* impair it, until the first of the agent's faults to end, unless it is left.
THEOREM ControlPlaneImplementsService == Spec => ImplementsExperimentService
<1>1. Init => Service!Init /\ StagesFit
  <2> SUFFICES ASSUME Init PROVE Service!Init /\ StagesFit
    OBVIOUS
  <2>1. /\ now = 0 /\ requests = <<>> /\ injections = <<>> /\ mishap = {}
        /\ qdisc = [a \in Agents |-> None]
    BY DEF Init, DispatchInit, InjectionInit
  <2>2. DOMAIN injections = {}
    BY <2>1
  <2>3. FaultsSeen = <<>>
    BY <2>2 DEF FaultsSeen
  <2>4. ImpairedAgents = {}
    BY <2>1 DEF ImpairedAgents
  <2>5. StagesFit
    BY <2>2 DEF StagesFit
  <2>6. QED
    BY <2>1, <2>3, <2>4, <2>5 DEF Service!Init
<1>2. Inv /\ StagesFit /\ [Next]_vars => StagesFit' /\ [Service!Next]_(Service!vars)
  BY NextRefines
<1>3. QED
  BY <1>1, <1>2, InitInv, NextInv, PTL
     DEF Spec, ImplementsExperimentService, Service!Spec
=============================================================================
