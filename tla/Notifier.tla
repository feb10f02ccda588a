------------------------------ MODULE Notifier ------------------------------
(***************************************************************************)
(* EnhancedNotifierService (controller/enhanced_notifier_service.go) for   *)
(* one namespace: clients that join rooms, broadcasts to the members of a  *)
(* room, and readers of the statistics, around three levels of locks.      *)
(*                                                                         *)
(* A thread that is about to take a lock is "at" that lock.  Nothing in    *)
(* the service registers a client in the namespace or reads the channel of *)
(* a client: both are external.  Rate limiters, merging, diff emission,    *)
(* compression, Redis and the cleanups are stubs; the load is 0 or 0.5,    *)
(* below every threshold; a message has a time to live that nothing looks  *)
(* at when it is sent.  They are left out.                                 *)
(***************************************************************************)
EXTENDS Integers, Sequences, FiniteSets

CONSTANTS
    Clients,       \* clients registered in the namespace
    Strangers,     \* other client IDs
    HighPriority,  \* clients whose priority is PriorityHigh or more
    RoomNames,
    MaxClientsTotal,  \* limits of the namespace
    MaxRooms,
    MaxClients,    \* limit of a room
    BufferSize,    \* capacity of a client's channel
    MessageTypes,  \* types of messages
    FilterTypes,   \* types a "message_type" filter may ask for
    Joiners, Broadcasters, Watchers,   \* threads
    MaxBroadcasts  \* bound on the broadcasts of a thread

ASSUME NotifierAssumption ==
    /\ HighPriority \subseteq Clients /\ Clients \cap Strangers = {}
    /\ {MaxClientsTotal, MaxRooms, MaxClients} \subseteq Nat /\ BufferSize \in Nat \ {0}
    /\ MaxBroadcasts \in Nat

VARIABLES
    rooms,        \* nsObj.Rooms: the clients of each room there is
    filters,      \* client.Filters: the types each client asks for
    buffers,      \* client.Send
    joiner,       \* the threads in JoinNamespaceRoom
    broadcaster,  \* the threads in BroadcastToNamespaceRoom
    watcher       \* the threads in GetNamespaceStats, updateBackpressureMetrics

notifierVars == <<rooms, filters, buffers, joiner, broadcaster, watcher>>

Idle == [at |-> "idle"]

\* The type of every variable.
NotifierTypeOK ==
    /\ DOMAIN rooms \subseteq RoomNames
    /\ \A r \in DOMAIN rooms : rooms[r] \subseteq Clients
    /\ filters \in [Clients -> SUBSET FilterTypes]
    /\ \A c \in Clients : Len(buffers[c]) <= BufferSize
    /\ \A j \in Joiners : joiner[j].at \in {"idle", "ns", "namespace", "room"}
    /\ \A b \in Broadcasters :
         broadcaster[b].at \in {"idle", "ns", "namespace", "room", "copying",
                                "sending", "full", "blocked"}
    /\ watcher \in [Watchers -> {"idle", "namespace"}]

\* NewEnhancedNotifierService, createDefaultNamespaces.
NotifierInit ==
    /\ rooms = <<>>
    /\ filters = [c \in Clients |-> {}]
    /\ buffers = [c \in Clients |-> <<>>]
    /\ joiner = [j \in Joiners |-> Idle]
    /\ broadcaster = [b \in Broadcasters |-> [at |-> "idle", sent |-> 0]]
    /\ watcher = [w \in Watchers |-> "idle"]

----------------------------------------------------------------------------
(* Locks.  A writer that waits keeps new readers out (sync.RWMutex).        *)

JoinersAt(places) == {j \in Joiners : joiner[j].at \in places}

\* ns.mu: JoinNamespaceRoom holds it to its end, watchers read under it.
CanReadNs   == JoinersAt({"ns", "namespace", "room"}) = {}
CanWriteNs  == /\ JoinersAt({"namespace", "room"}) = {}
               /\ \A w \in Watchers : watcher[w] = "idle"

\* nsObj.mu: readers give it back within a step.
CanReadNamespace == JoinersAt({"namespace", "room"}) = {}

\* Mutant: a broadcast holds the lock until the message is sent.
HoldsRoomSending(b) == broadcaster[b].at \in {"copying", "sending", "full", "blocked"}

\* room.mu: a broadcast holds it while it copies the list of the clients.
HoldsRoom(b) == broadcaster[b].at = "copying"
CanReadRoom(r)  == \A j \in JoinersAt({"room"}) : joiner[j].room # r
CanWriteRoom(r) == \A b \in Broadcasters : HoldsRoom(b) => broadcaster[b].room # r

----------------------------------------------------------------------------
(* JoinNamespaceRoom. *)

\* The call, for a client, a room and the types of a filter.
Join(j, c, r, types) ==
    /\ joiner[j] = Idle
    /\ joiner' = [joiner EXCEPT ![j] = [at |-> "ns", client |-> c, room |-> r,
                                        types |-> types]]
    /\ UNCHANGED <<rooms, filters, buffers, broadcaster, watcher>>

LockNs(j) ==
    /\ joiner[j].at = "ns"
    /\ CanWriteNs
    /\ joiner' = [joiner EXCEPT ![j].at = "namespace"]
    /\ UNCHANGED <<rooms, filters, buffers, broadcaster, watcher>>

\* The namespace refuses everybody when it has as many clients as it may, and
\* otherwise clients it does not know, and rooms over its limit.
Refused(j) ==
    \/ Cardinality(Clients) >= MaxClientsTotal
    \/ joiner[j].client \notin Clients
    \/ /\ joiner[j].room \notin DOMAIN rooms
       /\ Cardinality(DOMAIN rooms) >= MaxRooms

\* createEnhancedRoom: nobody is in it; its limits are the constants.
CreateEnhancedRoom == {}

LockNamespace(j) ==
    /\ joiner[j].at = "namespace"
    /\ IF Refused(j)
       THEN joiner' = [joiner EXCEPT ![j] = Idle] /\ UNCHANGED rooms
       ELSE /\ joiner' = [joiner EXCEPT ![j].at = "room"]
            /\ rooms' = [r \in DOMAIN rooms \cup {joiner[j].room} |->
                           IF r \in DOMAIN rooms THEN rooms[r] ELSE CreateEnhancedRoom]
    /\ UNCHANGED <<filters, buffers, broadcaster, watcher>>

\* Under all three locks, which are given back at the end; a room at its
\* limit refuses the client.
Enter(j) ==
    LET c == joiner[j].client
        r == joiner[j].room
    IN  /\ joiner[j].at = "room"
        /\ CanWriteRoom(r)
        /\ IF Cardinality(rooms[r]) >= MaxClients
           THEN UNCHANGED <<rooms, filters>>
           ELSE /\ rooms' = [rooms EXCEPT ![r] = @ \cup {c}]
                /\ filters' = [filters EXCEPT ![c] = @ \cup joiner[j].types]
        /\ joiner' = [joiner EXCEPT ![j] = Idle]
        /\ UNCHANGED <<buffers, broadcaster, watcher>>

JoinStep(j) == LockNs(j) \/ LockNamespace(j) \/ Enter(j)

----------------------------------------------------------------------------
(* BroadcastToNamespaceRoom. *)

\* left are the clients the loop has not come to; client is the one whose
\* full buffer holds it up, if there is one.
Broadcast(b, r, type) ==
    /\ broadcaster[b].at = "idle"
    /\ broadcaster[b].sent < MaxBroadcasts
    /\ broadcaster' = [broadcaster EXCEPT ![b] =
         [at |-> "ns", sent |-> @.sent + 1, room |-> r, type |-> type,
          left |-> {}, client |-> {}]]
    /\ UNCHANGED <<rooms, filters, buffers, joiner, watcher>>

Goes(b, place) == broadcaster' = [broadcaster EXCEPT ![b].at = place]

FindNamespace(b) ==
    /\ broadcaster[b].at = "ns"
    /\ CanReadNs
    /\ Goes(b, "namespace")
    /\ UNCHANGED <<rooms, filters, buffers, joiner, watcher>>

FindRoom(b) ==
    /\ broadcaster[b].at = "namespace"
    /\ CanReadNamespace
    /\ Goes(b, IF broadcaster[b].room \in DOMAIN rooms THEN "room" ELSE "idle")
    /\ UNCHANGED <<rooms, filters, buffers, joiner, watcher>>

LockRoom(b) ==
    /\ broadcaster[b].at = "room"
    /\ CanReadRoom(broadcaster[b].room)
    /\ Goes(b, "copying")
    /\ UNCHANGED <<rooms, filters, buffers, joiner, watcher>>

\* The list of clients is copied and the lock given back.
CopyClients(b) ==
    /\ broadcaster[b].at = "copying"
    /\ broadcaster' = [broadcaster EXCEPT ![b].at = "sending",
                                          ![b].left = rooms[broadcaster[b].room]]
    /\ UNCHANGED <<rooms, filters, buffers, joiner, watcher>>

Message(b) == [sender |-> b, number |-> broadcaster[b].sent,
               type |-> broadcaster[b].type, room |-> broadcaster[b].room]

\* shouldSendToClient: every filter of the client must let the message pass.
ShouldSendToClient(c, b) == \A t \in filters[c] : broadcaster[b].type = t

HasRoom(c) == Len(buffers[c]) < BufferSize

\* Client c is done with.
DoneWith(b, c) ==
    broadcaster' = [broadcaster EXCEPT ![b].at = "sending", ![b].left = @ \ {c},
                                       ![b].client = {}]

\* Mutant: messages to a client with a high priority overtake the others.
PutFirst(b, c) ==
    buffers' = [buffers EXCEPT ![c] =
        IF c \in HighPriority THEN <<Message(b)>> \o @ ELSE Append(@, Message(b))]

Put(b, c) == buffers' = [buffers EXCEPT ![c] = Append(@, Message(b))]

\* The loop over the clients, in any order: the message is put into a buffer
\* with room, withheld by a filter or dropped at a full buffer, unless the
\* client has a high priority.
SendToClient(b) ==
    /\ broadcaster[b].at = "sending"
    /\ \E c \in broadcaster[b].left :
         \/ /\ ShouldSendToClient(c, b) /\ HasRoom(c)
            /\ Put(b, c)
            /\ DoneWith(b, c)
         \/ /\ ~ShouldSendToClient(c, b) \/ (~HasRoom(c) /\ c \notin HighPriority)
            /\ DoneWith(b, c)
            /\ UNCHANGED buffers
         \/ /\ ShouldSendToClient(c, b) /\ ~HasRoom(c) /\ c \in HighPriority
            /\ broadcaster' = [broadcaster EXCEPT ![b].at = "full", ![b].client = {c}]
            /\ UNCHANGED buffers
    /\ UNCHANGED <<rooms, filters, joiner, watcher>>

\* Room for a client with a high priority: one message is taken out of its
\* buffer, and if there is none any more the new one is given up.
MakeRoom(b) ==
    /\ broadcaster[b].at = "full"
    /\ \E c \in broadcaster[b].client :
         \/ /\ buffers[c] # <<>>
            /\ buffers' = [buffers EXCEPT ![c] = Tail(@)]
            /\ Goes(b, "blocked")
         \/ /\ buffers[c] = <<>>
            /\ DoneWith(b, c)
            /\ UNCHANGED buffers
    /\ UNCHANGED <<rooms, filters, joiner, watcher>>

\* The send after it has no default: it waits for room.
BlockingSend(b) ==
    /\ broadcaster[b].at = "blocked"
    /\ \E c \in broadcaster[b].client : HasRoom(c) /\ Put(b, c) /\ DoneWith(b, c)
    /\ UNCHANGED <<rooms, filters, joiner, watcher>>

EndBroadcast(b) ==
    /\ broadcaster[b].at = "sending" /\ broadcaster[b].left = {}
    /\ Goes(b, "idle")
    /\ UNCHANGED <<rooms, filters, buffers, joiner, watcher>>

BroadcastStep(b) ==
    \/ FindNamespace(b) \/ FindRoom(b) \/ LockRoom(b) \/ CopyClients(b)
    \/ SendToClient(b) \/ MakeRoom(b) \/ BlockingSend(b) \/ EndBroadcast(b)

----------------------------------------------------------------------------
(* Statistics, and the client. *)

\* GetNamespaceStats, updateBackpressureMetrics: the lock of the namespace is
\* read under the lock of the service.
Watch(w) ==
    /\ watcher[w] = "idle"
    /\ CanReadNs
    /\ watcher' = [watcher EXCEPT ![w] = "namespace"]
    /\ UNCHANGED <<rooms, filters, buffers, joiner, broadcaster>>

WatchStep(w) ==
    /\ watcher[w] = "namespace"
    /\ CanReadNamespace
    /\ watcher' = [watcher EXCEPT ![w] = "idle"]
    /\ UNCHANGED <<rooms, filters, buffers, joiner, broadcaster>>

\* The connection of a client takes a message from its channel.
Read(c) ==
    /\ buffers[c] # <<>>
    /\ buffers' = [buffers EXCEPT ![c] = Tail(@)]
    /\ UNCHANGED <<rooms, filters, joiner, broadcaster, watcher>>

NotifierNext ==
    \/ \E j \in Joiners :
         \/ \E c \in Clients \cup Strangers, r \in RoomNames :
              \E types \in SUBSET FilterTypes : Join(j, c, r, types)
         \/ JoinStep(j)
    \/ \E b \in Broadcasters :
         \/ \E r \in RoomNames, t \in MessageTypes : Broadcast(b, r, t)
         \/ BroadcastStep(b)
    \/ \E w \in Watchers : Watch(w) \/ WatchStep(w)
    \/ \E c \in Clients : Read(c)

\* Threads run, and a mutex serves who waits for it long enough.  Nothing
\* says that clients read their messages.
NotifierFairness ==
    /\ \A j \in Joiners : SF_notifierVars(JoinStep(j))
    /\ \A b \in Broadcasters : WF_notifierVars(BroadcastStep(b))
    /\ \A w \in Watchers : WF_notifierVars(WatchStep(w))

NotifierSpec == NotifierInit /\ [][NotifierNext]_notifierVars /\ NotifierFairness

----------------------------------------------------------------------------
(* Properties. *)

\* A client only gets messages of rooms it has joined, and those of one
\* sender in the order they were sent, whatever was dropped to make room
\* (BroadcastToNamespaceRoom).
InOrder ==
    \A c \in Clients :
        LET buffer == buffers[c]
        IN  \A i \in 1..Len(buffer) :
              /\ c \in rooms[buffer[i].room]
              /\ \A k \in (i + 1)..Len(buffer) :
                   buffer[k].sender = buffer[i].sender =>
                       buffer[i].number < buffer[k].number

\* A client that joins is let in or refused, even while a broadcast waits for
\* a client that never reads (JoinNamespaceRoom, BroadcastToNamespaceRoom).
JoinsEnd ==
    \A j \in Joiners : (joiner[j] # Idle) ~> (joiner[j] = Idle)
=============================================================================
