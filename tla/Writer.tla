------------------------------- MODULE Writer -------------------------------
(***************************************************************************)
(* The writer service (controller/writer_service.go), the consumer of a    *)
(* stream that stores its events in MongoDB, with the consumer loop of the *)
(* event bus.  The server, external, delivers a message until it is        *)
(* acknowledged or was delivered MaxDeliver times, and forgets a consumer  *)
(* whose process is gone.                                                  *)
(***************************************************************************)
EXTENDS EventBus

CONSTANTS
    MaxDeliver,  \* ConsumerConfig.MaxDeliver of the writer
    MaxLosses    \* bound on lost acknowledgements and restarts

VARIABLES
    subscribed,    \* is the consumer there?
    start,         \* the first message for it: it wants new ones only
    deliveries,    \* how often it was given each message
    inHand,        \* the message its handler works on; 0 is none
    acked,         \* the messages it acknowledged
    processedIDs,  \* ws.processedIDs
    logs,          \* MongoDB: the messages the writer stored
    losses         \* acknowledgements lost and restarts

consumer   == <<subscribed, start, deliveries>>
writerVars == <<consumer, inHand, acked, processedIDs, logs, losses>>
vars       == <<stream, writerVars>>

\* The bus has its streams and no service is started.
Init ==
    /\ StreamInit
    /\ subscribed = FALSE
    /\ start = 1
    /\ deliveries = [s \in SeqNumbers |-> 0]
    /\ inHand = 0
    /\ acked = {}
    /\ processedIDs = {}
    /\ logs = {}
    /\ losses = 0

Loses == losses < MaxLosses /\ losses' = losses + 1

\* WriterService.Start subscribes with DeliverNewPolicy.
Subscribe ==
    /\ ~subscribed
    /\ subscribed' = TRUE
    /\ start' = Len(messages) + 1
    /\ deliveries' = [s \in SeqNumbers |-> 0]
    /\ UNCHANGED <<stream, inHand, acked, processedIDs, logs, losses>>

\* The callback of consumeMessages gets a message, the first time or again
\* after AckWait; it works on one message at a time.
Deliver(s) ==
    /\ subscribed
    /\ inHand = 0
    /\ s \in start..Len(messages) /\ s >= first
    /\ s \notin acked
    /\ deliveries[s] < MaxDeliver
    /\ inHand' = s
    /\ deliveries' = [deliveries EXCEPT ![s] = @ + 1]
    /\ UNCHANGED <<stream, subscribed, start, acked, processedIDs, logs,
                   losses>>

\* json.Unmarshal of event.Data printed with %v: Go prints a map as
\* "map[key:value]", never as JSON.
Parses(x) == FALSE

\* The handlers of the writer: a duplicate is skipped, data that does not
\* parse is an error, and what is stored is remembered by its ID.  (The IDs
\* are cleared above 10000; with this Parses there is never one.)
HandleEvent(x) ==
    IF x.id \notin processedIDs /\ Parses(x)
    THEN /\ logs' = logs \cup {inHand}
         /\ processedIDs' = processedIDs \cup {x.id}
    ELSE UNCHANGED <<logs, processedIDs>>

\* The handler returns and the deferred Ack runs, whatever it returned; the
\* acknowledgement may be lost.
Handled ==
    /\ inHand # 0
    /\ HandleEvent(messages[inHand])
    /\ \/ acked' = acked \cup {inHand} /\ UNCHANGED losses
       \/ Loses /\ UNCHANGED acked
    /\ inHand' = 0
    /\ UNCHANGED <<stream, consumer>>

\* The controller is restarted.
Restart ==
    /\ Loses
    /\ subscribed' = FALSE
    /\ inHand' = 0
    /\ processedIDs' = {}
    /\ UNCHANGED <<stream, start, deliveries, acked, logs>>

Next ==
    \/ Stream /\ UNCHANGED writerVars
    \/ Subscribe
    \/ \E s \in SeqNumbers : Deliver(s)
    \/ Handled
    \/ Restart

Spec == Init /\ [][Next]_vars

\* What the documentation says of the writer: an event it has acknowledged is
\* in MongoDB, at least under its ID (docs/EVENT_BUS_IMPLEMENTATION.md: it
\* "persists them to MongoDB with idempotency").  The code behind it is
\* consumeMessages and the handlers of WriterService.
AckedIsStored ==
    \A s \in acked : \E t \in logs : messages[t].id = messages[s].id
============================================================================
