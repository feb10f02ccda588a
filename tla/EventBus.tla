------------------------------ MODULE EventBus ------------------------------
(***************************************************************************)
(* One stream of the controller's event bus (controller/eventbus.go): what *)
(* Publish stores and what the server, which is external, discards of it.  *)
(***************************************************************************)
EXTENDS Naturals, Sequences, FiniteSets

CONSTANTS
    Events,      \* events of the callers, each with its ID and its type
    MaxMessages  \* bound on the messages of the stream

ASSUME MessagesAssumption == MaxMessages \in Nat

VARIABLES
    messages,  \* the stream: what was ever stored in it, by sequence number
    first      \* the first message not yet discarded

stream == <<messages, first>>

SeqNumbers == 1..MaxMessages

StreamTypeOK ==
    /\ messages \in Seq(Events) /\ Len(messages) <= MaxMessages
    /\ first \in 1..(Len(messages) + 1)

\* initializeStreams on a new server.
StreamInit == messages = <<>> /\ first = 1

\* Publish stores the event.  The event ID only goes into headers the server
\* does not read, so an event published again after an error is stored again.
Publish(x) ==
    /\ Len(messages) < MaxMessages
    /\ messages' = Append(messages, x)
    /\ UNCHANGED first

\* The server discards its oldest message to keep to the limits of the stream.
Discard ==
    /\ first <= Len(messages)
    /\ first' = first + 1
    /\ UNCHANGED messages

Stream == Discard \/ \E x \in Events : Publish(x)
============================================================================
