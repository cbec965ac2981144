--------------------------- MODULE EventDelivery ---------------------------
(***************************************************************************)
(* The path of one runtime's events from the daemon's hub to the desktop:  *)
(* the hub (EventHub), the connections a remote daemon is reached over,    *)
(* the reader thread of each DaemonClient (waku-client/src/client.rs), the *)
(* supervisor that reconnects (process.rs), and the forwarder thread of    *)
(* the runtime (src/driver/mod.rs, connect_remote).                        *)
(*                                                                         *)
(* The desktop follows the runtime `Followed` of the session `Session`;    *)
(* another client may end it, or start another runtime of the session.     *)
(***************************************************************************)
EXTENDS EventHub

CONSTANTS
  Session, Followed,
  NoConnection,    \* the supervisor has connected to nothing yet
  MaxBuffered,     \* MAX_BUFFERED_EVENTS_PER_RUNTIME
  Exited,          \* the payload of a ProcessExited event
  AttachTimesOut   \* whether AttachSession can exceed REQUEST_TIMEOUT

ASSUME FollowedAssumption == Session \in Sessions /\ Followed \in Runtimes
ASSUME ConnectionsAssumption == Connections \subseteq Nat /\ NoConnection \notin Connections
ASSUME BufferAssumption == MaxBuffered \in Nat \ {0}
ASSUME TimeoutAssumption == AttachTimesOut \in BOOLEAN
ASSUME PayloadAssumption == Exited \in Payloads

VARIABLES
  \* ClientInner of each connection, as far as Followed is concerned:
  reader,          \* run_client: none, reading, disconnected (flag set), drained
  received,        \* frames of outgoing[c][Session] the reader has taken
  lastSequence,    \* last_sequences: the newest event seen, as a cursor
  subscribed,      \* whether `sessions` holds a sender
  channel,         \* the events that sender has put into the receiver
  pendingEvents,   \* pending_events: events that came before subscribe
  \* DaemonSupervisor:
  target,          \* the connection of DaemonTarget::Remote
  monitor,         \* monitor_daemon: watching, installing, publishing
  replacement,     \* the connection monitor_daemon is installing
  clientUpdates,   \* the forwarder's receiver of subscribe_clients
  \* connect_remote:
  forwarder,       \* where the runtime's start and its forwarder thread are
  client,          \* the forwarder's `client`
  source,          \* the connection whose receiver is `remote_events`
  activeClient,    \* active_client, which the handle's commands use
  closed,          \* the handle was dropped
  delivered,       \* the events forwarded to the application
  exit,            \* how the forwarder reported an end: none, event, synthesized
  \* History:
  published,       \* every event of Followed the hub accepted
  lost             \* sequences of events a client took from its socket and dropped

clientVars == <<reader, received, lastSequence, subscribed, channel, pendingEvents>>
supervisorVars == <<target, monitor, replacement>>
handleVars == <<clientUpdates, forwarder, client, source, activeClient, closed, delivered, exit>>
deliveryVars == <<hubVars, clientVars, supervisorVars, handleVars, published, lost>>

NoCursor == [epoch |-> 0, sequence |-> 0]

Running(state) == state \notin {"idle", "starting", "started", "done"}

DeliveryInit ==
  /\ HubInit
  /\ reader = [c \in Connections |-> "none"]
  /\ received = [c \in Connections |-> 0]
  /\ lastSequence = [c \in Connections |-> NoCursor]
  /\ subscribed = [c \in Connections |-> FALSE]
  /\ channel = [c \in Connections |-> << >>]
  /\ pendingEvents = [c \in Connections |-> << >>]
  /\ target = NoConnection /\ monitor = "watching" /\ replacement = NoConnection
  /\ clientUpdates = << >>
  /\ forwarder = "idle"
  /\ client = NoConnection /\ source = NoConnection /\ activeClient = NoConnection
  /\ closed = FALSE
  /\ delivered = << >> /\ exit = "none"
  /\ published = << >> /\ lost = {}

-----------------------------------------------------------------------------
\* The daemon and the network.

\* An event of the followed runtime; ProcessExited is the last one.  Frames of
\* other runtimes are routed by their ids and never meet this forwarder.
Publication(payload) ==
  /\ \A i \in 1..Len(published) : published[i].payload # Exited
  /\ Emit(Session, Followed, payload, TRUE)
  /\ published' = Append(published, [runtime |-> Followed, epoch |-> epoch,
                                    sequence |-> SequenceOfNext(Session, Followed),
                                    payload |-> payload])
  /\ UNCHANGED <<clientVars, supervisorVars, handleVars, lost>>

\* Another client closes the session's runtime, or starts another one.
EndedElsewhere ==
  /\ EndRuntime(Session, activeRuntimes[Session])
  /\ activeRuntimes[Session] # NoRuntime
  /\ UNCHANGED <<clientVars, supervisorVars, handleVars, published, lost>>

StartedElsewhere(r) ==
  /\ r # Followed
  /\ BeginRuntime(Session, r)
  /\ UNCHANGED <<clientVars, supervisorVars, handleVars, published, lost>>

\* The socket breaks: frames already sent can still be read, no more follow.
\* The daemon's unsubscribe is part of it; what the hub puts into the channel
\* until then reaches nobody.
ConnectionLost(c) ==
  /\ Unsubscribe(c)
  /\ UNCHANGED <<clientVars, supervisorVars, handleVars, published, lost>>

DaemonRestart ==
  /\ Restart
  /\ UNCHANGED <<clientVars, supervisorVars, handleVars, published, lost>>

-----------------------------------------------------------------------------
\* run_client, the reader thread of a connection.

IsNews(c, event) ==
  ~ (lastSequence[c].epoch = event.epoch /\ event.sequence <= lastSequence[c].sequence)

\* push_back, then pop_front while over the limit; the dropped events are lost.
Buffer(c, event) ==
  LET buffered == Append(pendingEvents[c], event) IN
  IF Len(buffered) > MaxBuffered
    THEN /\ pendingEvents' = [pendingEvents EXCEPT ![c] = Tail(buffered)]
         /\ lost' = lost \cup {Head(buffered).sequence}
    ELSE /\ pendingEvents' = [pendingEvents EXCEPT ![c] = buffered]
         /\ UNCHANGED lost

ReadFrame(c) ==
  /\ reader[c] = "reading"
  /\ received[c] < Len(outgoing[c][Session])
  /\ received' = [received EXCEPT ![c] = @ + 1]
  /\ LET event == outgoing[c][Session][received[c] + 1] IN
     IF event.runtime = Followed /\ IsNews(c, event)
       THEN /\ lastSequence' = [lastSequence EXCEPT
                 ![c] = [epoch |-> event.epoch, sequence |-> event.sequence]]
            /\ IF subscribed[c]
                 THEN /\ channel' = [channel EXCEPT ![c] = Append(@, event)]
                      /\ UNCHANGED <<pendingEvents, lost>>
                 ELSE Buffer(c, event) /\ UNCHANGED channel
       ELSE UNCHANGED <<lastSequence, channel, pendingEvents, lost>>
  /\ UNCHANGED <<hubVars, reader, subscribed, supervisorVars, handleVars, published>>

\* The read fails and `disconnected` is set ...
ReaderStops(c) ==
  /\ reader[c] = "reading"
  /\ c \notin subscribers
  /\ reader' = [reader EXCEPT ![c] = "disconnected"]
  /\ UNCHANGED <<hubVars, received, lastSequence, subscribed, channel, pendingEvents,
                 supervisorVars, handleVars, published, lost>>

\* ... then, after the waiting requests were failed, every subscription's
\* sender is dropped.
ReaderDrains(c) ==
  /\ reader[c] = "disconnected"
  /\ reader' = [reader EXCEPT ![c] = "drained"]
  /\ subscribed' = [subscribed EXCEPT ![c] = FALSE]
  /\ UNCHANGED <<hubVars, received, lastSequence, channel, pendingEvents,
                 supervisorVars, handleVars, published, lost>>

-----------------------------------------------------------------------------
\* DaemonSupervisor.

\* The cursors a client resumes from.  Those of other runtimes only shorten
\* the replay of frames the followed runtime's forwarder never sees.
CursorsOfClient(c) ==
  [s \in Sessions |-> [r \in Runtimes |->
     IF c \in Connections /\ s = Session /\ r = Followed THEN lastSequence[c] ELSE NoCursor]]

IsNextConnection(c) ==
  c \notin opened /\ \A d \in Connections \ opened : c <= d

\* The part of connect_with_resume both first connection and reconnection do:
\* what the journal no longer holds for the client is lost.
Connect(c, previous) ==
  LET r == activeRuntimes[Session]
      cursor == CursorsOfClient(previous)[Session][Followed]
  IN
  /\ IsNextConnection(c)
  /\ Subscribe(c, CursorsOfClient(previous))
  /\ reader' = [reader EXCEPT ![c] = "reading"]
  /\ lastSequence' = [lastSequence EXCEPT ![c] = cursor]
  /\ lost' = IF r = Followed
               THEN lost \cup (IF cursor.epoch = epoch
                               THEN (cursor.sequence + 1)..EvictedUpTo(Session, r)
                               ELSE 1..EvictedUpTo(Session, r))
               ELSE lost
  /\ UNCHANGED <<received, subscribed, channel, pendingEvents, published>>

\* DaemonSupervisor::connect.
ConnectFirst(c) ==
  /\ target = NoConnection
  /\ Connect(c, NoConnection)
  /\ target' = c
  /\ UNCHANGED <<monitor, replacement, handleVars>>

\* A reconnection that starts without the old client's cursors.
ReconnectWithoutCursors(c) ==
  /\ monitor = "watching" /\ target # NoConnection
  /\ reader[target] \in {"disconnected", "drained"}
  /\ Connect(c, NoConnection)
  /\ replacement' = c /\ monitor' = "installing"
  /\ UNCHANGED <<target, handleVars>>

\* monitor_daemon finds the remote client disconnected and connects again
\* from its cursors, which no longer change; a failed attempt is repeated.
Reconnect(c) ==
  /\ monitor = "watching" /\ target # NoConnection
  /\ reader[target] \in {"disconnected", "drained"}
  /\ Connect(c, target)
  /\ replacement' = c /\ monitor' = "installing"
  /\ UNCHANGED <<target, handleVars>>

InstallTarget ==
  /\ monitor = "installing"
  /\ target' = replacement /\ monitor' = "publishing"
  /\ UNCHANGED <<hubVars, clientVars, replacement, handleVars, published, lost>>

\* Send the replacement to every subscriber of subscribe_clients.
PublishReplacement ==
  /\ monitor = "publishing"
  /\ monitor' = "watching"
  /\ clientUpdates' = IF Running(forwarder) THEN Append(clientUpdates, replacement)
                                            ELSE clientUpdates
  /\ UNCHANGED <<hubVars, clientVars, target, replacement, forwarder, client, source,
                 activeClient, closed, delivered, exit, published, lost>>

-----------------------------------------------------------------------------
\* The runtime's start and its forwarder.

\* start_remote: take the supervisor's client and send it Command::Start,
\* which the daemon carries out.
StartRuntime ==
  /\ forwarder = "idle"
  /\ target \in subscribers /\ reader[target] = "reading"
  /\ BeginRuntime(Session, Followed)
  /\ client' = target /\ activeClient' = target
  /\ forwarder' = "starting"
  /\ UNCHANGED <<clientVars, supervisorVars, clientUpdates, source, closed, delivered, exit,
                 published, lost>>

StartAnswered ==
  /\ forwarder = "starting"
  /\ reader[client] = "reading"
  /\ forwarder' = "started"
  /\ UNCHANGED <<hubVars, clientVars, supervisorVars, clientUpdates, client, source,
                 activeClient, closed, delivered, exit, published, lost>>

\* The connection ended before the answer: there is no handle.
StartFailed ==
  /\ forwarder = "starting"
  /\ reader[client] # "reading"
  /\ forwarder' = "done"
  /\ UNCHANGED <<hubVars, clientVars, supervisorVars, clientUpdates, client, source,
                 activeClient, closed, delivered, exit, published, lost>>

\* subscribe_clients without the current client.
RegisterForLaterUpdates ==
  /\ forwarder = "started"
  /\ clientUpdates' = << >>
  /\ forwarder' = "subscribing"
  /\ UNCHANGED <<hubVars, clientVars, supervisorVars, client, source, activeClient, closed,
                 delivered, exit, published, lost>>

\* connect_remote calls subscribe_clients: the current client comes first.
RegisterForUpdates ==
  /\ forwarder = "started"
  /\ clientUpdates' = <<target>>
  /\ forwarder' = "subscribing"
  /\ UNCHANGED <<hubVars, clientVars, supervisorVars, client, source, activeClient, closed,
                 delivered, exit, published, lost>>

\* DaemonClient::subscribe leaving pending_events for a later subscription.
SubscribeKeepsPending(c) ==
  /\ subscribed' = [subscribed EXCEPT ![c] = TRUE]
  /\ channel' = [channel EXCEPT ![c] = << >>]
  /\ UNCHANGED pendingEvents

\* DaemonClient::subscribe: register a new sender and move what was buffered
\* into it, under the lock of `sessions`.
SubscribeClient(c) ==
  /\ subscribed' = [subscribed EXCEPT ![c] = TRUE]
  /\ channel' = [channel EXCEPT ![c] = pendingEvents[c]]
  /\ pendingEvents' = [pendingEvents EXCEPT ![c] = << >>]

\* The first subscribe, and the one after a successful attachment.
ForwarderSubscribes ==
  /\ forwarder = "subscribing"
  /\ SubscribeClient(client)
  /\ source' = client
  /\ forwarder' = "forwarding"
  /\ UNCHANGED <<hubVars, reader, received, lastSequence, supervisorVars, clientUpdates, client,
                 activeClient, closed, delivered, exit, published, lost>>

\* One event goes to the application; ProcessExited ends the thread.
ForwardEvent ==
  /\ forwarder = "forwarding"
  /\ channel[source] # << >>
  /\ LET event == Head(channel[source]) IN
     /\ delivered' = Append(delivered, event)
     /\ channel' = [channel EXCEPT ![source] = Tail(@)]
     /\ IF event.payload = Exited
          THEN /\ exit' = "event" /\ forwarder' = "done"
               /\ subscribed' = [subscribed EXCEPT ![client] = FALSE]
          ELSE UNCHANGED <<exit, forwarder, subscribed>>
  /\ UNCHANGED <<hubVars, reader, received, lastSequence, pendingEvents, supervisorVars,
                 clientUpdates, client, source, activeClient, closed, published, lost>>

\* `remote_events` has no sender left: stop when the handle is gone, else
\* wait for the supervisor's next connection.
SourceEnded ==
  /\ forwarder = "forwarding"
  /\ channel[source] = << >> /\ ~ subscribed[source]
  /\ subscribed' = [subscribed EXCEPT ![client] = FALSE]
  /\ forwarder' = IF closed THEN "done" ELSE "awaiting"
  /\ UNCHANGED <<hubVars, reader, received, lastSequence, channel, pendingEvents,
                 supervisorVars, clientUpdates, client, source, activeClient, closed,
                 delivered, exit, published, lost>>

\* A published connection other than the forwarder's own is asked to attach;
\* `client` keeps the old one until the answer, so it is in clientUpdates.
TakeUpdate ==
  /\ forwarder = "awaiting"
  /\ clientUpdates # << >>
  /\ IF Head(clientUpdates) = client
       THEN /\ clientUpdates' = Tail(clientUpdates)
            /\ UNCHANGED forwarder
       ELSE /\ forwarder' = "attaching"
            /\ UNCHANGED clientUpdates
  /\ UNCHANGED <<hubVars, clientVars, supervisorVars, client, source, activeClient, closed,
                 delivered, exit, published, lost>>

\* AttachSession answered: the daemon still runs the runtime, or it does not
\* and the forwarder reports the end itself.
AttachAnswered ==
  LET attached == Head(clientUpdates) IN
  /\ forwarder = "attaching"
  /\ attached \in subscribers /\ reader[attached] = "reading"
  /\ clientUpdates' = Tail(clientUpdates)
  /\ IF activeRuntimes[Session] = Followed
       THEN /\ client' = attached /\ activeClient' = attached
            /\ forwarder' = "subscribing"
            /\ UNCHANGED exit
       ELSE /\ exit' = "synthesized" /\ forwarder' = "done"
            /\ UNCHANGED <<client, activeClient>>
  /\ UNCHANGED <<hubVars, clientVars, supervisorVars, source, closed, delivered, published, lost>>

\* The error branch with the forwarder reporting the runtime's end.
AttachFailureReportsExit ==
  LET attached == Head(clientUpdates) IN
  /\ forwarder = "attaching"
  /\ AttachTimesOut \/ reader[attached] # "reading"
  /\ clientUpdates' = Tail(clientUpdates)
  /\ exit' = "synthesized" /\ forwarder' = "done"
  /\ UNCHANGED <<hubVars, clientVars, supervisorVars, client, source, activeClient, closed,
                 delivered, published, lost>>

\* AttachSession failed: the connection ended, or the answer took longer than
\* REQUEST_TIMEOUT.  The loop goes back to the old, ended receiver.
AttachFailed ==
  LET attached == Head(clientUpdates) IN
  /\ forwarder = "attaching"
  /\ AttachTimesOut \/ reader[attached] # "reading"
  /\ clientUpdates' = Tail(clientUpdates)
  /\ client' = attached
  /\ forwarder' = "forwarding"
  /\ UNCHANGED <<hubVars, clientVars, supervisorVars, source, activeClient, closed, delivered,
                 exit, published, lost>>

\* Drop of RemoteDriverControl.
DropHandle ==
  /\ ~ closed
  /\ Running(forwarder) \/ exit # "none"
  /\ closed' = TRUE
  /\ subscribed' = [subscribed EXCEPT ![activeClient] = FALSE]
  /\ UNCHANGED <<hubVars, reader, received, lastSequence, channel, pendingEvents,
                 supervisorVars, clientUpdates, forwarder, client, source, activeClient,
                 delivered, exit, published, lost>>

\* The shutdown message is received where the thread waits.
ForwarderShutsDown ==
  /\ closed
  /\ forwarder \in {"forwarding", "awaiting"}
  /\ forwarder' = "done"
  /\ UNCHANGED <<hubVars, clientVars, supervisorVars, clientUpdates, client, source,
                 activeClient, closed, delivered, exit, published, lost>>

-----------------------------------------------------------------------------
ReaderNext ==
  \E c \in Connections : ReadFrame(c) \/ ReaderStops(c) \/ ReaderDrains(c)

MonitorNext ==
  \/ \E c \in Connections : Reconnect(c)
  \/ InstallTarget \/ PublishReplacement

ForwarderNext ==
  \/ StartAnswered \/ StartFailed \/ RegisterForUpdates
  \/ ForwarderSubscribes \/ ForwardEvent \/ SourceEnded
  \/ TakeUpdate \/ AttachAnswered \/ AttachFailed
  \/ ForwarderShutsDown

EnvironmentNext ==
  \/ \E c \in Connections : ConnectFirst(c) \/ ConnectionLost(c)
  \/ StartRuntime \/ DropHandle
  \/ /\ Len(published) < MaxSequence
     /\ \E payload \in Payloads : Publication(payload)
  \/ \E r \in Runtimes : StartedElsewhere(r)
  \/ EndedElsewhere
  \/ epoch < MaxEpoch /\ DaemonRestart

DeliveryNext == ReaderNext \/ MonitorNext \/ ForwarderNext \/ EnvironmentNext

DeliverySpec == DeliveryInit /\ [][DeliveryNext]_deliveryVars

\* Each thread keeps running: nothing it waits for is a lock held for ever.
Fairness ==
  /\ \A c \in Connections :
       WF_deliveryVars(ReadFrame(c) \/ ReaderStops(c) \/ ReaderDrains(c))
  /\ WF_deliveryVars(MonitorNext)
  /\ WF_deliveryVars(ForwarderNext)

FairDeliverySpec == DeliverySpec /\ Fairness

-----------------------------------------------------------------------------
(***************************************************************************)
(* Properties.                                                             *)
(***************************************************************************)

\* The type of every variable of the client, the supervisor and the handle.
DeliveryTypeOK ==
  /\ reader \in [Connections -> {"none", "reading", "disconnected", "drained"}]
  /\ received \in [Connections -> Nat]
  /\ lastSequence \in [Connections -> Cursor]
  /\ subscribed \in [Connections -> BOOLEAN]
  /\ channel \in [Connections -> Seq(Event)]
  /\ pendingEvents \in [Connections -> Seq(Event)]
  /\ \A c \in Connections : Len(pendingEvents[c]) <= MaxBuffered
  /\ target \in Connections \cup {NoConnection} /\ replacement \in Connections \cup {NoConnection}
  /\ client \in Connections \cup {NoConnection} /\ source \in Connections \cup {NoConnection}
  /\ activeClient \in Connections \cup {NoConnection}
  /\ monitor \in {"watching", "installing", "publishing"}
  /\ clientUpdates \in Seq(Connections)
  /\ forwarder \in {"idle", "starting", "started", "subscribing", "forwarding", "awaiting",
                    "attaching", "done"}
  /\ closed \in BOOLEAN
  /\ delivered \in Seq(Event)
  /\ exit \in {"none", "event", "synthesized"}
  /\ published \in Seq(Event)
  /\ lost \subseteq Nat

SequencesOf(events) == {events[i].sequence : i \in 1..Len(events)}

LastDelivered == IF delivered = << >> THEN 0 ELSE delivered[Len(delivered)].sequence

\* Events in the buffer of a client the forwarder never subscribed to.
Abandoned == UNION {SequencesOf(pendingEvents[c]) : c \in Connections \ {client}}

(***************************************************************************)
(* However often the connection breaks, the application misses an event    *)
(* older than one it got for three reasons only: the journal had dropped   *)
(* it, a client's buffer overflowed, or it sits in the buffer of a         *)
(* connection that broke before the forwarder attached to it (subscribe's  *)
(* drain under the sessions lock, last_sequences as the resume cursors).   *)
(***************************************************************************)
NoSilentGap ==
  \A sequence \in 1..LastDelivered :
    sequence \in SequencesOf(delivered) \cup lost \cup Abandoned

\* What every state of the client satisfies: its types, and no gap (NoSilentGap).
DeliveryInvariant == DeliveryTypeOK /\ NoSilentGap

(***************************************************************************)
(* The desktop sees what EventStream promises: the runtime's events in     *)
(* order, none twice, and an end only from the runtime itself or after it  *)
(* has ended.                                                              *)
(***************************************************************************)
Stream == INSTANCE EventStream WITH
  Kinds <- Payloads,
  alive <- activeRuntimes[Session] = Followed,
  published <- [i \in 1..Len(published) |-> published[i].payload],
  delivered <- [i \in 1..Len(delivered) |-> delivered[i].sequence],
  ended <- exit # "none"

ImplementsStream == Stream!StreamSpec

\* The forwarder is subscribed to the supervisor's live connection.
Attached ==
  /\ forwarder = "forwarding" /\ source = target
  /\ source \in subscribers /\ ~ closed

(***************************************************************************)
(* A forwarder that stays attached ends up with every event published,     *)
(* but those lost or abandoned before.                                     *)
(***************************************************************************)
AttachedCatchesUp ==
  Attached ~> \/ ~ Attached
              \/ \A sequence \in 1..Len(published) :
                   sequence \in SequencesOf(delivered) \cup lost \cup Abandoned

(***************************************************************************)
(* src/driver/mod.rs:191-194 says of a failed AttachSession: "This         *)
(* replacement also disappeared. Its client channel will be followed by    *)
(* another supervisor publication; keep the task live until one can answer *)
(* authoritatively."  So a waiting forwarder stops waiting, unless the     *)
(* supervisor's connection is down: every replacement is published to it,  *)
(* also one installed while it registered (subscribe_clients).             *)
(***************************************************************************)
AwaitingEnds ==
  forwarder = "awaiting" ~> (forwarder # "awaiting" \/ target \notin subscribers)
=============================================================================
