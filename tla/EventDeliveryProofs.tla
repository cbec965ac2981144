------------------------ MODULE EventDeliveryProofs -------------------------
(***************************************************************************)
(* Proofs about EventDelivery, for any number of connections, events,      *)
(* restarts and any sizes of journal and buffer: its types, that nothing   *)
(* but what is lost or abandoned is missing from what the application got, *)
(* and that the whole path implements EventStream.                         *)
(***************************************************************************)
EXTENDS EventDelivery, EventHubProofs, SequenceTheorems

ClientSequence(c) == lastSequence[c].sequence

Frames(c) == outgoing[c][Session]

IsPublished(event) ==
  event.sequence \in 1..Len(published) /\ event = published[event.sequence]

Increasing(events) ==
  \A i, j \in 1..Len(events) : i < j => events[i].sequence < events[j].sequence

-----------------------------------------------------------------------------

(***************************************************************************)
(* The hub and the history: the runtime's events are numbered from 1, of   *)
(* one daemon process, and the journal is their newest part.               *)
(***************************************************************************)
HubFollowsPublished ==
  /\ \A i \in 1..Len(published) : published[i].sequence = i /\ published[i].runtime = Followed
  /\ \A i, j \in 1..Len(published) : published[i].epoch = published[j].epoch
  /\ \A r \in Runtimes \ {Followed} : journal[Session][r] = << >>
  /\ activeRuntimes[Session] = Followed =>
       /\ nextSequences[Session][Followed] = Len(published)
       /\ emitted[Session][Followed] = published
       /\ IsNewestOf(journal[Session][Followed], published)
       /\ \A i \in 1..Len(published) : published[i].epoch = epoch
  /\ forwarder = "idle" =>
       /\ activeRuntimes[Session] # Followed
       /\ published = << >> /\ emitted[Session][Followed] = << >>

\* Connections open one after the other, each when the reader of the one
\* before has stopped, and the supervisor's target is the newest but for the
\* moment a newer one is being installed.
ConnectionsInOrder ==
  /\ subscribers \subseteq opened
  /\ \A c \in Connections \ opened :
       /\ reader[c] = "none" /\ received[c] = 0 /\ Frames(c) = << >>
       /\ ~ subscribed[c] /\ pendingEvents[c] = << >> /\ channel[c] = << >>
  /\ \A c \in opened, d \in Connections : d < c => d \in opened
  /\ \A c, d \in opened : c < d => reader[c] # "reading"
  /\ target = NoConnection => opened = {}
  /\ target # NoConnection => target \in opened
  /\ target # NoConnection /\ monitor # "installing" => \A c \in opened : c <= target
  /\ monitor # "watching" =>
       target # NoConnection /\ replacement \in opened /\ \A c \in opened : c <= replacement

-----------------------------------------------------------------------------

\* Every frame and every cursor is of the runtime's events.
FramesArePublished ==
  /\ \A c \in Connections : received[c] <= Len(Frames(c))
  /\ \A c \in Connections : \A i \in 1..Len(Frames(c)) : IsPublished(Frames(c)[i])
  /\ \A c \in Connections :
       /\ ClientSequence(c) <= Len(published)
       /\ ClientSequence(c) > 0 => lastSequence[c].epoch = published[ClientSequence(c)].epoch

\* A client has seen event n, has an unread frame of it before position `end`,
\* or it is lost.
SeenOrUnread(c, n, end) ==
  \/ n <= ClientSequence(c) \/ n \in lost
  \/ \E j \in (received[c] + 1)..(end - 1) : Frames(c)[j].sequence = n

\* No event is missing before an unread frame, nor behind the last one while
\* the hub still sends the runtime's events to the client.
UnreadWithoutGap ==
  /\ \A c \in Connections : \A i \in (received[c] + 1)..Len(Frames(c)) :
       \A n \in 1..(Frames(c)[i].sequence - 1) : SeenOrUnread(c, n, i)
  /\ \A c \in subscribers : activeRuntimes[Session] = Followed =>
       \A n \in 1..Len(published) : SeenOrUnread(c, n, Len(Frames(c)) + 1)

-----------------------------------------------------------------------------

\* What a client holds back or has handed over is published, seen and in
\* order; a subscribed one holds nothing back.
HeldBy(c) ==
  /\ Increasing(pendingEvents[c]) /\ Increasing(channel[c])
  /\ \A i \in 1..Len(pendingEvents[c]) :
       IsPublished(pendingEvents[c][i]) /\ pendingEvents[c][i].sequence <= ClientSequence(c)
  /\ \A i \in 1..Len(channel[c]) :
       IsPublished(channel[c][i]) /\ channel[c][i].sequence <= ClientSequence(c)
  /\ \A i \in 1..Len(channel[c]), j \in 1..Len(pendingEvents[c]) :
       channel[c][i].sequence < pendingEvents[c][j].sequence
  /\ subscribed[c] => pendingEvents[c] = << >>

\* A later connection has seen at least as much as an earlier one, and holds
\* back only what that one had not seen.
LaterIsNewer ==
  \A c, d \in opened : c < d =>
    /\ ClientSequence(c) <= ClientSequence(d)
    /\ \A i \in 1..Len(pendingEvents[d]) : ClientSequence(c) < pendingEvents[d][i].sequence

HeldInOrder == (\A c \in Connections : HeldBy(c)) /\ LaterIsNewer

\* The forwarder holds one receiver, that of `source`, and moves on only when
\* it is empty and has no sender.
OneReceiver ==
  /\ \A c \in Connections : c # source => channel[c] = << >> /\ ~ subscribed[c]
  /\ source # NoConnection => source \in opened /\ client \in opened /\ source <= client
  /\ forwarder \in {"forwarding", "awaiting", "attaching"} => source # NoConnection
  /\ source # NoConnection /\ (client # source \/ forwarder \in {"subscribing", "awaiting", "attaching"}) =>
       channel[source] = << >> /\ ~ subscribed[source]

\* The updates waiting are ever newer connections, none past the target.
UpdatesInOrder ==
  /\ \A i \in 1..Len(clientUpdates) :
       clientUpdates[i] \in opened /\ client <= clientUpdates[i] /\ clientUpdates[i] <= target
  /\ \A i, j \in 1..Len(clientUpdates) : i < j => clientUpdates[i] <= clientUpdates[j]
  /\ forwarder = "attaching" => clientUpdates # << >>

\* What the forwarder holds in each phase.
ForwarderPhases ==
  /\ client # NoConnection => client \in opened
  /\ forwarder = "idle" => client = NoConnection
  /\ forwarder \in {"idle", "starting", "started"} =>
       source = NoConnection /\ clientUpdates = << >>
  /\ forwarder # "idle" => client # NoConnection /\ client <= target
  /\ forwarder # "done" => exit = "none"

ForwarderMovesOn == OneReceiver /\ UpdatesInOrder /\ ForwarderPhases

\* The application got the runtime's events in order; what the forwarder's
\* connection still holds comes after them.
DeliveredInOrder ==
  /\ Increasing(delivered)
  /\ \A i \in 1..Len(delivered) : IsPublished(delivered[i])
  /\ source = NoConnection => delivered = << >>
  /\ source # NoConnection =>
       /\ LastDelivered <= ClientSequence(source)
       /\ \A i \in 1..Len(channel[source]) : LastDelivered < channel[source][i].sequence
       /\ \A i \in 1..Len(pendingEvents[source]) :
            LastDelivered < pendingEvents[source][i].sequence

\* What a client has seen is delivered, lost, or still held by some client.
SeenIsAccounted ==
  \A c \in opened : \A n \in 1..ClientSequence(c) :
    \/ n \in SequencesOf(delivered) \cup lost
    \/ \E d \in opened : n \in SequencesOf(pendingEvents[d]) \cup SequencesOf(channel[d])

DeliveryIInv ==
  /\ HubTypeOK /\ DeliveryTypeOK
  /\ HubFollowsPublished /\ ConnectionsInOrder
  /\ FramesArePublished /\ UnreadWithoutGap
  /\ HeldInOrder /\ ForwarderMovesOn /\ DeliveredInOrder
  /\ SeenIsAccounted

-----------------------------------------------------------------------------
(* The steps, by what they leave alone. *)

\* Steps of the hub that do not concern the client.
DaemonNext ==
  \/ \E c \in Connections : ConnectionLost(c)
  \/ \E payload \in Payloads : Publication(payload)
  \/ \E r \in Runtimes : StartedElsewhere(r)
  \/ EndedElsewhere \/ DaemonRestart

\* Steps of the reader, supervisor, forwarder and application threads.
ThreadNext ==
  ReaderNext \/ InstallTarget \/ PublishReplacement \/ ForwarderNext \/ DropHandle

\* A connection is opened, for the first time or in place of a broken one.
ConnectionNext(c) == ConnectFirst(c) \/ Reconnect(c)

LEMMA NextByParts ==
  ASSUME [DeliveryNext]_deliveryVars
  PROVE  \/ DaemonNext \/ ThreadNext \/ StartRuntime
         \/ \E c \in Connections : ConnectionNext(c)
         \/ UNCHANGED deliveryVars
BY DEF DeliveryNext, MonitorNext, EnvironmentNext, DaemonNext, ThreadNext, ConnectionNext

LEMMA DaemonFrame ==
  ASSUME DaemonNext
  PROVE  UNCHANGED <<clientVars, supervisorVars, handleVars, lost, opened>>
BY DEF DaemonNext, ConnectionLost, Publication, StartedElsewhere, EndedElsewhere, DaemonRestart,
       Unsubscribe, Emit, Publish, BeginRuntime, EndRuntime, Restart

LEMMA ThreadFrame ==
  ASSUME ThreadNext
  PROVE  /\ UNCHANGED <<hubVars, published>>
         /\ forwarder' = "idle" => forwarder = "idle"
<1>1. CASE ReaderNext
  BY <1>1 DEF ReaderNext, ReadFrame, ReaderStops, ReaderDrains, handleVars
<1>2. CASE InstallTarget \/ PublishReplacement \/ DropHandle
  BY <1>2 DEF InstallTarget, PublishReplacement, DropHandle, handleVars
<1>3. CASE ForwarderNext
  BY <1>3
  DEF ForwarderNext, StartAnswered, StartFailed, RegisterForUpdates, ForwarderSubscribes,
      ForwardEvent, SourceEnded, TakeUpdate, AttachAnswered, AttachFailed, ForwarderShutsDown
<1> QED  BY <1>1, <1>2, <1>3 DEF ThreadNext

\* What is published or lost stays so.
LEMMA HistoryGrows ==
  ASSUME published \in Seq(Event), [DeliveryNext]_deliveryVars
  PROVE  /\ Len(published) \in Nat /\ Len(published') \in Nat
         /\ Len(published) <= Len(published')
         /\ \A i \in 1..Len(published) : published'[i] = published[i]
         /\ lost \subseteq lost'
<1>1. Len(published) \in Nat
  OBVIOUS
<1>2. CASE UNCHANGED published
  <2>1. CASE ThreadNext
    <3>1. lost \subseteq lost'
      BY <2>1
      DEF ThreadNext, ReaderNext, ReadFrame, Buffer, ReaderStops, ReaderDrains, InstallTarget,
          PublishReplacement, DropHandle, ForwarderNext, StartAnswered, StartFailed,
          RegisterForUpdates, ForwarderSubscribes, ForwardEvent, SourceEnded, TakeUpdate,
          AttachAnswered, AttachFailed, ForwarderShutsDown
    <3> QED  BY <1>1, <1>2, <3>1
  <2>2. CASE ~ ThreadNext
    <3>1. lost \subseteq lost'
      BY <2>2, NextByParts, DaemonFrame
      DEF ConnectionNext, ConnectFirst, Reconnect, Connect, StartRuntime, deliveryVars
    <3> QED  BY <1>1, <1>2, <3>1
  <2> QED  BY <2>1, <2>2
<1>3. ASSUME NEW payload \in Payloads, Publication(payload)
      PROVE  /\ Len(published') \in Nat /\ Len(published) <= Len(published')
             /\ \A i \in 1..Len(published) : published'[i] = published[i]
             /\ lost \subseteq lost'
  BY <1>1, <1>3 DEF Publication
<1>4. (\E payload \in Payloads : Publication(payload)) \/ UNCHANGED published
  BY NextByParts, ThreadFrame
  DEF DaemonNext, ConnectionLost, StartedElsewhere, EndedElsewhere, DaemonRestart,
      ConnectionNext, ConnectFirst, Reconnect, Connect, StartRuntime, deliveryVars
<1> QED  BY <1>1, <1>2, <1>3, <1>4

\* A published event stays published.
LEMMA PublishedStays ==
  ASSUME published \in Seq(Event), [DeliveryNext]_deliveryVars, NEW event, IsPublished(event)
  PROVE  IsPublished(event)'
BY HistoryGrows DEF IsPublished

-----------------------------------------------------------------------------
(* Types. *)

LEMMA CursorsOfClientType ==
  ASSUME DeliveryTypeOK, NEW c
  PROVE  \A s \in Sessions, r \in Runtimes : CursorsOfClient(c)[s][r] \in Cursor
BY DEF CursorsOfClient, NoCursor, Cursor, DeliveryTypeOK

LEMMA HubTypeKept ==
  ASSUME HubTypeOK, DeliveryTypeOK, [DeliveryNext]_deliveryVars
  PROVE  HubTypeOK'
<1>1. CASE UNCHANGED hubVars
  BY <1>1 DEF hubVars, HubTypeOK
<1>2. CASE DaemonNext
  <2>1. ASSUME NEW c \in Connections, Unsubscribe(c)  PROVE HubTypeOK'
    BY <2>1 DEF HubTypeOK, Unsubscribe
  <2>2. ASSUME NEW payload \in Payloads, Emit(Session, Followed, payload, TRUE)  PROVE HubTypeOK'
    BY <2>2, PublishType, FollowedAssumption DEF Emit
  <2>3. ASSUME NEW r \in Runtimes, BeginRuntime(Session, r)  PROVE HubTypeOK'
    BY <2>3, FollowedAssumption DEF HubTypeOK, BeginRuntime, ForgetSession
  <2>4. ASSUME EndRuntime(Session, activeRuntimes[Session])  PROVE HubTypeOK'
    BY <2>4, FollowedAssumption DEF HubTypeOK, EndRuntime, ForgetSession
  <2>5. ASSUME Restart  PROVE HubTypeOK'
    BY <2>5 DEF HubTypeOK, Restart
  <2> QED
    BY <1>2, <2>1, <2>2, <2>3, <2>4, <2>5
    DEF DaemonNext, ConnectionLost, Publication, StartedElsewhere, EndedElsewhere, DaemonRestart
<1>3. CASE StartRuntime
  BY <1>3, FollowedAssumption DEF StartRuntime, HubTypeOK, BeginRuntime, ForgetSession
<1>4. ASSUME NEW c \in Connections, ConnectionNext(c)  PROVE HubTypeOK'
  <2>1. PICK previous : Subscribe(c, CursorsOfClient(previous))
    BY <1>4 DEF ConnectionNext, ConnectFirst, Reconnect, Connect
  <2> DEFINE cursors == CursorsOfClient(previous)
  <2>2. \A s \in Sessions, r \in Runtimes : cursors[s][r] \in Cursor
    BY CursorsOfClientType
  <2> HIDE DEF cursors
  <2>3. Subscribe(c, cursors) => HubTypeOK'
    BY <2>2, SubscribeType
  <2> QED  BY <2>1, <2>3 DEF cursors
<1> QED  BY <1>1, <1>2, <1>3, <1>4, NextByParts, ThreadFrame DEF deliveryVars

\* Buffering keeps the buffer within its limit and its events.
LEMMA BufferType ==
  ASSUME DeliveryTypeOK, NEW c \in Connections, NEW event \in Event, Buffer(c, event)
  PROVE  /\ pendingEvents' \in [Connections -> Seq(Event)]
         /\ \A d \in Connections : Len(pendingEvents'[d]) <= MaxBuffered
         /\ lost' \subseteq Nat
<1> DEFINE buffered == Append(pendingEvents[c], event)
<1>1. /\ pendingEvents[c] \in Seq(Event) /\ Len(pendingEvents[c]) <= MaxBuffered
      /\ pendingEvents \in [Connections -> Seq(Event)] /\ lost \subseteq Nat
      /\ \A d \in Connections : Len(pendingEvents[d]) <= MaxBuffered
  BY DEF DeliveryTypeOK
<1>2. /\ buffered \in Seq(Event) /\ buffered # << >> /\ Len(pendingEvents[c]) \in Nat
      /\ Len(buffered) = Len(pendingEvents[c]) + 1
  BY <1>1, AppendProperties, LenProperties
<1>3. IF Len(buffered) > MaxBuffered
        THEN /\ pendingEvents' = [pendingEvents EXCEPT ![c] = Tail(buffered)]
             /\ lost' = lost \cup {Head(buffered).sequence}
        ELSE /\ pendingEvents' = [pendingEvents EXCEPT ![c] = buffered]
             /\ UNCHANGED lost
  BY DEF Buffer
<1> HIDE DEF buffered
<1>4. /\ Head(buffered) \in Event /\ Tail(buffered) \in Seq(Event)
      /\ Len(Tail(buffered)) = Len(pendingEvents[c])
  BY <1>2, HeadTailProperties
<1>5. Head(buffered).sequence \in Nat
  BY <1>4 DEF Event
<1>6. PICK kept \in Seq(Event) : /\ pendingEvents' = [pendingEvents EXCEPT ![c] = kept]
                                /\ Len(kept) <= MaxBuffered
  <2>1. CASE Len(buffered) > MaxBuffered
    BY <1>1, <1>2, <1>3, <1>4, <2>1
  <2>2. CASE ~ (Len(buffered) > MaxBuffered)
    BY <1>1, <1>2, <1>3, <2>2, BufferAssumption
  <2> QED  BY <2>1, <2>2
<1>7. pendingEvents' \in [Connections -> Seq(Event)]
  BY <1>1, <1>6
<1>8. \A d \in Connections : pendingEvents'[d] = IF d = c THEN kept ELSE pendingEvents[d]
  BY <1>1, <1>6
<1>9. \A d \in Connections : Len(pendingEvents'[d]) <= MaxBuffered
  BY <1>1, <1>6, <1>8
<1>10. lost' \subseteq Nat
  BY <1>1, <1>3, <1>5
<1> QED  BY <1>7, <1>9, <1>10

LEMMA ThreadTypeStep ==
  ASSUME HubTypeOK, DeliveryTypeOK, ConnectionsInOrder, ForwarderMovesOn, ThreadNext
  PROVE  DeliveryTypeOK'
<1> USE DEF DeliveryTypeOK, handleVars, clientVars, supervisorVars, hubVars
<1>0. opened \subseteq Connections /\ << >> \in Seq(Event) /\ << >> \in Seq(Connections)
  BY DEF HubTypeOK
<1>1. ASSUME NEW c \in Connections, ReadFrame(c)  PROVE DeliveryTypeOK'
  <2> DEFINE event == outgoing[c][Session][received[c] + 1]
  <2>1. event \in Event
    BY <1>1, FollowedAssumption, ElementOfSeq DEF ReadFrame, HubTypeOK
  <2>2. received' \in [Connections -> Nat]
    <3>1. received' = [received EXCEPT ![c] = received[c] + 1]
      BY <1>1 DEF ReadFrame
    <3>2. received \in [Connections -> Nat]
      OBVIOUS
    <3> HIDE DEF DeliveryTypeOK
    <3>3. received[c] + 1 \in Nat
      BY <3>2
    <3> QED  BY <3>1, <3>2, <3>3
  <2>3. [epoch |-> event.epoch, sequence |-> event.sequence] \in Cursor
    BY <2>1 DEF Event, Cursor
  <2>4. /\ UNCHANGED <<reader, subscribed, target, replacement, client, source, activeClient,
                       monitor, clientUpdates, forwarder, closed, delivered, exit, published>>
    BY <1>1 DEF ReadFrame
  <2>5. CASE ~ (event.runtime = Followed /\ IsNews(c, event))
    BY <1>1, <2>2, <2>4, <2>5 DEF ReadFrame
  <2>6. CASE event.runtime = Followed /\ IsNews(c, event)
    <3>1. lastSequence' = [lastSequence EXCEPT
                            ![c] = [epoch |-> event.epoch, sequence |-> event.sequence]]
      BY <1>1, <2>6 DEF ReadFrame
    <3>2. lastSequence' \in [Connections -> Cursor]
      BY <2>3, <3>1
    <3>3. CASE subscribed[c]
      <4>1. /\ channel' = [channel EXCEPT ![c] = Append(@, event)]
            /\ UNCHANGED <<pendingEvents, lost>>
        BY <1>1, <2>6, <3>3 DEF ReadFrame
      <4>2. channel' \in [Connections -> Seq(Event)]
        BY <2>1, <4>1, AppendProperties
      <4> QED  BY <2>2, <2>4, <3>2, <4>1, <4>2, ZenonT(40)
    <3>4. CASE ~ subscribed[c]
      <4>1. Buffer(c, event) /\ UNCHANGED channel
        BY <1>1, <2>6, <3>4 DEF ReadFrame
      <4> HIDE DEF event
      <4>2. /\ pendingEvents' \in [Connections -> Seq(Event)]
            /\ \A d \in Connections : Len(pendingEvents'[d]) <= MaxBuffered
            /\ lost' \subseteq Nat
        BY <2>1, <4>1, BufferType
      <4> QED  BY <2>2, <2>4, <3>2, <4>1, <4>2, ZenonT(40)
    <3> QED  BY <3>3, <3>4
  <2> QED  BY <2>5, <2>6
<1>2. ASSUME NEW c \in Connections, ReaderStops(c)  PROVE DeliveryTypeOK'
  BY <1>2, ZenonT(40) DEF ReaderStops
<1>3. ASSUME NEW c \in Connections, ReaderDrains(c)  PROVE DeliveryTypeOK'
  BY <1>3, ZenonT(40) DEF ReaderDrains
<1>4. CASE InstallTarget
  BY <1>4 DEF InstallTarget
<1>5. CASE PublishReplacement
  <2>1. replacement \in Connections
    BY <1>0, <1>5 DEF PublishReplacement, ConnectionsInOrder
  <2>2. clientUpdates' \in Seq(Connections)
    BY <1>5, <2>1, AppendProperties DEF PublishReplacement
  <2> QED  BY <1>5, <2>2 DEF PublishReplacement
<1>6. CASE StartAnswered \/ StartFailed
  BY <1>6 DEF StartAnswered, StartFailed
<1>7. CASE RegisterForUpdates
  <2>1. client \in opened
    BY <1>7 DEF RegisterForUpdates, ForwarderMovesOn, OneReceiver, UpdatesInOrder, ForwarderPhases
  <2>2. target \in opened
    BY <2>1 DEF ConnectionsInOrder
  <2>3. <<target>> \in Seq(Connections)
    BY <1>0, <2>2
  <2> QED  BY <1>7, <2>3 DEF RegisterForUpdates
<1>8. CASE ForwarderSubscribes
  <2>1. /\ subscribed' = [subscribed EXCEPT ![client] = TRUE]
        /\ channel' = [channel EXCEPT ![client] = pendingEvents[client]]
        /\ pendingEvents' = [pendingEvents EXCEPT ![client] = << >>]
        /\ source' = client /\ forwarder' = "forwarding"
        /\ UNCHANGED <<reader, received, lastSequence, target, monitor, replacement,
                       clientUpdates, client, activeClient, closed, delivered, exit,
                       published, lost>>
    BY <1>8 DEF ForwarderSubscribes, SubscribeClient
  <2>2. client \in Connections
    BY <1>0, <1>8 DEF ForwarderSubscribes, ForwarderMovesOn, OneReceiver, UpdatesInOrder, ForwarderPhases
  <2>3. /\ channel \in [Connections -> Seq(Event)]
        /\ pendingEvents \in [Connections -> Seq(Event)]
        /\ \A d \in Connections : Len(pendingEvents[d]) <= MaxBuffered
        /\ subscribed \in [Connections -> BOOLEAN]
    OBVIOUS
  <2>4. /\ channel' \in [Connections -> Seq(Event)]
        /\ pendingEvents' \in [Connections -> Seq(Event)]
        /\ \A d \in Connections : Len(pendingEvents'[d]) <= MaxBuffered
        /\ subscribed' \in [Connections -> BOOLEAN]
    <3> HIDE DEF DeliveryTypeOK
    <3>1. pendingEvents[client] \in Seq(Event)
      BY <2>2, <2>3
    <3>2. \A d \in Connections :
            pendingEvents'[d] = IF d = client THEN << >> ELSE pendingEvents[d]
      BY <2>1, <2>3
    <3>3. Len(<< >>) <= MaxBuffered
      BY BufferAssumption
    <3>4. \A d \in Connections : Len(pendingEvents'[d]) <= MaxBuffered
      BY <2>3, <3>2, <3>3
    <3>5. pendingEvents' \in [Connections -> Seq(Event)]
      BY <1>0, <2>1, <2>3
    <3>6. channel' \in [Connections -> Seq(Event)]
      BY <2>1, <2>3, <3>1
    <3> QED  BY <2>1, <2>3, <3>4, <3>5, <3>6
  <2> QED  BY <2>1, <2>2, <2>4
<1>9. CASE ForwardEvent
  <2>1. source \in Connections
    BY <1>0, <1>9 DEF ForwardEvent, ForwarderMovesOn, OneReceiver, UpdatesInOrder, ForwarderPhases
  <2>2. /\ channel[source] \in Seq(Event) /\ channel[source] # << >>
        /\ delivered \in Seq(Event)
    BY <1>9, <2>1 DEF ForwardEvent
  <2>3. Head(channel[source]) \in Event /\ Tail(channel[source]) \in Seq(Event)
    BY <2>2, HeadTailProperties
  <2>4. Append(delivered, Head(channel[source])) \in Seq(Event)
    BY <2>2, <2>3, AppendProperties
  <2>5. delivered' \in Seq(Event) /\ channel' \in [Connections -> Seq(Event)]
    BY <1>9, <2>1, <2>3, <2>4 DEF ForwardEvent
  <2>6. /\ exit' \in {"none", "event", "synthesized"}
        /\ forwarder' \in {forwarder, "done"}
        /\ subscribed' \in [Connections -> BOOLEAN]
    BY <1>9 DEF ForwardEvent
  <2> QED  BY <1>9, <2>5, <2>6 DEF ForwardEvent
<1>10. CASE SourceEnded
  BY <1>10 DEF SourceEnded
<1>11. ASSUME clientUpdates # << >>
       PROVE  Head(clientUpdates) \in Connections /\ Tail(clientUpdates) \in Seq(Connections)
  BY <1>11, HeadTailProperties
<1>12. CASE TakeUpdate
  BY <1>11, <1>12 DEF TakeUpdate
<1>13. CASE AttachAnswered
  BY <1>11, <1>13 DEF AttachAnswered, ForwarderMovesOn, OneReceiver, UpdatesInOrder, ForwarderPhases
<1>14. CASE AttachFailed
  BY <1>11, <1>14 DEF AttachFailed, ForwarderMovesOn, OneReceiver, UpdatesInOrder, ForwarderPhases
<1>15. CASE ForwarderShutsDown
  BY <1>15 DEF ForwarderShutsDown
<1>16. CASE DropHandle
  BY <1>16, ZenonT(40) DEF DropHandle
<1> QED
  BY <1>1, <1>2, <1>3, <1>4, <1>5, <1>6, <1>7, <1>8, <1>9, <1>10, <1>12, <1>13, <1>14, <1>15, <1>16
  DEF ThreadNext, ReaderNext, ForwarderNext

LEMMA DeliveryTypeKept ==
  ASSUME HubTypeOK, DeliveryTypeOK, ConnectionsInOrder, ForwarderMovesOn,
         [DeliveryNext]_deliveryVars
  PROVE  DeliveryTypeOK'
<1>1. CASE UNCHANGED <<clientVars, supervisorVars, handleVars, published, lost>>
  BY <1>1, SMTT(30) DEF clientVars, supervisorVars, handleVars, DeliveryTypeOK
<1>2. ASSUME NEW payload \in Payloads, Publication(payload)  PROVE DeliveryTypeOK'
  <2>1. SequenceOfNext(Session, Followed) \in Nat \ {0}
    BY FollowedAssumption DEF SequenceOfNext, HubTypeOK
  <2>2. [runtime |-> Followed, epoch |-> epoch, sequence |-> SequenceOfNext(Session, Followed),
         payload |-> payload] \in Event
    BY <2>1, FollowedAssumption DEF Event, HubTypeOK
  <2>3. published' \in Seq(Event)
    BY <1>2, <2>2, AppendProperties DEF Publication, DeliveryTypeOK
  <2> QED
    BY <1>2, <2>3, SMTT(30) DEF Publication, DeliveryTypeOK, clientVars, supervisorVars, handleVars
<1>3. CASE DaemonNext
  BY <1>1, <1>2, <1>3, DaemonFrame
  DEF DaemonNext, ConnectionLost, StartedElsewhere, EndedElsewhere, DaemonRestart
<1>4. CASE StartRuntime
  BY <1>4 DEF StartRuntime, DeliveryTypeOK, clientVars, supervisorVars
<1>5. ASSUME NEW c \in Connections, ConnectionNext(c)  PROVE DeliveryTypeOK'
  <2>1. PICK previous \in Connections \cup {NoConnection} : Connect(c, previous)
    BY <1>5 DEF ConnectionNext, ConnectFirst, Reconnect, DeliveryTypeOK
  <2>2. CursorsOfClient(previous)[Session][Followed] \in Cursor
    BY CursorsOfClientType, FollowedAssumption
  <2>3. lastSequence' \in [Connections -> Cursor] /\ reader' \in [Connections ->
           {"none", "reading", "disconnected", "drained"}]
    BY <2>1, <2>2 DEF Connect, DeliveryTypeOK
  <2>4. lost' \subseteq Nat
    <3>1. EvictedUpTo(Session, activeRuntimes[Session]) \in Nat \/
            activeRuntimes[Session] # Followed
      BY NotOwedType, <2>2, FollowedAssumption
    <3>2. CursorsOfClient(previous)[Session][Followed].sequence \in Nat
      BY <2>2 DEF Cursor
    <3>3. CASE activeRuntimes[Session] = Followed
      <4>1. PICK n \in Nat : lost' \subseteq lost \cup 1..n \cup
                 (CursorsOfClient(previous)[Session][Followed].sequence + 1)..n
        BY <2>1, <3>1, <3>3 DEF Connect
      <4>2. lost \subseteq Nat
        BY DEF DeliveryTypeOK
      <4> QED  BY <3>2, <4>1, <4>2
    <3>4. CASE activeRuntimes[Session] # Followed
      BY <2>1, <3>4 DEF Connect, DeliveryTypeOK
    <3> QED  BY <3>3, <3>4
  <2>5. UNCHANGED <<received, subscribed, channel, pendingEvents, published>>
    BY <2>1 DEF Connect
  <2>6. /\ target' \in Connections \cup {NoConnection}
        /\ replacement' \in Connections \cup {NoConnection}
        /\ monitor' \in {"watching", "installing", "publishing"} /\ UNCHANGED handleVars
    BY <1>5 DEF ConnectionNext, ConnectFirst, Reconnect, DeliveryTypeOK
  <2> QED  BY <2>3, <2>4, <2>5, <2>6 DEF DeliveryTypeOK, handleVars
<1>6. CASE UNCHANGED deliveryVars
  BY <1>1, <1>6 DEF deliveryVars
<1> QED  BY <1>3, <1>4, <1>5, <1>6, NextByParts, ThreadTypeStep
-----------------------------------------------------------------------------
(* The hub follows the history. *)

LEMMA PublicationAppends ==
  ASSUME HubTypeOK, DeliveryTypeOK, HubFollowsPublished,
         NEW payload \in Payloads, Publication(payload)
  PROVE  \E event \in Event :
           /\ event.runtime = Followed /\ event.epoch = epoch /\ event.payload = payload
           /\ event.sequence = Len(published) + 1
           /\ published' = Append(published, event)
           /\ published' \in Seq(Event)
           /\ Len(published') = Len(published) + 1
           /\ published'[Len(published) + 1] = event
           /\ \A i \in 1..Len(published) : published'[i] = published[i]
           /\ activeRuntimes[Session] = Followed
           /\ nextSequences' = [nextSequences EXCEPT ![Session][Followed] = @ + 1]
           /\ journal' = [journal EXCEPT ![Session][Followed] = Retain(Append(@, event))]
           /\ emitted' = [emitted EXCEPT ![Session][Followed] = Append(@, event)]
           /\ outgoing' = [c \in Connections |->
                             IF c \in subscribers
                               THEN [outgoing[c] EXCEPT ![Session] = Append(@, event)]
                               ELSE outgoing[c]]
           /\ UNCHANGED <<epoch, activeRuntimes, subscribers, opened>>
<1> DEFINE event == [runtime |-> Followed, epoch |-> epoch,
                     sequence |-> SequenceOfNext(Session, Followed), payload |-> payload]
<1>1. /\ SequenceOfNext(Session, Followed) = nextSequences[Session][Followed] + 1
      /\ activeRuntimes[Session] = Followed
  BY DEF SequenceOfNext, Publication, Emit
<1>2. /\ nextSequences[Session][Followed] = Len(published) /\ Len(published) \in Nat
      /\ published \in Seq(Event)
  BY <1>1 DEF HubFollowsPublished, DeliveryTypeOK
<1>3. event \in Event /\ event.sequence = Len(published) + 1
  BY <1>1, <1>2, FollowedAssumption DEF Event, HubTypeOK
<1>4. /\ event.runtime = Followed /\ event.epoch = epoch /\ event.payload = payload
      /\ published' = Append(published, event)
      /\ nextSequences' = [nextSequences EXCEPT ![Session][Followed] = @ + 1]
      /\ journal' = [journal EXCEPT ![Session][Followed] = Retain(Append(@, event))]
      /\ emitted' = [emitted EXCEPT ![Session][Followed] = Append(@, event)]
      /\ outgoing' = [c \in Connections |->
                        IF c \in subscribers
                          THEN [outgoing[c] EXCEPT ![Session] = Append(@, event)]
                          ELSE outgoing[c]]
      /\ UNCHANGED <<epoch, activeRuntimes, subscribers, opened>>
  BY DEF Publication, Emit, Publish
<1> HIDE DEF event
<1>5. /\ published' \in Seq(Event) /\ Len(published') = Len(published) + 1
      /\ published'[Len(published) + 1] = event
      /\ \A i \in 1..Len(published) : published'[i] = published[i]
  BY <1>2, <1>3, <1>4, AppendFacts
<1> WITNESS event \in Event
<1> QED  BY <1>1, <1>3, <1>4, <1>5

LEMMA HubFollowsStep ==
  ASSUME HubTypeOK, DeliveryTypeOK, HubFollowsPublished, [DeliveryNext]_deliveryVars
  PROVE  HubFollowsPublished'
<1>1. CASE UNCHANGED <<epoch, activeRuntimes, nextSequences, journal, emitted, published>> /\
           (forwarder' = "idle" => forwarder = "idle")
  BY <1>1 DEF HubFollowsPublished
<1>2. CASE ThreadNext
  BY <1>1, <1>2, ThreadFrame DEF hubVars
<1>3. ASSUME NEW c \in Connections, ConnectionNext(c)  PROVE HubFollowsPublished'
  BY <1>1, <1>3 DEF ConnectionNext, ConnectFirst, Reconnect, Connect, Subscribe, handleVars
<1>4. CASE UNCHANGED deliveryVars
  BY <1>1, <1>4 DEF deliveryVars, hubVars, handleVars
<1>5. ASSUME NEW c \in Connections, ConnectionLost(c)  PROVE HubFollowsPublished'
  BY <1>1, <1>5 DEF ConnectionLost, Unsubscribe, handleVars
<1>7. ASSUME NEW r \in Runtimes, StartedElsewhere(r)  PROVE HubFollowsPublished'
  <2>1. /\ activeRuntimes'[Session] = r /\ r # Followed
        /\ \A q \in Runtimes : journal'[Session][q] = << >>
        /\ UNCHANGED <<published, emitted, forwarder>>
    BY <1>7, FollowedAssumption
    DEF StartedElsewhere, BeginRuntime, ForgetSession, handleVars, HubTypeOK
  <2> QED  BY <2>1, FollowedAssumption DEF HubFollowsPublished
<1>8. CASE EndedElsewhere
  <2>1. /\ activeRuntimes'[Session] = NoRuntime
        /\ \A q \in Runtimes : journal'[Session][q] = << >>
        /\ UNCHANGED <<published, emitted, forwarder>>
    BY <1>8, FollowedAssumption
    DEF EndedElsewhere, EndRuntime, ForgetSession, handleVars, HubTypeOK
  <2> QED  BY <2>1, FollowedAssumption, NoRuntimeAssumption DEF HubFollowsPublished
<1>9. CASE DaemonRestart
  <2>1. /\ activeRuntimes'[Session] = NoRuntime
        /\ \A q \in Runtimes : journal'[Session][q] = << >>
        /\ emitted'[Session][Followed] = << >>
        /\ UNCHANGED <<published, forwarder>>
    BY <1>9, FollowedAssumption DEF DaemonRestart, Restart, handleVars
  <2> QED  BY <2>1, FollowedAssumption, NoRuntimeAssumption DEF HubFollowsPublished
<1>10. CASE StartRuntime
  <2>1. /\ activeRuntimes'[Session] = Followed
        /\ \A q \in Runtimes : journal'[Session][q] = << >>
        /\ nextSequences'[Session][Followed] = 0
        /\ UNCHANGED <<published, emitted>> /\ forwarder = "idle" /\ forwarder' = "starting"
    BY <1>10, FollowedAssumption DEF StartRuntime, BeginRuntime, ForgetSession, HubTypeOK
  <2>2. published = << >> /\ emitted[Session][Followed] = << >>
    BY <2>1 DEF HubFollowsPublished
  <2>3. IsNewestOf(<< >>, << >>)
    BY MaxReplayAssumption DEF IsNewestOf
  <2> QED  BY <2>1, <2>2, <2>3, FollowedAssumption DEF HubFollowsPublished
<1>11. ASSUME NEW payload \in Payloads, Publication(payload)  PROVE HubFollowsPublished'
  <2>1. PICK event \in Event :
           /\ event.runtime = Followed /\ event.epoch = epoch
           /\ event.sequence = Len(published) + 1
           /\ published' = Append(published, event)
           /\ published' \in Seq(Event)
           /\ Len(published') = Len(published) + 1
           /\ published'[Len(published) + 1] = event
           /\ \A i \in 1..Len(published) : published'[i] = published[i]
           /\ activeRuntimes[Session] = Followed
           /\ nextSequences' = [nextSequences EXCEPT ![Session][Followed] = @ + 1]
           /\ journal' = [journal EXCEPT ![Session][Followed] = Retain(Append(@, event))]
           /\ emitted' = [emitted EXCEPT ![Session][Followed] = Append(@, event)]
           /\ UNCHANGED <<epoch, activeRuntimes>>
    BY <1>11, PublicationAppends
  <2>2. /\ nextSequences[Session][Followed] = Len(published)
        /\ emitted[Session][Followed] = published
        /\ IsNewestOf(journal[Session][Followed], published)
        /\ \A i \in 1..Len(published) : published[i].epoch = epoch /\ published[i].sequence = i
                                        /\ published[i].runtime = Followed
        /\ \A r \in Runtimes \ {Followed} : journal[Session][r] = << >>
        /\ forwarder # "idle"
    BY <2>1 DEF HubFollowsPublished
  <2>3. /\ published \in Seq(Event) /\ Len(published) \in Nat
        /\ journal[Session][Followed] \in Seq(Event)
        /\ nextSequences[Session][Followed] \in Nat
    BY FollowedAssumption DEF DeliveryTypeOK, HubTypeOK
  <2>4. IsNewestOf(Retain(Append(journal[Session][Followed], event)), published')
    BY <2>1, <2>2, <2>3, RetainKeepsNewest
  <2>5. /\ nextSequences'[Session][Followed] = Len(published')
        /\ emitted'[Session][Followed] = published'
        /\ journal'[Session][Followed] = Retain(Append(journal[Session][Followed], event))
        /\ \A r \in Runtimes \ {Followed} : journal'[Session][r] = journal[Session][r]
    BY <2>1, <2>2, <2>3, FollowedAssumption DEF HubTypeOK
  <2>6. \A i \in 1..Len(published') : i \in 1..Len(published) \/ i = Len(published) + 1
    BY <2>1, <2>3
  <2>7. \A i \in 1..Len(published') :
          published'[i].sequence = i /\ published'[i].runtime = Followed /\ published'[i].epoch = epoch
    BY <2>1, <2>2, <2>6
  <2>8. forwarder' # "idle"
    BY <1>11, <2>2, DaemonFrame DEF DaemonNext, handleVars
  <2>9. \A r \in Runtimes \ {Followed} : journal'[Session][r] = << >>
    BY <2>2, <2>5
  <2>10. epoch' = epoch
    BY <2>1
  <2> QED  BY <2>4, <2>5, <2>7, <2>8, <2>9, <2>10 DEF HubFollowsPublished
<1> QED
  BY <1>2, <1>3, <1>4, <1>5, <1>7, <1>8, <1>9, <1>10, <1>11, NextByParts DEF DaemonNext

-----------------------------------------------------------------------------
(* Connections follow one another. *)

\* A connection is opened from the cursors of the newest one, after every
\* other reader has stopped.
LEMMA NewConnection ==
  ASSUME HubTypeOK, DeliveryTypeOK, ConnectionsInOrder,
         NEW c \in Connections, ConnectionNext(c)
  PROVE  /\ c \notin opened /\ Connect(c, target)
         /\ opened' = opened \cup {c} /\ subscribers' = subscribers \cup {c}
         /\ target = NoConnection => opened = {} /\ target' = c /\ UNCHANGED <<monitor, replacement>>
         /\ target # NoConnection =>
              target \in opened /\ UNCHANGED target /\ monitor' = "installing" /\ replacement' = c
         /\ \A d \in opened : d <= target
         /\ \A d \in opened : d < c /\ reader[d] # "reading"
         /\ \A d \in Connections : d < c => d \in opened
         /\ reader' = [reader EXCEPT ![c] = "reading"]
         /\ \A d \in Connections : d # c => outgoing'[d] = outgoing[d]
         /\ UNCHANGED <<epoch, activeRuntimes, nextSequences, journal, begun, emitted, received,
                        subscribed, channel, pendingEvents, published, handleVars>>
<1>1. opened \subseteq Connections /\ subscribers \subseteq Connections
  BY DEF HubTypeOK
<1>2. IsNextConnection(c) /\ c \notin opened
  BY DEF ConnectionNext, ConnectFirst, Reconnect, Connect, IsNextConnection
<1>3. Connect(c, target)
  BY DEF ConnectionNext, ConnectFirst, Reconnect
<1>4. \A d \in opened : d < c
  BY <1>1, <1>2, ConnectionsAssumption DEF ConnectionsInOrder
<1>5. \A d \in Connections : d < c => d \in opened
  BY <1>2, ConnectionsAssumption DEF IsNextConnection
<1>6. /\ target = NoConnection => opened = {} /\ target' = c /\ UNCHANGED <<monitor, replacement>>
      /\ target # NoConnection =>
           target \in opened /\ UNCHANGED target /\ monitor' = "installing" /\ replacement' = c
  BY DEF ConnectionNext, ConnectFirst, Reconnect, ConnectionsInOrder
<1>7. ASSUME NEW d \in opened  PROVE d <= target /\ reader[d] # "reading"
  <2>1. target # NoConnection /\ monitor = "watching" /\ reader[target] # "reading" /\ target \in opened
    BY <1>6, <1>7 DEF ConnectionNext, ConnectFirst, Reconnect
  <2>2. d <= target
    BY <2>1 DEF ConnectionsInOrder
  <2>3. d = target \/ d < target
    BY <1>1, <2>1, <2>2, ConnectionsAssumption
  <2> QED  BY <2>1, <2>2, <2>3 DEF ConnectionsInOrder
<1>8. /\ opened' = opened \cup {c} /\ subscribers' = subscribers \cup {c}
      /\ reader' = [reader EXCEPT ![c] = "reading"]
      /\ UNCHANGED <<epoch, activeRuntimes, nextSequences, journal, begun, emitted, received,
                     subscribed, channel, pendingEvents, published>>
  BY <1>3 DEF Connect, Subscribe
<1>9. UNCHANGED handleVars
  BY DEF ConnectionNext, ConnectFirst, Reconnect
<1>10. \A d \in Connections : d # c => outgoing'[d] = outgoing[d]
  BY <1>3 DEF Connect, Subscribe, HubTypeOK
<1> QED  BY <1>2, <1>3, <1>4, <1>5, <1>6, <1>7, <1>8, <1>9, <1>10

\* A connection not opened yet is left alone, and no reader starts again.
LEMMA ThreadsOfOpened ==
  ASSUME HubTypeOK, DeliveryTypeOK, ConnectionsInOrder, ForwarderMovesOn, ThreadNext
  PROVE  /\ \A c \in Connections \ opened :
              /\ reader'[c] = reader[c] /\ received'[c] = received[c]
              /\ subscribed'[c] = subscribed[c] \/ ~ subscribed'[c]
              /\ channel'[c] = channel[c] /\ pendingEvents'[c] = pendingEvents[c]
         /\ \A c \in Connections : reader'[c] = "reading" => reader[c] = "reading"
<1> USE DEF DeliveryTypeOK, clientVars
<1>1. \A c \in Connections : reader[c] # "none" => c \in opened
  BY DEF ConnectionsInOrder
<1>2. /\ client # NoConnection => client \in opened
      /\ source # NoConnection => source \in opened
      /\ opened \subseteq Connections
  BY DEF ForwarderMovesOn, OneReceiver, UpdatesInOrder, ForwarderPhases, HubTypeOK
<1>3. ASSUME NEW c \in Connections, ReadFrame(c)
      PROVE  /\ c \in opened /\ UNCHANGED <<reader, subscribed>>
             /\ \A d \in Connections : d # c =>
                  /\ received'[d] = received[d] /\ channel'[d] = channel[d]
                  /\ pendingEvents'[d] = pendingEvents[d]
  BY <1>1, <1>3 DEF ReadFrame, Buffer
<1>4. ASSUME NEW c \in Connections, ReaderStops(c) \/ ReaderDrains(c)
      PROVE  /\ c \in opened /\ UNCHANGED <<received, channel, pendingEvents>>
             /\ reader'[c] # "reading"
             /\ \A d \in Connections : d # c =>
                  reader'[d] = reader[d] /\ subscribed'[d] = subscribed[d]
  BY <1>1, <1>4 DEF ReaderStops, ReaderDrains
<1>5. CASE InstallTarget \/ PublishReplacement
  BY <1>5 DEF InstallTarget, PublishReplacement
<1>6. CASE StartAnswered \/ StartFailed \/ RegisterForUpdates \/ TakeUpdate \/ AttachAnswered
             \/ AttachFailed \/ ForwarderShutsDown
  BY <1>6 DEF StartAnswered, StartFailed, RegisterForUpdates, TakeUpdate, AttachAnswered,
              AttachFailed, ForwarderShutsDown
<1>7. CASE ForwarderSubscribes
  <2>1. client \in opened
    BY <1>2, <1>7 DEF ForwarderSubscribes, ForwarderMovesOn, OneReceiver, UpdatesInOrder, ForwarderPhases
  <2> QED  BY <1>2, <1>7, <2>1 DEF ForwarderSubscribes, SubscribeClient
<1>8. CASE ForwardEvent
  <2>1. source \in opened
    BY <1>2, <1>8 DEF ForwardEvent, ForwarderMovesOn, OneReceiver, UpdatesInOrder, ForwarderPhases
  <2> QED  BY <1>2, <1>8, <2>1 DEF ForwardEvent
<1>9. CASE SourceEnded \/ DropHandle
  BY <1>9 DEF SourceEnded, DropHandle
<1> QED  BY <1>3, <1>4, <1>5, <1>6, <1>7, <1>8, <1>9 DEF ThreadNext, ReaderNext, ForwarderNext

\* What the supervisor's variables say of the connections.
SupervisorInOrder ==
  /\ target = NoConnection => opened = {}
  /\ target # NoConnection => target \in opened
  /\ target # NoConnection /\ monitor # "installing" => \A c \in opened : c <= target
  /\ monitor # "watching" =>
       target # NoConnection /\ replacement \in opened /\ \A c \in opened : c <= replacement

LEMMA ConnectionsStep ==
  ASSUME HubTypeOK, DeliveryTypeOK, ConnectionsInOrder, ForwarderMovesOn,
         [DeliveryNext]_deliveryVars
  PROVE  ConnectionsInOrder'
<1>0. /\ opened \subseteq Connections /\ subscribers \subseteq opened
      /\ \A c \in Connections \ opened :
           /\ reader[c] = "none" /\ received[c] = 0 /\ Frames(c) = << >>
           /\ ~ subscribed[c] /\ pendingEvents[c] = << >> /\ channel[c] = << >>
      /\ \A c \in opened, d \in Connections : d < c => d \in opened
      /\ \A c, d \in opened : c < d => reader[c] # "reading"
      /\ SupervisorInOrder
  BY DEF ConnectionsInOrder, SupervisorInOrder, HubTypeOK
<1>1. CASE DaemonNext
  <2>1. UNCHANGED <<reader, received, lastSequence, subscribed, channel, pendingEvents,
                    target, monitor, replacement, opened>>
    BY <1>1, DaemonFrame DEF clientVars, supervisorVars
  <2>2. subscribers' \subseteq subscribers
    BY <1>1 DEF DaemonNext, ConnectionLost, Publication, StartedElsewhere, EndedElsewhere,
                DaemonRestart, Unsubscribe, Emit, Publish, BeginRuntime, EndRuntime, Restart
  <2>3. \A c \in Connections \ opened : outgoing'[c] = outgoing[c]
    BY <1>0, <1>1
    DEF DaemonNext, ConnectionLost, Publication, StartedElsewhere, EndedElsewhere,
        DaemonRestart, Unsubscribe, Emit, Publish, BeginRuntime, EndRuntime, Restart
  <2> QED  BY <2>1, <2>2, <2>3 DEF ConnectionsInOrder, Frames
<1>2. CASE ThreadNext
  <2>1. UNCHANGED <<opened, subscribers, outgoing>>
    BY <1>2, ThreadFrame DEF hubVars
  <2>2. \A c \in Connections \ opened :
           /\ reader'[c] = "none" /\ received'[c] = 0 /\ Frames(c)' = << >>
           /\ ~ subscribed'[c] /\ pendingEvents'[c] = << >> /\ channel'[c] = << >>
    BY <1>0, <1>2, <2>1, ThreadsOfOpened DEF Frames
  <2>3. \A c, d \in opened : c < d => reader'[c] # "reading"
    BY <1>0, <1>2, ThreadsOfOpened
  <2>4. SupervisorInOrder'
    <3>1. CASE UNCHANGED supervisorVars
      BY <1>0, <2>1, <3>1 DEF SupervisorInOrder, supervisorVars
    <3>2. CASE InstallTarget
      BY <1>0, <2>1, <3>2, ConnectionsAssumption DEF SupervisorInOrder, InstallTarget
    <3>3. CASE PublishReplacement
      BY <1>0, <2>1, <3>3 DEF SupervisorInOrder, PublishReplacement
    <3> QED
      BY <1>2, <3>1, <3>2, <3>3
      DEF ThreadNext, ReaderNext, ReadFrame, ReaderStops, ReaderDrains, DropHandle,
          ForwarderNext, StartAnswered, StartFailed, RegisterForUpdates, ForwarderSubscribes,
          ForwardEvent, SourceEnded, TakeUpdate, AttachAnswered, AttachFailed,
          ForwarderShutsDown, supervisorVars
  <2> QED  BY <1>0, <2>1, <2>2, <2>3, <2>4 DEF ConnectionsInOrder, SupervisorInOrder
<1>3. CASE StartRuntime
  BY <1>3
  DEF ConnectionsInOrder, StartRuntime, BeginRuntime, clientVars, supervisorVars, Frames
<1>4. ASSUME NEW c \in Connections, ConnectionNext(c)  PROVE ConnectionsInOrder'
  <2>1. /\ opened' = opened \cup {c} /\ subscribers' = subscribers \cup {c}
        /\ \A d \in opened : d < c /\ reader[d] # "reading"
        /\ \A d \in Connections : d < c => d \in opened
        /\ reader' = [reader EXCEPT ![c] = "reading"]
        /\ \A d \in Connections : d # c => outgoing'[d] = outgoing[d]
        /\ UNCHANGED <<received, subscribed, channel, pendingEvents>>
    BY <1>4, NewConnection
  <2>2. reader \in [Connections -> {"none", "reading", "disconnected", "drained"}]
    BY DEF DeliveryTypeOK
  <2>3. /\ subscribers' \subseteq opened'
        /\ \A d \in Connections \ opened' :
             /\ reader'[d] = "none" /\ received'[d] = 0 /\ Frames(d)' = << >>
             /\ ~ subscribed'[d] /\ pendingEvents'[d] = << >> /\ channel'[d] = << >>
    BY <1>0, <2>1, <2>2 DEF Frames
  <2>4. \A e \in opened', d \in Connections : d < e => d \in opened'
    BY <1>0, <2>1
  <2>5. \A d, e \in opened' : d < e => reader'[d] # "reading"
    BY <1>0, <2>1, <2>2, ConnectionsAssumption
  <2>6. SupervisorInOrder'
    <3>1. /\ target = NoConnection =>
               opened = {} /\ target' = c /\ UNCHANGED <<monitor, replacement>>
          /\ target # NoConnection =>
               target \in opened /\ UNCHANGED target /\ monitor' = "installing" /\ replacement' = c
      BY <1>4, NewConnection
    <3>2. \A d \in opened' : d <= c
      BY <1>0, <2>1, ConnectionsAssumption
    <3>3. CASE target = NoConnection
      <4>1. monitor = "watching"
        BY <1>0, <3>3 DEF SupervisorInOrder
      <4> QED  BY <2>1, <3>1, <3>2, <3>3, <4>1, ConnectionsAssumption DEF SupervisorInOrder
    <3>4. CASE target # NoConnection
      BY <2>1, <3>1, <3>2, <3>4 DEF SupervisorInOrder
    <3> QED  BY <3>3, <3>4
  <2> QED  BY <2>3, <2>4, <2>5, <2>6 DEF ConnectionsInOrder, SupervisorInOrder
<1>5. CASE UNCHANGED deliveryVars
  BY <1>5 DEF deliveryVars, hubVars, clientVars, supervisorVars, ConnectionsInOrder, Frames
<1> QED  BY <1>1, <1>2, <1>3, <1>4, <1>5, NextByParts

-----------------------------------------------------------------------------
(* The forwarder moves from connection to newer connection. *)

LEMMA TailFacts ==
  ASSUME NEW S, NEW q \in Seq(S), q # << >>
  PROVE  /\ Tail(q) \in Seq(S) /\ Head(q) = q[1] /\ 1 \in 1..Len(q)
         /\ Len(q) \in Nat /\ Len(Tail(q)) = Len(q) - 1
         /\ \A i \in 1..Len(Tail(q)) :
              i \in Nat /\ i + 1 \in 1..Len(q) /\ Tail(q)[i] = q[i + 1]
<1>1. Len(q) \in Nat /\ Len(q) > 0
  BY LenProperties
<1>2. Tail(q) \in Seq(S) /\ Len(Tail(q)) = Len(q) - 1 /\ Head(q) = q[1]
  BY HeadTailProperties
<1>3. \A i \in 1..Len(Tail(q)) : Tail(q)[i] = q[i + 1]
  BY <1>1, <1>2
<1> QED  BY <1>1, <1>2, <1>3

\* Taking the first update, with the forwarder's client at most that one.
LEMMA UpdatesTaken ==
  ASSUME HubTypeOK, DeliveryTypeOK, UpdatesInOrder, clientUpdates # << >>,
         clientUpdates' = Tail(clientUpdates), UNCHANGED <<opened, target>>,
         client' \in {client, Head(clientUpdates)}, forwarder' # "attaching"
  PROVE  UpdatesInOrder'
<1>1. clientUpdates \in Seq(Connections)
  BY DEF DeliveryTypeOK
<1>2. /\ 1 \in 1..Len(clientUpdates) /\ Head(clientUpdates) = clientUpdates[1]
      /\ Len(clientUpdates) \in Nat /\ Len(clientUpdates') = Len(clientUpdates) - 1
      /\ \A i \in 1..Len(clientUpdates') :
           i \in Nat /\ i + 1 \in 1..Len(clientUpdates) /\ clientUpdates'[i] = clientUpdates[i + 1]
  BY <1>1, TailFacts
<1>3. \A i \in 1..Len(clientUpdates') :
         clientUpdates[1] <= clientUpdates'[i] /\ client <= clientUpdates'[i]
         /\ clientUpdates'[i] \in opened /\ clientUpdates'[i] <= target
  BY <1>2 DEF UpdatesInOrder
<1>4. \A i, j \in 1..Len(clientUpdates') : i < j => clientUpdates'[i] <= clientUpdates'[j]
  BY <1>2 DEF UpdatesInOrder
<1> QED  BY <1>2, <1>3, <1>4 DEF UpdatesInOrder

\* The steps of the forwarder and of its application.
LEMMA ForwarderStep ==
  ASSUME HubTypeOK, DeliveryTypeOK, ConnectionsInOrder, ForwarderMovesOn,
         ForwarderNext \/ DropHandle
  PROVE  ForwarderMovesOn'
<1>1. /\ opened \subseteq Connections /\ Connections \subseteq Nat /\ NoConnection \notin opened
      /\ channel \in [Connections -> Seq(Event)] /\ subscribed \in [Connections -> BOOLEAN]
      /\ clientUpdates \in Seq(Connections)
  BY ConnectionsAssumption DEF HubTypeOK, DeliveryTypeOK
<1>2. OneReceiver /\ UpdatesInOrder /\ ForwarderPhases
  BY DEF ForwarderMovesOn
<1>3. client # NoConnection => target \in opened
  BY <1>2 DEF ConnectionsInOrder, ForwarderPhases
<1>4. CASE StartAnswered \/ StartFailed
  <2>1. /\ forwarder = "starting" /\ forwarder' \in {"started", "done"}
        /\ UNCHANGED <<opened, channel, subscribed, source, client, clientUpdates, target, exit>>
    BY <1>4 DEF StartAnswered, StartFailed, hubVars, clientVars, supervisorVars
  <2>2. OneReceiver'
    BY <1>2, <2>1 DEF OneReceiver
  <2>3. UpdatesInOrder'
    BY <1>2, <2>1 DEF UpdatesInOrder
  <2>4. ForwarderPhases'
    BY <1>2, <2>1 DEF ForwarderPhases
  <2> QED  BY <2>2, <2>3, <2>4 DEF ForwarderMovesOn
<1>5. CASE RegisterForUpdates
  <2>1. /\ forwarder = "started" /\ forwarder' = "subscribing" /\ clientUpdates' = <<target>>
        /\ UNCHANGED <<opened, channel, subscribed, source, client, target, exit>>
    BY <1>5 DEF RegisterForUpdates, hubVars, clientVars, supervisorVars
  <2>2. source = NoConnection /\ client # NoConnection /\ client <= target /\ exit = "none"
    BY <1>2, <2>1 DEF ForwarderPhases
  <2>3. OneReceiver'
    BY <1>2, <2>1, <2>2 DEF OneReceiver
  <2>4. target \in opened /\ target <= target
    <3>1. target \in opened
      BY <1>3, <2>2
    <3>2. target \in Nat
      BY <1>1, <3>1
    <3> QED  BY <3>1, <3>2
  <2>5. UpdatesInOrder'
    BY <2>1, <2>2, <2>4 DEF UpdatesInOrder
  <2>6. ForwarderPhases'
    BY <1>2, <2>1, <2>2 DEF ForwarderPhases
  <2> QED  BY <2>3, <2>5, <2>6 DEF ForwarderMovesOn
<1>6. CASE ForwarderSubscribes
  <2>1. /\ forwarder = "subscribing" /\ forwarder' = "forwarding" /\ source' = client
        /\ channel' = [channel EXCEPT ![client] = pendingEvents[client]]
        /\ subscribed' = [subscribed EXCEPT ![client] = TRUE]
        /\ UNCHANGED <<opened, client, clientUpdates, target, exit>>
    BY <1>6 DEF ForwarderSubscribes, SubscribeClient, hubVars, supervisorVars
  <2>2. client \in opened /\ client <= client
    <3>1. client \in opened
      BY <1>2, <2>1 DEF ForwarderPhases
    <3>2. client \in Nat
      BY <1>1, <3>1
    <3> QED  BY <3>1, <3>2
  <2>3. \A c \in Connections : c # client => channel[c] = << >> /\ ~ subscribed[c]
    <3>1. source # NoConnection => channel[source] = << >> /\ ~ subscribed[source]
      BY <1>2, <2>1 DEF OneReceiver
    <3>2. \A c \in Connections : c # source => channel[c] = << >> /\ ~ subscribed[c]
      BY <1>2 DEF OneReceiver
    <3>3. \A c \in Connections : c # NoConnection
      BY ConnectionsAssumption
    <3> QED  BY <3>1, <3>2, <3>3
  <2>4. OneReceiver'
    BY <1>1, <2>1, <2>2, <2>3 DEF OneReceiver
  <2>5. UpdatesInOrder'
    BY <1>2, <2>1 DEF UpdatesInOrder
  <2>6. ForwarderPhases'
    BY <1>2, <2>1 DEF ForwarderPhases
  <2> QED  BY <2>4, <2>5, <2>6 DEF ForwarderMovesOn
<1>7. CASE ForwardEvent
  <2>1. /\ forwarder = "forwarding" /\ channel[source] # << >>
        /\ channel' = [channel EXCEPT ![source] = Tail(@)]
        /\ \/ UNCHANGED <<exit, forwarder, subscribed>>
           \/ forwarder' = "done" /\ subscribed' = [subscribed EXCEPT ![client] = FALSE]
        /\ UNCHANGED <<opened, source, client, clientUpdates, target>>
    BY <1>7 DEF ForwardEvent, hubVars, supervisorVars
  <2>2. source # NoConnection /\ source \in opened /\ client = source
    BY <1>2, <2>1 DEF OneReceiver
  <2>3. \A c \in Connections : c # source => channel'[c] = channel[c]
    BY <1>1, <2>1
  <2>4. \A c \in Connections : subscribed'[c] => subscribed[c]
    BY <1>1, <2>1
  <2>5. OneReceiver'
    BY <1>2, <2>1, <2>2, <2>3, <2>4 DEF OneReceiver
  <2>6. UpdatesInOrder'
    BY <1>2, <2>1 DEF UpdatesInOrder
  <2>7. ForwarderPhases'
    BY <1>2, <2>1 DEF ForwarderPhases
  <2> QED  BY <2>5, <2>6, <2>7 DEF ForwarderMovesOn
<1>8. CASE SourceEnded
  <2>1. /\ forwarder = "forwarding" /\ channel[source] = << >> /\ ~ subscribed[source]
        /\ forwarder' \in {"done", "awaiting"}
        /\ subscribed' = [subscribed EXCEPT ![client] = FALSE]
        /\ UNCHANGED <<opened, channel, source, client, clientUpdates, target, exit>>
    BY <1>8 DEF SourceEnded, hubVars, supervisorVars
  <2>2. source # NoConnection /\ source \in Connections
    BY <1>1, <1>2, <2>1 DEF OneReceiver
  <2>3. \A c \in Connections : subscribed'[c] => subscribed[c]
    BY <1>1, <2>1
  <2>4. OneReceiver'
    BY <1>2, <2>1, <2>2, <2>3 DEF OneReceiver
  <2>5. UpdatesInOrder'
    BY <1>2, <2>1 DEF UpdatesInOrder
  <2>6. ForwarderPhases'
    BY <1>2, <2>1 DEF ForwarderPhases
  <2> QED  BY <2>4, <2>5, <2>6 DEF ForwarderMovesOn
<1>9. CASE TakeUpdate
  <2>1. /\ forwarder = "awaiting" /\ clientUpdates # << >>
        /\ \/ clientUpdates' = Tail(clientUpdates) /\ UNCHANGED forwarder
           \/ forwarder' = "attaching" /\ UNCHANGED clientUpdates
        /\ UNCHANGED <<opened, channel, subscribed, source, client, target, exit>>
    BY <1>9 DEF TakeUpdate, hubVars, clientVars, supervisorVars
  <2>2. OneReceiver'
    BY <1>2, <2>1 DEF OneReceiver
  <2>3. UpdatesInOrder'
    BY <1>2, <2>1, UpdatesTaken DEF UpdatesInOrder
  <2>4. ForwarderPhases'
    BY <1>2, <2>1 DEF ForwarderPhases
  <2> QED  BY <2>2, <2>3, <2>4 DEF ForwarderMovesOn
<1>10. CASE AttachAnswered \/ AttachFailed
  <2> DEFINE attached == Head(clientUpdates)
  <2>1. /\ forwarder = "attaching" /\ clientUpdates' = Tail(clientUpdates)
        /\ \/ client' = attached /\ forwarder' \in {"subscribing", "forwarding"} /\ UNCHANGED exit
           \/ forwarder' = "done" /\ UNCHANGED client
        /\ UNCHANGED <<opened, channel, subscribed, source, target>>
    BY <1>10 DEF AttachAnswered, AttachFailed, hubVars, clientVars, supervisorVars
  <2>2. /\ clientUpdates # << >> /\ source # NoConnection /\ source \in opened
        /\ client \in opened /\ source <= client
        /\ channel[source] = << >> /\ ~ subscribed[source] /\ exit = "none"
    BY <1>2, <2>1 DEF OneReceiver, UpdatesInOrder, ForwarderPhases
  <2>3. attached = clientUpdates[1] /\ 1 \in 1..Len(clientUpdates)
    BY <1>1, <2>2, TailFacts
  <2>4. attached \in opened /\ client <= attached /\ attached <= target
    BY <1>2, <2>3 DEF UpdatesInOrder
  <2> HIDE DEF attached
  <2>5. client' \in opened /\ source <= client' /\ client' # NoConnection
    BY <1>1, <2>1, <2>2, <2>4
  <2>6. OneReceiver'
    BY <1>2, <2>1, <2>2, <2>5 DEF OneReceiver
  <2>7. client' \in {client, Head(clientUpdates)} /\ forwarder' # "attaching"
    BY <2>1 DEF attached
  <2>8. UpdatesInOrder'
    BY <1>2, <2>1, <2>2, <2>7, UpdatesTaken
  <2>9. ForwarderPhases'
    BY <1>2, <2>1, <2>2, <2>4, <2>5 DEF ForwarderPhases
  <2> QED  BY <2>6, <2>8, <2>9 DEF ForwarderMovesOn
<1>11. CASE ForwarderShutsDown \/ DropHandle
  <2>1. /\ UNCHANGED forwarder \/ (forwarder' = "done" /\ forwarder # "idle")
        /\ \A c \in Connections : subscribed'[c] => subscribed[c]
        /\ UNCHANGED <<opened, channel, source, client, clientUpdates, target, exit>>
    <3>1. CASE ForwarderShutsDown
      BY <3>1 DEF ForwarderShutsDown, hubVars, clientVars, supervisorVars
    <3>2. CASE DropHandle
      <4>1. subscribed' = [subscribed EXCEPT ![activeClient] = FALSE]
        BY <3>2 DEF DropHandle
      <4>2. \A c \in Connections : subscribed'[c] => subscribed[c]
        BY <1>1, <4>1
      <4>3. UNCHANGED <<opened, channel, source, client, clientUpdates, target, exit, forwarder>>
        BY <3>2 DEF DropHandle, hubVars, supervisorVars
      <4> QED  BY <4>2, <4>3
    <3> QED  BY <1>11, <3>1, <3>2
  <2>2. source # NoConnection => source \in Connections
    BY <1>1, <1>2 DEF OneReceiver
  <2>3. OneReceiver'
    BY <1>2, <2>1, <2>2 DEF OneReceiver
  <2>4. UpdatesInOrder'
    BY <1>2, <2>1 DEF UpdatesInOrder
  <2>5. ForwarderPhases'
    BY <1>2, <2>1 DEF ForwarderPhases
  <2> QED  BY <2>3, <2>4, <2>5 DEF ForwarderMovesOn
<1> QED
  BY <1>4, <1>5, <1>6, <1>7, <1>8, <1>9, <1>10, <1>11 DEF ForwarderNext

LEMMA ForwarderMovesStep ==
  ASSUME HubTypeOK, DeliveryTypeOK, ConnectionsInOrder, ForwarderMovesOn,
         [DeliveryNext]_deliveryVars
  PROVE  ForwarderMovesOn'
<1>1. /\ opened \subseteq Connections /\ Connections \subseteq Nat /\ NoConnection \notin opened
      /\ channel \in [Connections -> Seq(Event)] /\ subscribed \in [Connections -> BOOLEAN]
      /\ clientUpdates \in Seq(Connections)
  BY ConnectionsAssumption DEF HubTypeOK, DeliveryTypeOK
<1>2. OneReceiver /\ UpdatesInOrder /\ ForwarderPhases
  BY DEF ForwarderMovesOn
\* Opening a connection and dropping a sender disturb nothing.
<1>3. ASSUME UNCHANGED <<channel, source, client, clientUpdates, forwarder, exit>>,
             opened \subseteq opened', client # NoConnection => UNCHANGED target,
             \A c \in Connections : subscribed'[c] => subscribed[c]
      PROVE  ForwarderMovesOn'
  <2>1. source # NoConnection => source \in Connections
    BY <1>1, <1>2 DEF OneReceiver
  <2>2. OneReceiver'
    BY <1>2, <1>3, <2>1 DEF OneReceiver
  <2>3. UpdatesInOrder'
    <3>1. clientUpdates # << >> => client # NoConnection
      BY <1>2 DEF ForwarderPhases
    <3>2. CASE clientUpdates = << >>
      BY <1>2, <1>3, <3>2 DEF UpdatesInOrder
    <3> QED  BY <1>2, <1>3, <3>1, <3>2 DEF UpdatesInOrder
  <2>4. ForwarderPhases'
    BY <1>2, <1>3 DEF ForwarderPhases
  <2> QED  BY <2>2, <2>3, <2>4 DEF ForwarderMovesOn
<1>4. CASE DaemonNext
  BY <1>3, <1>4, DaemonFrame DEF clientVars, supervisorVars, handleVars
<1>5. ASSUME NEW c \in Connections, ConnectionNext(c)  PROVE ForwarderMovesOn'
  <2>1. /\ UNCHANGED <<channel, subscribed, handleVars>> /\ opened \subseteq opened'
        /\ target = NoConnection => opened = {}
        /\ target # NoConnection => UNCHANGED target
    BY <1>5, NewConnection
  <2>2. client # NoConnection => client \in opened
    BY <1>2 DEF ForwarderPhases
  <2> QED  BY <1>3, <2>1, <2>2 DEF handleVars
<1>6. CASE StartRuntime
  <2>1. /\ forwarder = "idle" /\ forwarder' = "starting" /\ target \in subscribers
        /\ client' = target
        /\ UNCHANGED <<opened, channel, subscribed, source, clientUpdates, target, exit>>
    BY <1>6 DEF StartRuntime, BeginRuntime, clientVars, supervisorVars
  <2>2. target \in opened /\ target # NoConnection /\ target <= target
    BY <1>1, <2>1 DEF ConnectionsInOrder
  <2>3. source = NoConnection /\ clientUpdates = << >>
    BY <1>2, <2>1 DEF ForwarderPhases
  <2>4. OneReceiver'
    BY <1>2, <2>1, <2>3 DEF OneReceiver
  <2>5. UpdatesInOrder'
    BY <2>1, <2>3 DEF UpdatesInOrder
  <2>6. ForwarderPhases'
    BY <1>2, <2>1, <2>2, <2>3 DEF ForwarderPhases
  <2> QED  BY <2>4, <2>5, <2>6 DEF ForwarderMovesOn
<1>7. ASSUME NEW c \in Connections, ReadFrame(c)  PROVE ForwarderMovesOn'
  <2>1. /\ \A d \in Connections : channel'[d] = channel[d] \/ subscribed[d]
        /\ UNCHANGED <<opened, subscribed, source, client, clientUpdates, forwarder, target, exit>>
    BY <1>1, <1>7 DEF ReadFrame, hubVars, supervisorVars, handleVars
  <2>2. source # NoConnection => source \in Connections
    BY <1>1, <1>2 DEF OneReceiver
  <2>3. OneReceiver'
    BY <1>2, <2>1, <2>2 DEF OneReceiver
  <2>4. UpdatesInOrder'
    BY <1>2, <2>1 DEF UpdatesInOrder
  <2>5. ForwarderPhases'
    BY <1>2, <2>1 DEF ForwarderPhases
  <2> QED  BY <2>3, <2>4, <2>5 DEF ForwarderMovesOn
<1>8. ASSUME NEW c \in Connections, ReaderStops(c) \/ ReaderDrains(c)  PROVE ForwarderMovesOn'
  <2>1. \A d \in Connections : subscribed'[d] => subscribed[d]
    BY <1>1, <1>8 DEF ReaderStops, ReaderDrains
  <2>2. UNCHANGED <<channel, source, client, clientUpdates, forwarder, exit, opened, target>>
    BY <1>8 DEF ReaderStops, ReaderDrains, hubVars, supervisorVars, handleVars
  <2> QED  BY <1>3, <2>1, <2>2
<1>9. CASE InstallTarget
  <2>1. /\ monitor = "installing" /\ target' = replacement
        /\ UNCHANGED <<opened, channel, subscribed, source, client, clientUpdates, forwarder, exit>>
    BY <1>9 DEF InstallTarget, hubVars, clientVars, handleVars
  <2>2. \A c \in opened : c <= target'
    BY <2>1 DEF ConnectionsInOrder
  <2>3. OneReceiver'
    BY <1>2, <2>1 DEF OneReceiver
  <2>4. UpdatesInOrder'
    BY <1>2, <2>1, <2>2 DEF UpdatesInOrder
  <2>5. ForwarderPhases'
    BY <1>2, <2>1, <2>2 DEF ForwarderPhases
  <2> QED  BY <2>3, <2>4, <2>5 DEF ForwarderMovesOn
<1>10. CASE PublishReplacement
  <2>1. /\ monitor = "publishing"
        /\ \/ UNCHANGED clientUpdates
           \/ Running(forwarder) /\ clientUpdates' = Append(clientUpdates, replacement)
        /\ UNCHANGED <<opened, channel, subscribed, source, client, target, forwarder, exit>>
    BY <1>10 DEF PublishReplacement, hubVars, clientVars
  <2>2. OneReceiver'
    BY <1>2, <2>1 DEF OneReceiver
  <2>3. ForwarderPhases'
    BY <1>2, <2>1 DEF ForwarderPhases, Running
  <2>4. UpdatesInOrder'
    <3>1. CASE UNCHANGED clientUpdates
      BY <1>2, <2>1, <3>1 DEF UpdatesInOrder
    <3>2. CASE Running(forwarder) /\ clientUpdates' = Append(clientUpdates, replacement)
      <4>1. /\ replacement \in opened /\ replacement <= target
            /\ \A c \in opened : c <= replacement
        BY <2>1 DEF ConnectionsInOrder
      <4>2. client \in opened
        BY <1>2, <3>2 DEF ForwarderPhases, Running
      <4>3. /\ Len(clientUpdates) \in Nat /\ Len(clientUpdates') = Len(clientUpdates) + 1
            /\ clientUpdates'[Len(clientUpdates) + 1] = replacement
            /\ \A k \in 1..Len(clientUpdates) : clientUpdates'[k] = clientUpdates[k]
            /\ \A k \in 1..Len(clientUpdates') :
                 k \in 1..Len(clientUpdates) \/ k = Len(clientUpdates) + 1
        BY <1>1, <3>2, <4>1, AppendFacts
      <4>4. \A i \in 1..Len(clientUpdates') :
              clientUpdates'[i] \in opened /\ client <= clientUpdates'[i] /\ clientUpdates'[i] <= target
        BY <1>2, <4>1, <4>2, <4>3 DEF UpdatesInOrder
      <4>5. \A i, j \in 1..Len(clientUpdates') : i < j => clientUpdates'[i] <= clientUpdates'[j]
        <5> SUFFICES ASSUME NEW i \in 1..Len(clientUpdates'), NEW j \in 1..Len(clientUpdates'), i < j
                     PROVE  clientUpdates'[i] <= clientUpdates'[j]
          OBVIOUS
        <5>1. i \in 1..Len(clientUpdates)
          BY <4>3
        <5> QED  BY <1>2, <4>1, <4>3, <5>1 DEF UpdatesInOrder
      <4>6. clientUpdates' # << >>
        BY <4>3
      <4> QED  BY <2>1, <4>4, <4>5, <4>6 DEF UpdatesInOrder
    <3> QED  BY <2>1, <3>1, <3>2
  <2> QED  BY <2>2, <2>3, <2>4 DEF ForwarderMovesOn
<1>11. CASE UNCHANGED deliveryVars
  BY <1>3, <1>11 DEF deliveryVars, hubVars, clientVars, supervisorVars, handleVars
<1> QED
  BY <1>4, <1>5, <1>6, <1>7, <1>8, <1>9, <1>10, <1>11, NextByParts, ForwarderStep
  DEF ThreadNext, ReaderNext

-----------------------------------------------------------------------------
(* The frames of a connection. *)

\* A cursor the supervisor resumes from, of the newest client or none.
ResumeCursor == CursorsOfClient(target)[Session][Followed]

LEMMA ResumeCursorValue ==
  /\ target \in Connections => ResumeCursor = lastSequence[target]
  /\ target \notin Connections => ResumeCursor = NoCursor
BY FollowedAssumption DEF ResumeCursor, CursorsOfClient

(***************************************************************************)
(* A new connection is sent the newest part of the history; what comes     *)
(* before that its client has seen, or it is lost.                         *)
(***************************************************************************)
LEMMA NewFrames ==
  ASSUME HubTypeOK, DeliveryTypeOK, ConnectionsInOrder, HubFollowsPublished,
         NEW c \in Connections, ConnectionNext(c)
  PROVE  /\ lastSequence' = [lastSequence EXCEPT ![c] = ResumeCursor]
         /\ Frames(c)' \in Seq(Event)
         /\ activeRuntimes[Session] # Followed => Frames(c)' = << >>
         /\ \E b \in 0..Len(published) :
              /\ Len(Frames(c)') = Len(published) - b
              /\ \A i \in 1..Len(Frames(c)') : Frames(c)'[i] = published[b + i]
              /\ activeRuntimes[Session] = Followed =>
                   \A m \in 1..b : m <= ResumeCursor.sequence \/ m \in lost'
<1> DEFINE log == JournalOf(Session)
           cursors == CursorsOfClient(target)
<1>1. /\ Connect(c, target) /\ outgoing \in [Connections -> [Sessions -> Seq(Event)]]
      /\ published \in Seq(Event)
  BY NewConnection DEF HubTypeOK, DeliveryTypeOK
<1>2. lastSequence' = [lastSequence EXCEPT ![c] = ResumeCursor]
  BY <1>1 DEF Connect, ResumeCursor
<1>3. PICK cuts \in [Sessions -> 0..MaxReplay] :
        /\ ReplayCut(cursors, Session, cuts[Session])
        /\ outgoing' = [outgoing EXCEPT ![c] = [s \in Sessions |->
                          SubSeq(JournalOf(s), cuts[s] + 1, Len(JournalOf(s)))]]
  BY <1>1, FollowedAssumption DEF Connect, Subscribe
<1>4. Frames(c)' = SubSeq(log, cuts[Session] + 1, Len(log))
  BY <1>1, <1>3, FollowedAssumption DEF Frames
<1>5. PICK cut \in Nat : cut = cuts[Session]
  BY <1>3, FollowedAssumption, MaxReplayAssumption
<1>6. log \in Seq(Event) /\ Len(log) \in Nat /\ Len(published) \in Nat
  <2>1. activeRuntimes[Session] \in Runtimes \cup {NoRuntime}
    BY FollowedAssumption DEF HubTypeOK
  <2>2. log \in Seq(Event)
    BY <2>1, FollowedAssumption DEF JournalOf, HubTypeOK
  <2> QED  BY <1>1, <2>2, LenProperties
<1>7. ReplayCut(cursors, Session, cut)
  BY <1>3, <1>5
<1>8. CASE activeRuntimes[Session] # Followed
  <2>1. log = << >>
    <3>1. activeRuntimes[Session] \in Runtimes \cup {NoRuntime}
      BY FollowedAssumption DEF HubTypeOK
    <3> QED  BY <1>8, <3>1 DEF JournalOf, HubFollowsPublished
  <2>2. Frames(c)' = << >>
    <3>1. Len(log) < cut + 1 /\ cut + 1 \in Int
      BY <1>5, <2>1
    <3> QED  BY <1>4, <1>5, <1>6, <3>1, SubSeqEmpty
  <2> QED  BY <1>2, <1>6, <1>8, <2>2
<1>9. CASE activeRuntimes[Session] = Followed
  <2>1. /\ log = journal[Session][Followed] /\ IsNewestOf(log, published)
        /\ emitted[Session][Followed] = published
        /\ \A i \in 1..Len(published) : published[i].sequence = i
    BY <1>9, NoRuntimeAssumption, FollowedAssumption DEF JournalOf, HubFollowsPublished
  <2>2. IsCut(log, ResumePoint(cursors, Session, Followed), cut)
    BY <1>7, <1>9, NoRuntimeAssumption, FollowedAssumption DEF ReplayCut
  <2>3. PICK k \in Nat, n \in Nat : k = Len(log) /\ n = Len(published) /\ k <= n
    BY <1>6, <2>1 DEF IsNewestOf
  <2>4. \A i \in 1..k : log[i] = published[n - k + i]
    BY <2>1, <2>3 DEF IsNewestOf
  <2>5. EvictedUpTo(Session, Followed) = n - k
    <3>1. EvictedUpTo(Session, Followed) = IF n - k > 0 THEN published[n - k].sequence ELSE 0
      BY <2>1, <2>3 DEF EvictedUpTo
    <3>2. n - k > 0 => published[n - k].sequence = n - k
      BY <2>1, <2>3
    <3> QED  BY <2>3, <3>1, <3>2
  <2>6. ResumeCursor.sequence \in Nat /\ ResumeCursor \in Cursor
    BY CursorsOfClientType, FollowedAssumption DEF ResumeCursor, Cursor
  <2>7. ResumePoint(cursors, Session, Followed) =
          IF ResumeCursor.epoch = epoch THEN ResumeCursor.sequence ELSE 0
    BY DEF ResumePoint, ResumeCursor
  <2>8. lost' = lost \cup (IF ResumeCursor.epoch = epoch
                             THEN (ResumeCursor.sequence + 1)..(n - k) ELSE 1..(n - k))
    BY <1>1, <1>9, <2>5 DEF Connect, ResumeCursor
  <2> HIDE DEF log, cursors
  <2>9. cut <= k /\ \A i \in 1..cut : log[i].sequence <= ResumePoint(cursors, Session, Followed)
    BY <1>5, <2>2, <2>3 DEF IsCut
  <2>10. /\ Frames(c)' \in Seq(Event) /\ Len(Frames(c)') = k - cut
         /\ \A i \in 1..(k - cut) : Frames(c)'[i] = log[cut + i]
    <3>1. \A i \in (cut + 1)..k : log[i] \in Event
      BY <1>5, <1>6, <2>3, ElementOfSeq
    <3>0. Frames(c)' = SubSeq(log, cut + 1, k) /\ cut + 1 \in Int /\ k \in Int
      BY <1>4, <1>5, <2>3
    <3>2. /\ Frames(c)' \in Seq(Event)
          /\ Len(Frames(c)') = IF cut + 1 <= k THEN k - (cut + 1) + 1 ELSE 0
          /\ \A i \in 1..k - (cut + 1) + 1 : Frames(c)'[i] = log[(cut + 1) + i - 1]
      BY <3>0, <3>1, SubSeqProperties
    <3>3. \A i \in 1..(k - cut) : i \in 1..k - (cut + 1) + 1 /\ (cut + 1) + i - 1 = cut + i
      BY <1>5, <2>3
    <3>4. \A i \in 1..(k - cut) : Frames(c)'[i] = log[cut + i]
      BY <3>2, <3>3
    <3> QED  BY <1>5, <2>3, <2>9, <3>2, <3>4
  <2>11. PICK b \in 0..n : b = n - k + cut
    BY <1>5, <2>3, <2>9
  <2>12. Len(Frames(c)') = n - b
    BY <1>5, <2>3, <2>10, <2>11
  <2>13. \A i \in 1..Len(Frames(c)') : Frames(c)'[i] = published[b + i]
    <3> SUFFICES ASSUME NEW i \in 1..(k - cut)  PROVE Frames(c)'[i] = published[b + i]
      BY <2>10
    <3>1. cut + i \in 1..k /\ n - k + (cut + i) = b + i
      BY <1>5, <2>3, <2>9, <2>11, SMTT(30)
    <3> QED  BY <2>4, <2>10, <3>1
  <2>14. \A m \in 1..b : m <= ResumeCursor.sequence \/ m \in lost'
    <3> SUFFICES ASSUME NEW m \in 1..b  PROVE m <= ResumeCursor.sequence \/ m \in lost'
      OBVIOUS
    <3>1. CASE m <= n - k
      BY <2>3, <2>6, <2>8, <2>11, <3>1
    <3>2. CASE m > n - k
      <4>0. m - (n - k) \in 1..cut /\ m = n - k + (m - (n - k))
        BY <1>5, <2>3, <2>11, <3>2
      <4>1. PICK i \in 1..cut : m = n - k + i
        BY <4>0
      <4>2. log[i] = published[m] /\ m \in 1..n
        BY <1>5, <2>3, <2>4, <2>9, <2>11, <4>1
      <4>3. log[i].sequence = m
        BY <2>1, <2>3, <4>2
      <4>4. m <= ResumePoint(cursors, Session, Followed)
        BY <2>9, <4>1, <4>3
      <4> QED  BY <2>6, <2>7, <4>2, <4>4
    <3> QED  BY <2>3, <3>1, <3>2
  <2> QED  BY <1>2, <1>9, <2>3, <2>10, <2>11, <2>12, <2>13, <2>14
<1> QED  BY <1>8, <1>9

\* What reading a frame does: news is handed over or buffered.
LEMMA ReadFacts ==
  ASSUME HubTypeOK, DeliveryTypeOK, HubFollowsPublished, FramesArePublished,
         NEW c \in Connections, ReadFrame(c)
  PROVE  \E event \in Event :
           /\ received[c] + 1 \in 1..Len(Frames(c)) /\ event = Frames(c)[received[c] + 1]
           /\ IsPublished(event)
           /\ received' = [received EXCEPT ![c] = received[c] + 1]
           /\ event.sequence > ClientSequence(c) =>
                /\ lastSequence' = [lastSequence EXCEPT
                     ![c] = [epoch |-> event.epoch, sequence |-> event.sequence]]
                /\ subscribed[c] =>
                     /\ channel' = [channel EXCEPT ![c] = Append(channel[c], event)]
                     /\ UNCHANGED <<pendingEvents, lost>>
                /\ ~ subscribed[c] => Buffer(c, event) /\ UNCHANGED channel
           /\ ~ (event.sequence > ClientSequence(c)) =>
                UNCHANGED <<lastSequence, channel, pendingEvents, lost>>
           /\ UNCHANGED <<hubVars, reader, subscribed, supervisorVars, handleVars, published>>
<1> DEFINE event == outgoing[c][Session][received[c] + 1]
<1>1. /\ outgoing[c][Session] \in Seq(Event) /\ received[c] \in Nat
      /\ lastSequence[c] \in Cursor /\ published \in Seq(Event)
      /\ received \in [Connections -> Nat] /\ channel \in [Connections -> Seq(Event)]
  BY FollowedAssumption DEF HubTypeOK, DeliveryTypeOK
<1>2. received[c] + 1 \in 1..Len(Frames(c)) /\ event = Frames(c)[received[c] + 1]
  BY <1>1 DEF ReadFrame, Frames
<1>3. event \in Event /\ IsPublished(event)
  BY <1>1, <1>2, ElementOfSeq DEF FramesArePublished, Frames
<1>4. /\ event.sequence \in 1..Len(published) /\ event = published[event.sequence]
      /\ event.runtime = Followed
  BY <1>3 DEF IsPublished, HubFollowsPublished
<1>5. ClientSequence(c) \in Nat /\ event.sequence \in Nat
  BY <1>1, <1>3 DEF ClientSequence, Cursor, Event
<1>6. IsNews(c, event) <=> event.sequence > ClientSequence(c)
  <2>1. CASE ClientSequence(c) = 0
    BY <1>4, <1>5, <2>1 DEF IsNews, ClientSequence
  <2>2. CASE ClientSequence(c) > 0
    <3>1. ClientSequence(c) \in 1..Len(published)
      BY <1>1, <1>5, <2>2 DEF FramesArePublished
    <3>2. lastSequence[c].epoch = published[ClientSequence(c)].epoch
      BY <2>2 DEF FramesArePublished
    <3>3. published[ClientSequence(c)].epoch = published[event.sequence].epoch
      BY <1>4, <3>1 DEF HubFollowsPublished
    <3>4. lastSequence[c].epoch = event.epoch
      BY <1>4, <3>2, <3>3
    <3> QED  BY <1>5, <3>4 DEF IsNews, ClientSequence
  <2> QED  BY <1>5, <2>1, <2>2
<1>7. received' = [received EXCEPT ![c] = received[c] + 1]
  BY DEF ReadFrame
<1>8. UNCHANGED <<hubVars, reader, subscribed, supervisorVars, handleVars, published>>
  BY DEF ReadFrame
<1>9. ASSUME IsNews(c, event)
      PROVE  /\ lastSequence' = [lastSequence EXCEPT
                  ![c] = [epoch |-> event.epoch, sequence |-> event.sequence]]
             /\ subscribed[c] =>
                  /\ channel' = [channel EXCEPT ![c] = Append(channel[c], event)]
                  /\ UNCHANGED <<pendingEvents, lost>>
             /\ ~ subscribed[c] => Buffer(c, event) /\ UNCHANGED channel
  BY <1>4, <1>9 DEF ReadFrame
<1>10. ~ IsNews(c, event) => UNCHANGED <<lastSequence, channel, pendingEvents, lost>>
  BY DEF ReadFrame
<1> HIDE DEF event
<1> QED  BY <1>2, <1>3, <1>6, <1>7, <1>8, <1>9, <1>10

\* Only ReadFrame moves a client on.
LEMMA OnlyReadFrameReads ==
  ASSUME ThreadNext
  PROVE  (\E c \in Connections : ReadFrame(c)) \/ UNCHANGED <<received, lastSequence>>
BY DEF ThreadNext, ReaderNext, ReaderStops, ReaderDrains, InstallTarget, PublishReplacement,
       DropHandle, ForwarderNext, StartAnswered, StartFailed, RegisterForUpdates,
       ForwarderSubscribes, ForwardEvent, SourceEnded, TakeUpdate, AttachAnswered, AttachFailed,
       ForwarderShutsDown, clientVars

\* The rest of the daemon's steps: no frame, and the runtime does not begin.
LEMMA DaemonRest ==
  ASSUME HubTypeOK, DaemonNext, ~ \E payload \in Payloads : Publication(payload)
  PROVE  /\ UNCHANGED <<outgoing, published>> /\ subscribers' \subseteq subscribers
         /\ activeRuntimes'[Session] = Followed => activeRuntimes[Session] = Followed
BY FollowedAssumption, NoRuntimeAssumption
DEF HubTypeOK, DaemonNext, ConnectionLost, StartedElsewhere, EndedElsewhere, DaemonRestart,
    Unsubscribe, BeginRuntime, EndRuntime, Restart

LEMMA FramesStep ==
  ASSUME HubTypeOK, DeliveryTypeOK, HubFollowsPublished, ConnectionsInOrder,
         FramesArePublished, [DeliveryNext]_deliveryVars
  PROVE  FramesArePublished'
<1>1. /\ \A c \in Connections : outgoing[c][Session] \in Seq(Event) /\ received[c] \in Nat
                               /\ lastSequence[c] \in Cursor
      /\ published \in Seq(Event) /\ Len(published) \in Nat
  BY FollowedAssumption, LenProperties DEF HubTypeOK, DeliveryTypeOK
<1>2. \A event : IsPublished(event) => IsPublished(event)'
  BY <1>1, PublishedStays
<1>3. \A c \in Connections : ClientSequence(c) \in Nat
  BY <1>1 DEF ClientSequence, Cursor
\* A cursor stays within a history that grows.
<1>4. ASSUME NEW c \in Connections, lastSequence'[c] = lastSequence[c]
      PROVE  /\ ClientSequence(c)' <= Len(published')
             /\ ClientSequence(c)' > 0 =>
                  lastSequence'[c].epoch = published'[ClientSequence(c)'].epoch
  <2>1. /\ Len(published) <= Len(published') /\ Len(published') \in Nat
        /\ \A i \in 1..Len(published) : published'[i] = published[i]
    BY <1>1, HistoryGrows
  <2>2. /\ ClientSequence(c) <= Len(published)
        /\ ClientSequence(c) > 0 => lastSequence[c].epoch = published[ClientSequence(c)].epoch
    BY DEF FramesArePublished
  <2>3. ClientSequence(c)' = ClientSequence(c)
    BY <1>4 DEF ClientSequence
  <2>4. ClientSequence(c) > 0 => published'[ClientSequence(c)] = published[ClientSequence(c)]
    BY <1>1, <1>3, <2>1, <2>2
  <2> QED  BY <1>1, <1>3, <1>4, <2>1, <2>2, <2>3, <2>4
<1>5. CASE UNCHANGED <<received, lastSequence, outgoing>>
  BY <1>2, <1>4, <1>5 DEF FramesArePublished, Frames
<1>6. ASSUME NEW payload \in Payloads, Publication(payload)  PROVE FramesArePublished'
  <2>1. PICK event \in Event :
           /\ event.sequence = Len(published) + 1
           /\ Len(published') = Len(published) + 1
           /\ published'[Len(published) + 1] = event
           /\ outgoing' = [c \in Connections |->
                             IF c \in subscribers
                               THEN [outgoing[c] EXCEPT ![Session] = Append(@, event)]
                               ELSE outgoing[c]]
    BY <1>6, PublicationAppends
  <2>2. UNCHANGED <<received, lastSequence>>
    BY <1>6, DaemonFrame DEF DaemonNext, clientVars
  <2>3. IsPublished(event)'
    BY <1>1, <2>1 DEF IsPublished
  <2>4. ASSUME NEW c \in Connections
        PROVE  /\ received[c] <= Len(Frames(c)')
               /\ \A i \in 1..Len(Frames(c)') : IsPublished(Frames(c)[i])'
    <3>1. received[c] <= Len(Frames(c)) /\ \A i \in 1..Len(Frames(c)) : IsPublished(Frames(c)[i])
      BY DEF FramesArePublished
    <3>2. CASE c \notin subscribers
      <4>1. Frames(c)' = Frames(c)
        BY <2>1, <3>2 DEF Frames
      <4>2. \A i \in 1..Len(Frames(c)) : IsPublished(Frames(c)[i])'
        BY <1>2, <3>1, <4>1
      <4> QED  BY <3>1, <4>1, <4>2 DEF IsPublished
    <3>3. CASE c \in subscribers
      <4>1. Frames(c)' = Append(Frames(c), event)
        BY <2>1, <3>3, FollowedAssumption DEF Frames, HubTypeOK
      <4>2. /\ Len(Frames(c)) \in Nat /\ Len(Frames(c)') = Len(Frames(c)) + 1
            /\ Frames(c)'[Len(Frames(c)) + 1] = event
            /\ \A k \in 1..Len(Frames(c)) : Frames(c)'[k] = Frames(c)[k]
            /\ \A k \in 1..Len(Frames(c)') : k \in 1..Len(Frames(c)) \/ k = Len(Frames(c)) + 1
        BY <1>1, <4>1, AppendFacts DEF Frames
      <4>3. \A i \in 1..Len(Frames(c)') :
              \E f : f = Frames(c)'[i] /\ (f = event \/ IsPublished(f))
        BY <3>1, <4>2
      <4>4. \A i \in 1..Len(Frames(c)') : IsPublished(Frames(c)[i])'
        BY <1>2, <2>3, <4>3 DEF IsPublished
      <4> QED  BY <1>1, <3>1, <4>2, <4>4
    <3> QED  BY <3>2, <3>3
  <2> QED  BY <1>4, <2>2, <2>4 DEF FramesArePublished
<1>7. ASSUME NEW c \in Connections, ReadFrame(c)  PROVE FramesArePublished'
  <2>1. PICK event \in Event :
           /\ received[c] + 1 \in 1..Len(Frames(c)) /\ event = Frames(c)[received[c] + 1]
           /\ IsPublished(event)
           /\ received' = [received EXCEPT ![c] = received[c] + 1]
           /\ \/ lastSequence' = [lastSequence EXCEPT
                   ![c] = [epoch |-> event.epoch, sequence |-> event.sequence]]
              \/ UNCHANGED lastSequence
           /\ UNCHANGED <<hubVars, published>>
    BY <1>7, ReadFacts
  <2>2. \A d \in Connections : received'[d] <= Len(Frames(d)')
    <3>1. \A d \in Connections : Frames(d)' = Frames(d) /\ received[d] <= Len(Frames(d))
      BY <2>1 DEF FramesArePublished, Frames, hubVars
    <3>2. received \in [Connections -> Nat]
      BY DEF DeliveryTypeOK
    <3>3. received[c] + 1 <= Len(Frames(c))
      BY <2>1, <3>2
    <3>4. \A d \in Connections : received'[d] = IF d = c THEN received[c] + 1 ELSE received[d]
      BY <2>1, <3>2
    <3> QED  BY <3>1, <3>3, <3>4
  <2>3. \A d \in Connections : \A i \in 1..Len(Frames(d)') : IsPublished(Frames(d)[i])'
    BY <2>1 DEF FramesArePublished, Frames, hubVars, IsPublished
  <2>4. ASSUME NEW d \in Connections
        PROVE  /\ ClientSequence(d)' <= Len(published')
               /\ ClientSequence(d)' > 0 =>
                    lastSequence'[d].epoch = published'[ClientSequence(d)'].epoch
    <3>1. CASE lastSequence'[d] = lastSequence[d]
      BY <1>4, <3>1
    <3>2. CASE lastSequence'[d] = [epoch |-> event.epoch, sequence |-> event.sequence]
      BY <2>1, <3>2 DEF ClientSequence, IsPublished
    <3> QED  BY <2>1, <3>1, <3>2 DEF DeliveryTypeOK
  <2> QED  BY <2>2, <2>3, <2>4 DEF FramesArePublished
<1>8. ASSUME NEW c \in Connections, ConnectionNext(c)  PROVE FramesArePublished'
  <2>1. /\ UNCHANGED <<received, published>> /\ c \in Connections \ opened
        /\ \A d \in Connections : d # c => outgoing'[d] = outgoing[d]
    BY <1>8, NewConnection
  <2>2. received[c] = 0
    BY <2>1 DEF ConnectionsInOrder
  <2>3. lastSequence' = [lastSequence EXCEPT ![c] = ResumeCursor]
    BY <1>8, NewFrames
  <2>4. PICK b \in 0..Len(published) :
              /\ Len(Frames(c)') = Len(published) - b
              /\ \A i \in 1..Len(Frames(c)') : Frames(c)'[i] = published[b + i]
    BY <1>8, NewFrames
  <2>5. ASSUME NEW i \in 1..Len(Frames(c)')  PROVE IsPublished(Frames(c)[i])'
    <3>1. b + i \in 1..Len(published) /\ Frames(c)'[i] = published[b + i]
      BY <1>1, <2>4
    <3>2. published[b + i].sequence = b + i
      BY <3>1 DEF HubFollowsPublished
    <3> QED  BY <2>1, <3>1, <3>2 DEF IsPublished
  <2>6. \A d \in Connections : received'[d] <= Len(Frames(d)')
    BY <1>1, <2>1, <2>2, <2>4 DEF FramesArePublished, Frames
  <2>7. \A d \in Connections : \A i \in 1..Len(Frames(d)') : IsPublished(Frames(d)[i])'
    BY <2>1, <2>5 DEF FramesArePublished, Frames, IsPublished
  <2>8. ASSUME NEW d \in Connections
        PROVE  /\ ClientSequence(d)' <= Len(published')
               /\ ClientSequence(d)' > 0 =>
                    lastSequence'[d].epoch = published'[ClientSequence(d)'].epoch
    <3>1. CASE lastSequence'[d] = lastSequence[d]
      BY <1>4, <3>1
    <3>2. CASE lastSequence'[d] = NoCursor
      BY <1>1, <2>1, <3>2 DEF ClientSequence, NoCursor
    <3>3. CASE target \in Connections /\ lastSequence'[d] = lastSequence[target]
      <4>1. /\ lastSequence[target].sequence <= Len(published)
            /\ lastSequence[target].sequence > 0 =>
                 lastSequence[target].epoch = published[lastSequence[target].sequence].epoch
        BY <3>3 DEF FramesArePublished, ClientSequence
      <4> QED  BY <2>1, <3>3, <4>1 DEF ClientSequence
    <3> QED  BY <2>3, <3>1, <3>2, <3>3, ResumeCursorValue DEF DeliveryTypeOK
  <2> QED  BY <2>6, <2>7, <2>8 DEF FramesArePublished
<1>9. CASE DaemonNext
  <2>1. UNCHANGED <<received, lastSequence>>
    BY <1>9, DaemonFrame DEF clientVars
  <2> QED  BY <1>5, <1>6, <1>9, <2>1, DaemonRest
<1>10. CASE ThreadNext
  BY <1>5, <1>7, <1>10, OnlyReadFrameReads, ThreadFrame DEF hubVars
<1>11. CASE StartRuntime
  BY <1>5, <1>11 DEF StartRuntime, BeginRuntime, clientVars
<1>12. CASE UNCHANGED deliveryVars
  BY <1>5, <1>12 DEF deliveryVars, hubVars, clientVars
<1> QED  BY <1>8, <1>9, <1>10, <1>11, <1>12, NextByParts

-----------------------------------------------------------------------------
(* No event is missing before an unread frame. *)

LEMMA UnreadStep ==
  ASSUME HubTypeOK, DeliveryTypeOK, HubFollowsPublished, ConnectionsInOrder,
         FramesArePublished, UnreadWithoutGap, [DeliveryNext]_deliveryVars
  PROVE  UnreadWithoutGap'
<1>1. /\ \A c \in Connections : /\ outgoing[c][Session] \in Seq(Event) /\ received[c] \in Nat
                                /\ Len(Frames(c)) \in Nat /\ lastSequence[c] \in Cursor
      /\ published \in Seq(Event) /\ Len(published) \in Nat
      /\ subscribers \subseteq Connections
  <2>1. \A c \in Connections : outgoing[c][Session] \in Seq(Event)
    BY FollowedAssumption DEF HubTypeOK
  <2>2. published \in Seq(Event) /\ subscribers \subseteq Connections
    BY DEF HubTypeOK, DeliveryTypeOK
  <2>3. \A c \in Connections : received[c] \in Nat /\ lastSequence[c] \in Cursor
    BY DEF DeliveryTypeOK
  <2> QED  BY <2>1, <2>2, <2>3, LenProperties DEF Frames
<1>2. \A c \in Connections : ClientSequence(c) \in Nat
  BY <1>1 DEF ClientSequence, Cursor
<1>3. lost \subseteq lost'
  BY <1>1, HistoryGrows
\* What was seen or unread stays so when frames are only added.
<1>4. ASSUME NEW c \in Connections, UNCHANGED received, lastSequence'[c] = lastSequence[c],
             Len(Frames(c)) <= Len(Frames(c)'),
             \A i \in 1..Len(Frames(c)) : Frames(c)'[i] = Frames(c)[i]
      PROVE  \A n, end \in Nat : end <= Len(Frames(c)) + 1 =>
               (SeenOrUnread(c, n, end) => SeenOrUnread(c, n, end)')
  <2> SUFFICES ASSUME NEW n \in Nat, NEW end \in Nat, end <= Len(Frames(c)) + 1,
                      SeenOrUnread(c, n, end)
               PROVE  SeenOrUnread(c, n, end)'
    OBVIOUS
  <2>1. CASE n <= ClientSequence(c) \/ n \in lost
    BY <1>3, <1>4, <2>1 DEF SeenOrUnread, ClientSequence
  <2>2. ASSUME NEW j \in (received[c] + 1)..(end - 1), Frames(c)[j].sequence = n
        PROVE  SeenOrUnread(c, n, end)'
    <3>1. j \in 1..Len(Frames(c)) /\ Frames(c)'[j].sequence = n
      BY <1>1, <1>4, <2>2
    <3> QED  BY <1>4, <3>1 DEF SeenOrUnread
  <2> QED  BY <2>1, <2>2 DEF SeenOrUnread
<1>5. ASSUME UNCHANGED <<received, lastSequence, outgoing>>, subscribers' \subseteq subscribers,
             \/ UNCHANGED published /\
                  (activeRuntimes'[Session] = Followed => activeRuntimes[Session] = Followed)
             \/ published' = << >>
      PROVE  UnreadWithoutGap'
  <2>1. \A c \in Connections : Frames(c)' = Frames(c)
    BY <1>5 DEF Frames
  <2>2. \A c \in Connections : \A n, end \in Nat : end <= Len(Frames(c)) + 1 =>
               (SeenOrUnread(c, n, end) => SeenOrUnread(c, n, end)')
    <3> SUFFICES ASSUME NEW c \in Connections
                 PROVE  \A n, end \in Nat : end <= Len(Frames(c)) + 1 =>
                          (SeenOrUnread(c, n, end) => SeenOrUnread(c, n, end)')
      OBVIOUS
    <3>1. UNCHANGED received /\ lastSequence'[c] = lastSequence[c] /\ Frames(c)' = Frames(c)
      BY <1>5, <2>1
    <3>2. Len(Frames(c)) \in Nat /\ Len(Frames(c)) <= Len(Frames(c)')
      BY <1>1, <3>1
    <3>3. \A i \in 1..Len(Frames(c)) : Frames(c)'[i] = Frames(c)[i]
      BY <3>1
    <3> QED  BY <1>4, <3>1, <3>2, <3>3
  <2>3. ASSUME NEW c \in Connections, NEW i \in (received[c] + 1)..Len(Frames(c)),
               NEW n \in 1..(Frames(c)[i].sequence - 1)
        PROVE  SeenOrUnread(c, n, i)'
    <3>1. i \in Nat /\ i <= Len(Frames(c)) + 1 /\ n \in Nat
      BY <1>1
    <3>2. SeenOrUnread(c, n, i)
      BY DEF UnreadWithoutGap
    <3> QED  BY <2>2, <3>1, <3>2
  <2>4. ASSUME NEW c \in subscribers', activeRuntimes'[Session] = Followed,
               NEW n \in 1..Len(published')
        PROVE  SeenOrUnread(c, n, Len(Frames(c)) + 1)'
    <3>1. UNCHANGED published /\ activeRuntimes[Session] = Followed
      BY <1>5, <2>4
    <3>2. c \in subscribers /\ n \in 1..Len(published)
      BY <1>5, <3>1
    <3>3. SeenOrUnread(c, n, Len(Frames(c)) + 1)
      BY <3>1, <3>2 DEF UnreadWithoutGap
    <3>4. c \in Connections /\ n \in Nat /\ Len(Frames(c)) + 1 \in Nat
      BY <1>1, <3>2
    <3>5. PICK end \in Nat : end = Len(Frames(c)) + 1
      BY <3>4
    <3>6. SeenOrUnread(c, n, end)'
      BY <1>1, <2>2, <3>3, <3>4, <3>5
    <3> QED  BY <2>1, <3>4, <3>5, <3>6 DEF SeenOrUnread
  <2> QED  BY <1>5, <2>1, <2>3, <2>4 DEF UnreadWithoutGap
<1>6. ASSUME NEW payload \in Payloads, Publication(payload)  PROVE UnreadWithoutGap'
  <2>1. PICK event \in Event :
           /\ event.sequence = Len(published) + 1
           /\ Len(published') = Len(published) + 1
           /\ activeRuntimes[Session] = Followed
           /\ outgoing' = [c \in Connections |->
                             IF c \in subscribers
                               THEN [outgoing[c] EXCEPT ![Session] = Append(@, event)]
                               ELSE outgoing[c]]
           /\ UNCHANGED <<activeRuntimes, subscribers>>
    BY <1>6, PublicationAppends
  <2>2. UNCHANGED <<received, lastSequence>>
    BY <1>6, DaemonFrame DEF DaemonNext, clientVars
  <2>3. ASSUME NEW c \in Connections
        PROVE  /\ \/ c \notin subscribers /\ Frames(c)' = Frames(c)
                  \/ /\ c \in subscribers /\ Len(Frames(c)') = Len(Frames(c)) + 1
                     /\ Frames(c)'[Len(Frames(c)) + 1] = event
               /\ Len(Frames(c)) <= Len(Frames(c)')
               /\ \A i \in 1..Len(Frames(c)) : Frames(c)'[i] = Frames(c)[i]
    <3>1. c \notin subscribers => Frames(c)' = Frames(c)
      BY <2>1 DEF Frames
    <3>2. c \in subscribers => Frames(c)' = Append(Frames(c), event)
      BY <2>1, FollowedAssumption DEF Frames, HubTypeOK
    <3>3. /\ Len(Append(Frames(c), event)) = Len(Frames(c)) + 1
          /\ Append(Frames(c), event)[Len(Frames(c)) + 1] = event
          /\ \A k \in 1..Len(Frames(c)) : Append(Frames(c), event)[k] = Frames(c)[k]
      BY <1>1, AppendFacts DEF Frames
    <3> QED  BY <1>1, <3>1, <3>2, <3>3
  <2>4. \A c \in Connections : \A n, end \in Nat : end <= Len(Frames(c)) + 1 =>
               (SeenOrUnread(c, n, end) => SeenOrUnread(c, n, end)')
    BY <1>4, <2>2, <2>3
  <2>5. ASSUME NEW c \in Connections, NEW i \in (received[c] + 1)..Len(Frames(c)'),
               NEW n \in 1..(Frames(c)'[i].sequence - 1)
        PROVE  SeenOrUnread(c, n, i)'
    <3>1. n \in Nat /\ i \in Nat
      BY <1>1
    <3>2. CASE i <= Len(Frames(c))
      <4>1. i \in (received[c] + 1)..Len(Frames(c)) /\ Frames(c)'[i] = Frames(c)[i]
        BY <1>1, <2>3, <3>2
      <4>2. SeenOrUnread(c, n, i)
        BY <4>1 DEF UnreadWithoutGap
      <4> QED  BY <1>1, <2>4, <3>1, <3>2, <4>2
    <3>3. CASE i > Len(Frames(c))
      <4>1. c \in subscribers /\ i = Len(Frames(c)) + 1 /\ Frames(c)'[i] = event
        BY <1>1, <2>3, <3>3
      <4>2. n \in 1..Len(published)
        BY <1>1, <2>1, <4>1
      <4>3. SeenOrUnread(c, n, i)
        BY <2>1, <4>1, <4>2 DEF UnreadWithoutGap
      <4> QED  BY <1>1, <2>4, <3>1, <4>1, <4>3
    <3> QED  BY <1>1, <3>1, <3>2, <3>3
  <2>6. ASSUME NEW c \in subscribers, NEW n \in 1..Len(published')
        PROVE  SeenOrUnread(c, n, Len(Frames(c)) + 1)'
    <3>1. c \in Connections /\ Len(Frames(c)') = Len(Frames(c)) + 1
          /\ Frames(c)'[Len(Frames(c)) + 1] = event
      BY <1>1, <2>3
    <3>2. CASE n = Len(published) + 1
      <4>1. Frames(c)'[Len(Frames(c)')].sequence = n
        BY <2>1, <3>1, <3>2
      <4>2. received'[c] = received[c] /\ received[c] <= Len(Frames(c))
        BY <1>1, <2>2, <3>1 DEF FramesArePublished
      <4>3. Len(Frames(c)') \in (received'[c] + 1)..((Len(Frames(c)') + 1) - 1)
        BY <1>1, <3>1, <4>2
      <4> QED  BY <4>1, <4>3 DEF SeenOrUnread
    <3>3. CASE n # Len(published) + 1
      <4>1. n \in 1..Len(published)
        BY <1>1, <2>1, <3>3
      <4>2. SeenOrUnread(c, n, Len(Frames(c)) + 1)
        BY <2>1, <4>1 DEF UnreadWithoutGap
      <4>3. PICK end \in Nat : end = Len(Frames(c)) + 1
        BY <1>1, <3>1
      <4>6. n \in Nat /\ end <= Len(Frames(c)) + 1 /\ SeenOrUnread(c, n, end)
        BY <4>1, <4>2, <4>3
      <4>4. SeenOrUnread(c, n, end)'
        BY <2>4, <3>1, <4>3, <4>6
      <4>5. (received'[c] + 1)..(end - 1) \subseteq
              (received'[c] + 1)..((Len(Frames(c)') + 1) - 1)
        BY <1>1, <2>2, <3>1, <4>3
      <4> QED  BY <4>4, <4>5 DEF SeenOrUnread
    <3> QED  BY <3>2, <3>3
  <2> QED  BY <2>1, <2>2, <2>5, <2>6 DEF UnreadWithoutGap
<1>7. ASSUME NEW c \in Connections, ReadFrame(c)  PROVE UnreadWithoutGap'
  <2>1. PICK event \in Event :
           /\ received[c] + 1 \in 1..Len(Frames(c)) /\ event = Frames(c)[received[c] + 1]
           /\ received' = [received EXCEPT ![c] = received[c] + 1]
           /\ event.sequence > ClientSequence(c) => lastSequence' = [lastSequence EXCEPT
                     ![c] = [epoch |-> event.epoch, sequence |-> event.sequence]]
           /\ ~ (event.sequence > ClientSequence(c)) => UNCHANGED lastSequence
           /\ UNCHANGED <<hubVars, published>>
    BY <1>7, ReadFacts
  <2>2. event.sequence \in Nat
    BY DEF Event
  <2>3. /\ UNCHANGED <<outgoing, subscribers, activeRuntimes, published>>
        /\ \A d \in Connections : Frames(d)' = Frames(d)
    BY <2>1 DEF hubVars, Frames
  <2>4. /\ received'[c] = received[c] + 1
        /\ \A d \in Connections : d # c =>
             received'[d] = received[d] /\ lastSequence'[d] = lastSequence[d]
    BY <2>1 DEF DeliveryTypeOK
  <2>5. ClientSequence(c)' \in Nat /\ ClientSequence(c) <= ClientSequence(c)'
        /\ event.sequence <= ClientSequence(c)'
    <3>1. CASE event.sequence > ClientSequence(c)
      <4>1. ClientSequence(c)' = event.sequence
        BY <2>1, <3>1 DEF ClientSequence, DeliveryTypeOK
      <4> QED  BY <1>2, <2>2, <3>1, <4>1
    <3>2. CASE ~ (event.sequence > ClientSequence(c))
      BY <1>2, <2>1, <2>2, <3>2 DEF ClientSequence
    <3> QED  BY <3>1, <3>2
  <2>6. ASSUME NEW d \in Connections, NEW n \in Nat, NEW end \in Nat, SeenOrUnread(d, n, end)
        PROVE  SeenOrUnread(d, n, end)'
    <3>1. CASE n \in lost
      BY <1>3, <3>1 DEF SeenOrUnread
    <3>2. CASE d # c
      BY <1>3, <2>3, <2>4, <2>6, <3>2 DEF SeenOrUnread, ClientSequence
    <3>3. CASE d = c /\ n <= ClientSequence(c)
      <4>1. n <= ClientSequence(c)'
        BY <1>2, <2>5, <3>3
      <4> QED  BY <3>3, <4>1 DEF SeenOrUnread
    <3>4. ASSUME d = c, NEW j \in (received[c] + 1)..(end - 1), Frames(c)[j].sequence = n
          PROVE  SeenOrUnread(d, n, end)'
      <4>1. CASE j = received[c] + 1
        <5>1. n = event.sequence
          BY <2>1, <3>4, <4>1
        <5>2. n <= ClientSequence(d)'
          BY <2>5, <3>4, <5>1
        <5> QED  BY <5>2 DEF SeenOrUnread
      <4>2. CASE j # received[c] + 1
        <5>1. j \in (received'[c] + 1)..(end - 1) /\ Frames(c)'[j].sequence = n
          BY <1>1, <2>3, <2>4, <3>4, <4>2
        <5> QED  BY <3>4, <5>1 DEF SeenOrUnread
      <4> QED  BY <4>1, <4>2
    <3> QED  BY <2>6, <3>1, <3>2, <3>3, <3>4 DEF SeenOrUnread
  <2>7. ASSUME NEW d \in Connections, NEW i \in (received'[d] + 1)..Len(Frames(d)),
               NEW n \in 1..(Frames(d)[i].sequence - 1)
        PROVE  SeenOrUnread(d, n, i)'
    <3>1. i \in (received[d] + 1)..Len(Frames(d)) /\ i \in Nat /\ n \in Nat
      BY <1>1, <2>4
    <3>2. SeenOrUnread(d, n, i)
      BY <3>1 DEF UnreadWithoutGap
    <3> QED  BY <2>6, <3>1, <3>2
  <2>8. ASSUME NEW d \in subscribers, activeRuntimes[Session] = Followed,
               NEW n \in 1..Len(published)
        PROVE  SeenOrUnread(d, n, Len(Frames(d)) + 1)'
    <3>1. SeenOrUnread(d, n, Len(Frames(d)) + 1)
      BY <2>8 DEF UnreadWithoutGap
    <3>2. PICK end \in Nat : end = Len(Frames(d)) + 1
      BY <1>1
    <3>3. SeenOrUnread(d, n, end)'
      BY <1>1, <2>6, <3>1, <3>2
    <3> QED  BY <1>1, <2>3, <3>2, <3>3 DEF SeenOrUnread
  <2> QED  BY <2>3, <2>7, <2>8 DEF UnreadWithoutGap
<1>8. ASSUME NEW c \in Connections, ConnectionNext(c)  PROVE UnreadWithoutGap'
  <2>1. /\ UNCHANGED <<received, published, activeRuntimes>> /\ c \in Connections \ opened
        /\ subscribers' = subscribers \cup {c}
        /\ \A d \in Connections : d # c => outgoing'[d] = outgoing[d]
    BY <1>8, NewConnection
  <2>2. received[c] = 0 /\ Len(Frames(c)) = 0
    BY <2>1 DEF ConnectionsInOrder
  <2>3. lastSequence' = [lastSequence EXCEPT ![c] = ResumeCursor] /\ Frames(c)' \in Seq(Event)
    BY <1>8, NewFrames
  <2>4. PICK b \in 0..Len(published) :
              /\ Len(Frames(c)') = Len(published) - b
              /\ \A i \in 1..Len(Frames(c)') : Frames(c)'[i] = published[b + i]
              /\ activeRuntimes[Session] = Followed =>
                   \A m \in 1..b : m <= ResumeCursor.sequence \/ m \in lost'
    BY <1>8, NewFrames
  <2>5. ClientSequence(c)' = ResumeCursor.sequence
    BY <2>3 DEF ClientSequence, DeliveryTypeOK
  <2>6. Frames(c)' # << >> => activeRuntimes[Session] = Followed
    BY <1>8, NewFrames
  <2>7. \A i \in 1..Len(Frames(c)') : Frames(c)'[i].sequence = b + i
    <3> SUFFICES ASSUME NEW i \in 1..Len(Frames(c)')  PROVE Frames(c)'[i].sequence = b + i
      OBVIOUS
    <3>1. b + i \in 1..Len(published)
      BY <1>1, <2>4
    <3> QED  BY <2>4, <3>1 DEF HubFollowsPublished
  <2>8. ASSUME activeRuntimes[Session] = Followed, NEW end \in Nat, end <= Len(Frames(c)') + 1,
               NEW n \in Nat, 0 < n, n < b + end
        PROVE  SeenOrUnread(c, n, end)'
    <3>1. CASE n <= b
      BY <2>4, <2>5, <2>8, <3>1 DEF SeenOrUnread
    <3>2. CASE n > b
      <4>1. n - b \in 1..(end - 1) /\ n - b \in 1..Len(Frames(c)') /\ b + (n - b) = n
        BY <1>1, <2>4, <2>8, <3>2
      <4>2. Frames(c)'[n - b].sequence = n
        BY <2>7, <4>1
      <4>3. n - b \in (received'[c] + 1)..(end - 1)
        BY <2>1, <2>2, <4>1
      <4> QED  BY <4>2, <4>3 DEF SeenOrUnread
    <3> QED  BY <3>1, <3>2
  <2>9. ASSUME NEW d \in Connections, d # c
        PROVE  \A n, end \in Nat : end <= Len(Frames(d)) + 1 =>
               (SeenOrUnread(d, n, end) => SeenOrUnread(d, n, end)')
    <3>1. Frames(d)' = Frames(d) /\ lastSequence'[d] = lastSequence[d] /\ UNCHANGED received
      BY <2>1, <2>3, <2>9 DEF Frames, DeliveryTypeOK
    <3> QED  BY <1>1, <1>4, <3>1
  <2>10. ASSUME NEW d \in Connections, NEW i \in (received'[d] + 1)..Len(Frames(d)'),
                NEW n \in 1..(Frames(d)'[i].sequence - 1)
         PROVE  SeenOrUnread(d, n, i)'
    <3>1. CASE d = c
      <4>1. /\ i \in 1..Len(Frames(c)') /\ Frames(c)'[i].sequence = b + i
            /\ Frames(c)' # << >> /\ Len(Frames(c)') \in Nat
        BY <1>1, <2>1, <2>2, <2>4, <2>7, <3>1
      <4>2. i \in Nat /\ i <= Len(Frames(c)') + 1 /\ n \in Nat /\ 0 < n /\ n < b + i
        BY <3>1, <4>1
      <4>3. activeRuntimes[Session] = Followed
        BY <2>6, <4>1
      <4> QED  BY <2>8, <3>1, <4>2, <4>3
    <3>2. CASE d # c
      <4>1. Frames(d)' = Frames(d) /\ received'[d] = received[d]
        BY <2>1, <3>2 DEF Frames
      <4>2. SeenOrUnread(d, n, i)
        BY <4>1 DEF UnreadWithoutGap
      <4>3. i \in Nat /\ i <= Len(Frames(d)) + 1 /\ n \in Nat
        BY <1>1, <4>1
      <4> QED  BY <2>9, <3>2, <4>2, <4>3
    <3> QED  BY <3>1, <3>2
  <2>11. ASSUME NEW d \in subscribers', activeRuntimes'[Session] = Followed,
                NEW n \in 1..Len(published')
         PROVE  SeenOrUnread(d, n, Len(Frames(d)) + 1)'
    <3>1. activeRuntimes[Session] = Followed /\ n \in 1..Len(published) /\ n \in Nat
      BY <1>1, <2>1, <2>11
    <3>2. CASE d = c
      <4>1. PICK end \in Nat : end = Len(Frames(c)') + 1
        BY <1>1, <2>4
      <4>2. end <= Len(Frames(c)') + 1 /\ 0 < n /\ n < b + end
        BY <1>1, <2>4, <3>1, <4>1
      <4>3. SeenOrUnread(c, n, end)'
        BY <2>8, <3>1, <4>2
      <4> QED  BY <3>2, <4>1, <4>3 DEF SeenOrUnread
    <3>3. CASE d # c
      <4>1. d \in subscribers /\ d \in Connections
        BY <1>1, <2>1, <3>3
      <4>2. SeenOrUnread(d, n, Len(Frames(d)) + 1)
        BY <3>1, <4>1 DEF UnreadWithoutGap
      <4>3. PICK end \in Nat : end = Len(Frames(d)) + 1
        BY <1>1, <4>1
      <4>4. SeenOrUnread(d, n, end)'
        BY <1>1, <2>9, <3>1, <3>3, <4>1, <4>2, <4>3
      <4>5. Frames(d)' = Frames(d)
        BY <2>1, <3>3, <4>1 DEF Frames
      <4> QED  BY <4>3, <4>4, <4>5 DEF SeenOrUnread
    <3> QED  BY <3>2, <3>3
  <2> QED  BY <2>10, <2>11 DEF UnreadWithoutGap
<1>9. CASE DaemonNext
  <2>1. UNCHANGED <<received, lastSequence>>
    BY <1>9, DaemonFrame DEF clientVars
  <2>2. ASSUME ~ \E payload \in Payloads : Publication(payload)  PROVE UnreadWithoutGap'
    <3>1. /\ UNCHANGED <<outgoing, published>> /\ subscribers' \subseteq subscribers
          /\ activeRuntimes'[Session] = Followed => activeRuntimes[Session] = Followed
      BY <1>9, <2>2, DaemonRest
    <3> QED  BY <1>5, <2>1, <3>1
  <2> QED  BY <1>6, <2>2
<1>10. CASE ThreadNext
  <2>1. CASE UNCHANGED <<received, lastSequence>>
    BY <1>5, <1>10, <2>1, ThreadFrame DEF hubVars
  <2> QED  BY <1>7, <1>10, <2>1, OnlyReadFrameReads
<1>11. CASE StartRuntime
  <2>1. UNCHANGED <<received, lastSequence, outgoing, subscribers, published>> /\ forwarder = "idle"
    BY <1>11 DEF StartRuntime, BeginRuntime, clientVars
  <2>2. published' = << >>
    BY <2>1 DEF HubFollowsPublished
  <2> QED  BY <1>5, <2>1, <2>2
<1>12. CASE UNCHANGED deliveryVars
  BY <1>5, <1>12 DEF deliveryVars, hubVars, clientVars
<1> QED  BY <1>8, <1>9, <1>10, <1>11, <1>12, NextByParts

-----------------------------------------------------------------------------
(* What the clients hold. *)

\* Apart from these three, the threads leave what is held and delivered alone.
LEMMA HoldingSteps ==
  ASSUME DeliveryTypeOK, ThreadNext
  PROVE  \/ \E c \in Connections : ReadFrame(c)
         \/ ForwarderSubscribes \/ ForwardEvent
         \/ /\ UNCHANGED <<channel, pendingEvents, lastSequence, lost, delivered, source>>
            /\ \A c \in Connections : subscribed'[c] => subscribed[c]
<1>1. subscribed \in [Connections -> BOOLEAN]
  BY DEF DeliveryTypeOK
<1>2. ASSUME NEW c \in Connections, ReaderStops(c) \/ ReaderDrains(c)
      PROVE  /\ UNCHANGED <<channel, pendingEvents, lastSequence, lost, delivered, source>>
             /\ \A d \in Connections : subscribed'[d] => subscribed[d]
  BY <1>1, <1>2 DEF ReaderStops, ReaderDrains, handleVars
<1>3. ASSUME InstallTarget \/ PublishReplacement \/ StartAnswered \/ StartFailed
               \/ RegisterForUpdates \/ TakeUpdate \/ AttachAnswered \/ AttachFailed
               \/ ForwarderShutsDown
      PROVE  UNCHANGED <<channel, pendingEvents, lastSequence, lost, delivered, source, subscribed>>
  BY <1>3 DEF InstallTarget, PublishReplacement, StartAnswered, StartFailed, RegisterForUpdates,
              TakeUpdate, AttachAnswered, AttachFailed, ForwarderShutsDown, clientVars, handleVars
<1>4. ASSUME SourceEnded \/ DropHandle
      PROVE  /\ UNCHANGED <<channel, pendingEvents, lastSequence, lost, delivered, source>>
             /\ \E c : subscribed' = [subscribed EXCEPT ![c] = FALSE]
  BY <1>4 DEF SourceEnded, DropHandle
<1>5. ASSUME SourceEnded \/ DropHandle
      PROVE  \A c \in Connections : subscribed'[c] => subscribed[c]
  BY <1>1, <1>4, <1>5
<1> QED  BY <1>2, <1>3, <1>4, <1>5 DEF ThreadNext, ReaderNext, ForwarderNext

LEMMA IncreasingAppend ==
  ASSUME NEW q \in Seq(Event), NEW event \in Event, Increasing(q),
         \A i \in 1..Len(q) : q[i].sequence < event.sequence
  PROVE  Increasing(Append(q, event))
<1>1. /\ Len(q) \in Nat /\ Len(Append(q, event)) = Len(q) + 1
      /\ Append(q, event)[Len(q) + 1] = event
      /\ \A k \in 1..Len(q) : Append(q, event)[k] = q[k]
      /\ \A k \in 1..Len(Append(q, event)) : k \in 1..Len(q) \/ k = Len(q) + 1
  BY AppendFacts
<1> SUFFICES ASSUME NEW i \in 1..Len(Append(q, event)), NEW j \in 1..Len(Append(q, event)), i < j
             PROVE  Append(q, event)[i].sequence < Append(q, event)[j].sequence
  BY DEF Increasing
<1>2. i \in 1..Len(q)
  BY <1>1
<1> QED  BY <1>1, <1>2 DEF Increasing

LEMMA IncreasingTail ==
  ASSUME NEW q \in Seq(Event), q # << >>, Increasing(q)
  PROVE  /\ Increasing(Tail(q))
         /\ \A i \in 1..Len(Tail(q)) : Head(q).sequence < Tail(q)[i].sequence
BY TailFacts DEF Increasing

\* Every sequence number of a sequence is of one of its events.
LEMMA SequencesOfAppend ==
  ASSUME NEW q \in Seq(Event), NEW event \in Event
  PROVE  SequencesOf(Append(q, event)) = SequencesOf(q) \cup {event.sequence}
<1>1. /\ Len(q) \in Nat /\ Len(Append(q, event)) = Len(q) + 1
      /\ Append(q, event)[Len(q) + 1] = event
      /\ \A k \in 1..Len(q) : Append(q, event)[k] = q[k]
      /\ \A k \in 1..Len(Append(q, event)) : k \in 1..Len(q) \/ k = Len(q) + 1
  BY AppendFacts
<1>2. /\ Len(q) + 1 \in 1..Len(Append(q, event))
      /\ \A k \in 1..Len(q) : k \in 1..Len(Append(q, event))
  BY <1>1
<1> QED  BY <1>1, <1>2 DEF SequencesOf

LEMMA SequencesOfTail ==
  ASSUME NEW q \in Seq(Event), q # << >>
  PROVE  SequencesOf(q) = SequencesOf(Tail(q)) \cup {Head(q).sequence}
<1>1. /\ Head(q) = q[1] /\ 1 \in 1..Len(q) /\ Len(q) \in Nat /\ Len(Tail(q)) = Len(q) - 1
      /\ \A i \in 1..Len(Tail(q)) : i + 1 \in 1..Len(q) /\ Tail(q)[i] = q[i + 1]
  BY TailFacts
<1>2. \A k \in 1..Len(q) : k # 1 => k - 1 \in 1..Len(Tail(q)) /\ Tail(q)[k - 1] = q[k]
  <2> SUFFICES ASSUME NEW k \in 1..Len(q), k # 1
               PROVE  k - 1 \in 1..Len(Tail(q)) /\ Tail(q)[k - 1] = q[k]
    OBVIOUS
  <2>1. k - 1 \in 1..Len(Tail(q)) /\ (k - 1) + 1 = k
    BY <1>1
  <2> QED  BY <1>1, <2>1
<1> QED  BY <1>1, <1>2 DEF SequencesOf

(***************************************************************************)
(* Buffering a newer event keeps the buffer in order and loses nothing     *)
(* that is not counted as lost.                                            *)
(***************************************************************************)
LEMMA BufferFacts ==
  ASSUME DeliveryTypeOK, NEW c \in Connections, NEW event \in Event, Buffer(c, event),
         Increasing(pendingEvents[c]),
         \A i \in 1..Len(pendingEvents[c]) : pendingEvents[c][i].sequence < event.sequence
  PROVE  \E kept \in Seq(Event) :
           /\ pendingEvents' = [pendingEvents EXCEPT ![c] = kept]
           /\ Increasing(kept)
           /\ \A i \in 1..Len(kept) :
                kept[i] = event \/ \E k \in 1..Len(pendingEvents[c]) : kept[i] = pendingEvents[c][k]
           /\ SequencesOf(pendingEvents[c]) \cup {event.sequence} \subseteq
                SequencesOf(kept) \cup lost'
<1> DEFINE buffered == Append(pendingEvents[c], event)
<1>1. pendingEvents[c] \in Seq(Event)
  BY DEF DeliveryTypeOK
<1>2. /\ buffered \in Seq(Event) /\ Increasing(buffered)
      /\ SequencesOf(buffered) = SequencesOf(pendingEvents[c]) \cup {event.sequence}
  BY <1>1, IncreasingAppend, SequencesOfAppend
<1>3. /\ Len(pendingEvents[c]) \in Nat /\ Len(buffered) = Len(pendingEvents[c]) + 1
      /\ \A i \in 1..Len(buffered) :
           buffered[i] = event \/ \E k \in 1..Len(pendingEvents[c]) : buffered[i] = pendingEvents[c][k]
  BY <1>1, AppendFacts
<1>4. IF Len(buffered) > MaxBuffered
        THEN /\ pendingEvents' = [pendingEvents EXCEPT ![c] = Tail(buffered)]
             /\ lost' = lost \cup {Head(buffered).sequence}
        ELSE pendingEvents' = [pendingEvents EXCEPT ![c] = buffered]
  BY DEF Buffer
<1> HIDE DEF buffered
<1>5. buffered # << >>
  BY <1>3
<1>6. CASE Len(buffered) > MaxBuffered
  <2>1. /\ Tail(buffered) \in Seq(Event)
        /\ \A i \in 1..Len(Tail(buffered)) : \E k \in 1..Len(buffered) : Tail(buffered)[i] = buffered[k]
    BY <1>2, <1>5, TailFacts
  <2>2. Increasing(Tail(buffered))
    BY <1>2, <1>5, IncreasingTail
  <2>3. SequencesOf(buffered) \subseteq SequencesOf(Tail(buffered)) \cup lost'
    BY <1>2, <1>4, <1>5, <1>6, SequencesOfTail
  <2>4. PICK kept \in Seq(Event) : kept = Tail(buffered)
    BY <2>1
  <2>5. \A i \in 1..Len(kept) :
           kept[i] = event \/ \E k \in 1..Len(pendingEvents[c]) : kept[i] = pendingEvents[c][k]
    BY <1>3, <2>1, <2>4
  <2>6. pendingEvents' = [pendingEvents EXCEPT ![c] = kept] /\ Increasing(kept)
    BY <1>4, <1>6, <2>2, <2>4
  <2>7. SequencesOf(pendingEvents[c]) \cup {event.sequence} \subseteq SequencesOf(kept) \cup lost'
    BY <1>2, <2>3, <2>4
  <2> QED  BY <2>5, <2>6, <2>7
<1>7. CASE ~ (Len(buffered) > MaxBuffered)
  BY <1>2, <1>3, <1>4, <1>7
<1> QED  BY <1>6, <1>7

\* What is held stays held in order while nothing is added.
LEMMA HeldByKept ==
  ASSUME published \in Seq(Event), [DeliveryNext]_deliveryVars, NEW c, HeldBy(c),
         pendingEvents'[c] = pendingEvents[c], channel'[c] = channel[c],
         lastSequence'[c] = lastSequence[c], subscribed'[c] => subscribed[c]
  PROVE  HeldBy(c)'
<1>1. \A event : IsPublished(event) => IsPublished(event)'
  BY PublishedStays
<1>2. ClientSequence(c)' = ClientSequence(c)
  BY DEF ClientSequence
<1>3. Increasing(pendingEvents[c])' /\ Increasing(channel[c])'
  BY DEF HeldBy, Increasing
<1>4. \A i \in 1..Len(pendingEvents[c]) :
        IsPublished(pendingEvents[c][i])' /\ pendingEvents[c][i].sequence <= ClientSequence(c)
  <2>1. \A i \in 1..Len(pendingEvents[c]) : \E event : event = pendingEvents[c][i]
                /\ IsPublished(event) /\ event.sequence <= ClientSequence(c)
    BY DEF HeldBy
  <2> QED  BY <1>1, <2>1 DEF IsPublished
<1>5. \A i \in 1..Len(channel[c]) :
        IsPublished(channel[c][i])' /\ channel[c][i].sequence <= ClientSequence(c)
  <2>1. \A i \in 1..Len(channel[c]) : \E event : event = channel[c][i]
                /\ IsPublished(event) /\ event.sequence <= ClientSequence(c)
    BY DEF HeldBy
  <2> QED  BY <1>1, <2>1 DEF IsPublished
<1>6. \A i \in 1..Len(channel[c]), j \in 1..Len(pendingEvents[c]) :
       channel[c][i].sequence < pendingEvents[c][j].sequence
  BY DEF HeldBy
<1>7. subscribed'[c] => pendingEvents'[c] = << >>
  BY DEF HeldBy
<1> QED  BY <1>2, <1>3, <1>4, <1>5, <1>6, <1>7 DEF HeldBy, IsPublished

\* Reading news adds it after everything held.
LEMMA HeldByRead ==
  ASSUME HubTypeOK, DeliveryTypeOK, HubFollowsPublished, FramesArePublished,
         NEW c \in Connections, ReadFrame(c), HeldBy(c)
  PROVE  HeldBy(c)'
<1>1. PICK event \in Event :
           /\ IsPublished(event)
           /\ event.sequence > ClientSequence(c) =>
                /\ lastSequence' = [lastSequence EXCEPT
                     ![c] = [epoch |-> event.epoch, sequence |-> event.sequence]]
                /\ subscribed[c] =>
                     /\ channel' = [channel EXCEPT ![c] = Append(channel[c], event)]
                     /\ UNCHANGED <<pendingEvents, lost>>
                /\ ~ subscribed[c] => Buffer(c, event) /\ UNCHANGED channel
           /\ ~ (event.sequence > ClientSequence(c)) =>
                UNCHANGED <<lastSequence, channel, pendingEvents, lost>>
           /\ UNCHANGED <<subscribed, published>>
  BY ReadFacts
<1>2. [DeliveryNext]_deliveryVars
  BY DEF DeliveryNext, ReaderNext
<1>3. /\ published \in Seq(Event) /\ lastSequence[c] \in Cursor
      /\ channel \in [Connections -> Seq(Event)] /\ channel[c] \in Seq(Event)
      /\ pendingEvents[c] \in Seq(Event) /\ pendingEvents \in [Connections -> Seq(Event)]
      /\ lastSequence \in [Connections -> Cursor]
  BY DEF DeliveryTypeOK
<1>4. ClientSequence(c) \in Nat /\ event.sequence \in Nat
  BY <1>3 DEF ClientSequence, Cursor, Event
<1>5. CASE ~ (event.sequence > ClientSequence(c))
  BY <1>1, <1>2, <1>3, <1>5, HeldByKept
<1>6. CASE event.sequence > ClientSequence(c)
  <2>1. ClientSequence(c)' = event.sequence
    BY <1>1, <1>3, <1>6 DEF ClientSequence
  <2>2. \A e : IsPublished(e)' <=> IsPublished(e)
    BY <1>1 DEF IsPublished
  <2>3. \A i \in 1..Len(channel[c]) :
          /\ IsPublished(channel[c][i]) /\ channel[c][i] \in Event
          /\ channel[c][i].sequence < event.sequence
    <3> SUFFICES ASSUME NEW i \in 1..Len(channel[c])
                 PROVE  /\ IsPublished(channel[c][i]) /\ channel[c][i] \in Event
                        /\ channel[c][i].sequence < event.sequence
      OBVIOUS
    <3>1. channel[c][i] \in Event
      BY <1>3, ElementOfSeq
    <3>2. channel[c][i].sequence \in Nat
      BY <3>1 DEF Event
    <3> QED  BY <1>4, <1>6, <3>1, <3>2 DEF HeldBy
  <2>4. \A i \in 1..Len(pendingEvents[c]) :
          /\ IsPublished(pendingEvents[c][i]) /\ pendingEvents[c][i] \in Event
          /\ pendingEvents[c][i].sequence < event.sequence
    <3> SUFFICES ASSUME NEW i \in 1..Len(pendingEvents[c])
                 PROVE  /\ IsPublished(pendingEvents[c][i]) /\ pendingEvents[c][i] \in Event
                        /\ pendingEvents[c][i].sequence < event.sequence
      OBVIOUS
    <3>1. pendingEvents[c][i] \in Event
      BY <1>3, ElementOfSeq
    <3>2. pendingEvents[c][i].sequence \in Nat
      BY <3>1 DEF Event
    <3> QED  BY <1>4, <1>6, <3>1, <3>2 DEF HeldBy
  <2>5. CASE subscribed[c]
    <3>1. /\ channel'[c] = Append(channel[c], event)
          /\ pendingEvents'[c] = << >> /\ Len(pendingEvents'[c]) = 0
      BY <1>1, <1>3, <1>6, <2>5 DEF HeldBy
    <3>2. Increasing(channel[c])' /\ Increasing(pendingEvents[c])'
      <4>1. Increasing(Append(channel[c], event))
        BY <1>3, <2>3, IncreasingAppend DEF HeldBy
      <4> QED  BY <3>1, <4>1 DEF Increasing
    <3>3. /\ Len(channel[c]) \in Nat /\ Len(channel'[c]) = Len(channel[c]) + 1
          /\ channel'[c][Len(channel[c]) + 1] = event
          /\ \A k \in 1..Len(channel[c]) : channel'[c][k] = channel[c][k]
          /\ \A k \in 1..Len(channel'[c]) : k \in 1..Len(channel[c]) \/ k = Len(channel[c]) + 1
      BY <1>3, <3>1, AppendFacts
    <3>4. \A i \in 1..Len(channel'[c]) : \E e \in Event :
            e = channel'[c][i] /\ IsPublished(e)' /\ e.sequence <= event.sequence
      <4> SUFFICES ASSUME NEW i \in 1..Len(channel'[c])
                   PROVE  \E e \in Event :
                            e = channel'[c][i] /\ IsPublished(e)' /\ e.sequence <= event.sequence
        OBVIOUS
      <4>1. CASE i = Len(channel[c]) + 1
        BY <1>1, <1>4, <2>2, <3>3, <4>1
      <4>2. CASE i \in 1..Len(channel[c])
        <5>1. /\ IsPublished(channel[c][i]) /\ channel[c][i] \in Event
              /\ channel[c][i].sequence < event.sequence /\ channel'[c][i] = channel[c][i]
          BY <2>3, <3>3, <4>2
        <5>2. channel[c][i].sequence \in Nat
          BY <5>1 DEF Event
        <5> QED  BY <1>4, <2>2, <5>1, <5>2
      <4> QED  BY <3>3, <4>1, <4>2
    <3>5. \A i \in 1..Len(channel'[c]) :
            IsPublished(channel[c][i])' /\ channel'[c][i].sequence <= ClientSequence(c)'
      BY <2>1, <3>4 DEF IsPublished
    <3> QED  BY <3>1, <3>2, <3>5 DEF HeldBy
  <2>6. CASE ~ subscribed[c]
    <3>1. Buffer(c, event) /\ UNCHANGED <<channel, subscribed>>
      BY <1>1, <1>6, <2>6
    <3>2. Increasing(pendingEvents[c]) /\ Increasing(channel[c])
      BY DEF HeldBy
    <3>3. PICK kept \in Seq(Event) :
           /\ pendingEvents' = [pendingEvents EXCEPT ![c] = kept]
           /\ Increasing(kept)
           /\ \A i \in 1..Len(kept) :
                kept[i] = event \/ \E k \in 1..Len(pendingEvents[c]) : kept[i] = pendingEvents[c][k]
      BY <2>4, <3>1, <3>2, BufferFacts
    <3>4. pendingEvents'[c] = kept
      BY <1>3, <3>3
    <3>5. Increasing(pendingEvents[c])' /\ Increasing(channel[c])'
      BY <3>1, <3>2, <3>3, <3>4 DEF Increasing
    <3>6. \A i \in 1..Len(kept) : IsPublished(kept[i]) /\ kept[i].sequence <= event.sequence
      <4> SUFFICES ASSUME NEW i \in 1..Len(kept)
                   PROVE  IsPublished(kept[i]) /\ kept[i].sequence <= event.sequence
        OBVIOUS
      <4>1. CASE kept[i] = event
        BY <1>1, <1>4, <4>1
      <4>2. ASSUME NEW k \in 1..Len(pendingEvents[c]), kept[i] = pendingEvents[c][k]
            PROVE  IsPublished(kept[i]) /\ kept[i].sequence <= event.sequence
        <5>1. pendingEvents[c][k].sequence \in Nat
          BY <2>4 DEF Event
        <5> QED  BY <1>4, <2>4, <4>2, <5>1
      <4> QED  BY <3>3, <4>1, <4>2
    <3>7. \A i \in 1..Len(pendingEvents'[c]) :
            IsPublished(pendingEvents[c][i])' /\ pendingEvents'[c][i].sequence <= ClientSequence(c)'
      BY <1>1, <2>1, <3>4, <3>6 DEF IsPublished
    <3>8. \A i \in 1..Len(channel'[c]) :
            IsPublished(channel[c][i])' /\ channel'[c][i].sequence <= ClientSequence(c)'
      <4>1. \A i \in 1..Len(channel[c]) :
              IsPublished(channel[c][i]) /\ channel[c][i].sequence <= event.sequence
        BY <1>4, <2>3 DEF Event
      <4> QED  BY <1>1, <2>1, <3>1, <4>1 DEF IsPublished
    <3>9. \A i \in 1..Len(channel'[c]), j \in 1..Len(pendingEvents'[c]) :
            channel'[c][i].sequence < pendingEvents'[c][j].sequence
      <4> SUFFICES ASSUME NEW i \in 1..Len(channel[c]), NEW j \in 1..Len(kept)
                   PROVE  channel[c][i].sequence < kept[j].sequence
        BY <3>1, <3>4
      <4>1. CASE kept[j] = event
        BY <2>3, <4>1
      <4>2. CASE \E k \in 1..Len(pendingEvents[c]) : kept[j] = pendingEvents[c][k]
        BY <4>2 DEF HeldBy
      <4> QED  BY <3>3, <4>1, <4>2
    <3>10. ~ subscribed'[c]
      BY <2>6, <3>1
    <3> QED  BY <3>5, <3>7, <3>8, <3>9, <3>10 DEF HeldBy
  <2> QED  BY <2>5, <2>6
<1> QED  BY <1>5, <1>6

LEMMA HeldByStep ==
  ASSUME HubTypeOK, DeliveryTypeOK, HubFollowsPublished, ConnectionsInOrder,
         FramesArePublished, ForwarderMovesOn, [DeliveryNext]_deliveryVars,
         NEW c \in Connections, HeldBy(c)
  PROVE  HeldBy(c)'
<1>1. /\ published \in Seq(Event) /\ channel \in [Connections -> Seq(Event)]
      /\ pendingEvents \in [Connections -> Seq(Event)] /\ subscribed \in [Connections -> BOOLEAN]
      /\ lastSequence \in [Connections -> Cursor]
  BY DEF DeliveryTypeOK
<1>2. CASE UNCHANGED clientVars
  BY <1>1, <1>2, HeldByKept DEF clientVars
<1>3. CASE ThreadNext
  <2>1. ASSUME NEW d \in Connections, ReadFrame(d)  PROVE HeldBy(c)'
    <3>1. CASE d = c
      BY <2>1, <3>1, HeldByRead
    <3>2. CASE d # c
      <4>1. /\ pendingEvents'[c] = pendingEvents[c] /\ channel'[c] = channel[c]
            /\ lastSequence'[c] = lastSequence[c] /\ UNCHANGED subscribed
        BY <1>1, <2>1, <3>2 DEF ReadFrame, Buffer
      <4> QED  BY <1>1, <4>1, HeldByKept
    <3> QED  BY <3>1, <3>2
  <2>2. CASE ForwarderSubscribes
    <3>1. /\ channel' = [channel EXCEPT ![client] = pendingEvents[client]]
          /\ pendingEvents' = [pendingEvents EXCEPT ![client] = << >>]
          /\ subscribed' = [subscribed EXCEPT ![client] = TRUE]
          /\ UNCHANGED <<lastSequence, published>>
      BY <2>2 DEF ForwarderSubscribes, SubscribeClient
    <3>2. CASE c = client
      <4>1. /\ channel'[c] = pendingEvents[c] /\ pendingEvents'[c] = << >>
            /\ ClientSequence(c)' = ClientSequence(c) /\ UNCHANGED published
        BY <1>1, <3>1, <3>2 DEF ClientSequence
      <4>2. Increasing(channel[c])' /\ Increasing(pendingEvents[c])'
        BY <4>1 DEF HeldBy, Increasing
      <4>3. \A i \in 1..Len(channel'[c]) :
              IsPublished(channel[c][i])' /\ channel'[c][i].sequence <= ClientSequence(c)'
        BY <4>1 DEF HeldBy, IsPublished
      <4> QED  BY <4>1, <4>2, <4>3 DEF HeldBy
    <3>3. CASE c # client
      <4>1. /\ pendingEvents'[c] = pendingEvents[c] /\ channel'[c] = channel[c]
            /\ lastSequence'[c] = lastSequence[c] /\ subscribed'[c] = subscribed[c]
        BY <1>1, <3>1, <3>3
      <4> QED  BY <1>1, <4>1, HeldByKept
    <3> QED  BY <3>2, <3>3
  <2>3. CASE ForwardEvent
    <3>1. /\ channel[source] # << >> /\ channel' = [channel EXCEPT ![source] = Tail(@)]
          /\ \/ UNCHANGED subscribed
             \/ subscribed' = [subscribed EXCEPT ![client] = FALSE]
          /\ UNCHANGED <<pendingEvents, lastSequence, published>>
      BY <2>3 DEF ForwardEvent
    <3>2. subscribed'[c] => subscribed[c]
      BY <1>1, <3>1
    <3>3. CASE c # source
      <4>1. /\ pendingEvents'[c] = pendingEvents[c] /\ channel'[c] = channel[c]
            /\ lastSequence'[c] = lastSequence[c]
        BY <1>1, <3>1, <3>3
      <4> QED  BY <1>1, <3>2, <4>1, HeldByKept
    <3>4. CASE c = source
      <4>1. /\ channel'[c] = Tail(channel[c]) /\ channel[c] # << >> /\ channel[c] \in Seq(Event)
            /\ ClientSequence(c)' = ClientSequence(c) /\ UNCHANGED <<pendingEvents, published>>
        BY <1>1, <3>1, <3>4 DEF ClientSequence
      <4>2. Increasing(Tail(channel[c]))
        BY <4>1, IncreasingTail DEF HeldBy
      <4>3. \A i \in 1..Len(channel'[c]) :
              \E k \in 1..Len(channel[c]) : channel'[c][i] = channel[c][k]
        BY <4>1, TailFacts
      <4>4. Increasing(channel[c])' /\ Increasing(pendingEvents[c])'
        BY <4>1, <4>2 DEF HeldBy, Increasing
      <4>5. \A i \in 1..Len(channel'[c]) :
              IsPublished(channel[c][i])' /\ channel'[c][i].sequence <= ClientSequence(c)'
        BY <4>1, <4>3 DEF HeldBy, IsPublished
      <4>6. \A i \in 1..Len(pendingEvents'[c]) :
         IsPublished(pendingEvents[c][i])' /\ pendingEvents'[c][i].sequence <= ClientSequence(c)'
        BY <4>1 DEF HeldBy, IsPublished
      <4>7. \A i \in 1..Len(channel'[c]), j \in 1..Len(pendingEvents'[c]) :
              channel'[c][i].sequence < pendingEvents'[c][j].sequence
        BY <4>1, <4>3 DEF HeldBy
      <4>8. subscribed'[c] => pendingEvents'[c] = << >>
        BY <3>2, <4>1 DEF HeldBy
      <4> QED  BY <4>4, <4>5, <4>6, <4>7, <4>8 DEF HeldBy
    <3> QED  BY <3>3, <3>4
  <2>4. CASE /\ UNCHANGED <<channel, pendingEvents, lastSequence>>
             /\ \A d \in Connections : subscribed'[d] => subscribed[d]
    BY <1>1, <2>4, HeldByKept
  <2> QED  BY <1>3, <2>1, <2>2, <2>3, <2>4, HoldingSteps
<1>4. ASSUME NEW d \in Connections, ConnectionNext(d)  PROVE HeldBy(c)'
  <2>1. /\ UNCHANGED <<channel, pendingEvents, subscribed>> /\ d \in Connections \ opened
    BY <1>4, NewConnection
  <2>2. lastSequence' = [lastSequence EXCEPT ![d] = ResumeCursor]
    BY <1>4, NewFrames
  <2>3. CASE c = d
    <3>1. channel'[c] = << >> /\ pendingEvents'[c] = << >>
      BY <2>1, <2>3 DEF ConnectionsInOrder
    <3> QED  BY <3>1 DEF HeldBy, Increasing
  <2>4. CASE c # d
    BY <1>1, <2>1, <2>2, <2>4, HeldByKept
  <2> QED  BY <2>3, <2>4
<1>5. CASE DaemonNext
  BY <1>2, <1>5, DaemonFrame
<1>6. CASE StartRuntime
  BY <1>2, <1>6 DEF StartRuntime
<1>7. CASE UNCHANGED deliveryVars
  BY <1>2, <1>7 DEF deliveryVars
<1> QED  BY <1>3, <1>4, <1>5, <1>6, <1>7, NextByParts

LEMMA LaterIsNewerStep ==
  ASSUME HubTypeOK, DeliveryTypeOK, HubFollowsPublished, ConnectionsInOrder,
         FramesArePublished, HeldInOrder, [DeliveryNext]_deliveryVars
  PROVE  LaterIsNewer'
<1>1. /\ pendingEvents \in [Connections -> Seq(Event)] /\ opened \subseteq Connections
      /\ lastSequence \in [Connections -> Cursor]
      /\ \A c \in Connections : ClientSequence(c) \in Nat
      /\ Connections \subseteq Nat
  BY ConnectionsAssumption DEF DeliveryTypeOK, HubTypeOK, ClientSequence, Cursor
<1>2. LaterIsNewer /\ \A c \in Connections : HeldBy(c)
  BY DEF HeldInOrder
<1>3. CASE UNCHANGED <<opened, lastSequence, pendingEvents>>
  BY <1>2, <1>3 DEF LaterIsNewer, ClientSequence
<1>4. CASE ForwarderSubscribes
  <2>1. /\ pendingEvents' = [pendingEvents EXCEPT ![client] = << >>]
        /\ UNCHANGED <<opened, lastSequence>>
    BY <1>4 DEF ForwarderSubscribes, SubscribeClient, hubVars
  <2>2. \A d \in opened : pendingEvents'[d] = pendingEvents[d] \/ pendingEvents'[d] = << >>
    BY <1>1, <2>1
  <2> QED  BY <1>2, <2>1, <2>2 DEF LaterIsNewer, ClientSequence
<1>5. ASSUME NEW c \in Connections, ReadFrame(c)  PROVE LaterIsNewer'
  <2>1. PICK event \in Event :
           /\ event.sequence > ClientSequence(c) =>
                /\ lastSequence' = [lastSequence EXCEPT
                     ![c] = [epoch |-> event.epoch, sequence |-> event.sequence]]
                /\ subscribed[c] => UNCHANGED pendingEvents
                /\ ~ subscribed[c] => Buffer(c, event)
           /\ ~ (event.sequence > ClientSequence(c)) => UNCHANGED <<lastSequence, pendingEvents>>
           /\ UNCHANGED hubVars
    BY <1>5, ReadFacts
  <2>2. UNCHANGED opened /\ event.sequence \in Nat
    BY <2>1 DEF hubVars, Event
  <2>3. reader[c] = "reading" /\ c \in opened
    BY <1>5 DEF ReadFrame, ConnectionsInOrder
  <2>4. \A d \in opened : ~ (c < d)
    BY <2>3 DEF ConnectionsInOrder
  <2>5. CASE ~ (event.sequence > ClientSequence(c))
    BY <1>3, <2>1, <2>2, <2>5
  <2>6. CASE event.sequence > ClientSequence(c)
    <3>1. /\ \A d \in Connections : d # c => ClientSequence(d)' = ClientSequence(d)
          /\ ClientSequence(c)' = event.sequence
      BY <1>1, <2>1, <2>6 DEF ClientSequence
    <3>2. \A d \in Connections : d # c => pendingEvents'[d] = pendingEvents[d]
      BY <1>1, <2>1, <2>6 DEF Buffer
    <3>3. \A i \in 1..Len(pendingEvents'[c]) : pendingEvents'[c][i].sequence = event.sequence \/
            \E k \in 1..Len(pendingEvents[c]) : pendingEvents'[c][i] = pendingEvents[c][k]
      <4>1. CASE subscribed[c]
        BY <2>1, <2>6, <4>1
      <4>2. CASE ~ subscribed[c]
        <5>1. Buffer(c, event) /\ Increasing(pendingEvents[c])
          BY <1>2, <2>1, <2>6, <4>2 DEF HeldBy
        <5>2. \A i \in 1..Len(pendingEvents[c]) : pendingEvents[c][i].sequence < event.sequence
          <6> SUFFICES ASSUME NEW i \in 1..Len(pendingEvents[c])
                       PROVE  pendingEvents[c][i].sequence < event.sequence
            OBVIOUS
          <6>1. pendingEvents[c][i] \in Event
            BY <1>1, ElementOfSeq
          <6>2. pendingEvents[c][i].sequence \in Nat
            BY <6>1 DEF Event
          <6>3. pendingEvents[c][i].sequence <= ClientSequence(c)
            BY <1>2 DEF HeldBy
          <6> QED  BY <1>1, <2>2, <2>6, <6>2, <6>3
        <5>3. PICK kept \in Seq(Event) :
                 /\ pendingEvents' = [pendingEvents EXCEPT ![c] = kept]
                 /\ \A i \in 1..Len(kept) : kept[i] = event \/
                      \E k \in 1..Len(pendingEvents[c]) : kept[i] = pendingEvents[c][k]
          BY <5>1, <5>2, BufferFacts
        <5>4. pendingEvents'[c] = kept
          BY <1>1, <5>3
        <5> QED  BY <5>3, <5>4
      <4> QED  BY <4>1, <4>2
    <3>4. ASSUME NEW a \in opened, NEW d \in opened, a < d
          PROVE  /\ ClientSequence(a)' <= ClientSequence(d)'
                 /\ \A i \in 1..Len(pendingEvents'[d]) :
                      ClientSequence(a)' < pendingEvents'[d][i].sequence
      <4>1. a # c /\ a \in Connections /\ d \in Connections /\ ClientSequence(a)' = ClientSequence(a)
        BY <1>1, <2>4, <3>1, <3>4
      <4>2. /\ ClientSequence(a) <= ClientSequence(d)
            /\ \A i \in 1..Len(pendingEvents[d]) : ClientSequence(a) < pendingEvents[d][i].sequence
        BY <1>2, <3>4 DEF LaterIsNewer
      <4>3. CASE d # c
        BY <3>1, <3>2, <4>1, <4>2, <4>3
      <4>4. CASE d = c
        <5>1. ClientSequence(a) < event.sequence
          BY <1>1, <2>2, <2>6, <4>1, <4>2, <4>4
        <5>2. ClientSequence(a)' <= ClientSequence(d)'
          BY <1>1, <2>2, <3>1, <4>1, <4>4, <5>1
        <5>3. \A i \in 1..Len(pendingEvents'[d]) : ClientSequence(a)' < pendingEvents'[d][i].sequence
          BY <3>3, <4>1, <4>2, <4>4, <5>1
        <5> QED  BY <5>2, <5>3
      <4> QED  BY <4>3, <4>4
    <3> QED  BY <2>2, <3>4 DEF LaterIsNewer
  <2> QED  BY <2>5, <2>6
<1>6. ASSUME NEW c \in Connections, ConnectionNext(c)  PROVE LaterIsNewer'
  <2>1. /\ UNCHANGED pendingEvents /\ c \in Connections \ opened /\ opened' = opened \cup {c}
        /\ \A d \in opened : d < c /\ d <= target
        /\ target = NoConnection => opened = {}
        /\ target # NoConnection => target \in opened
    BY <1>6, NewConnection
  <2>2. lastSequence' = [lastSequence EXCEPT ![c] = ResumeCursor]
    BY <1>6, NewFrames
  <2>3. pendingEvents[c] = << >>
    BY <2>1 DEF ConnectionsInOrder
  <2>4. \A d \in opened : ClientSequence(d)' = ClientSequence(d)
    BY <1>1, <2>1, <2>2 DEF ClientSequence
  <2>5. ClientSequence(c)' = ResumeCursor.sequence
    BY <1>1, <2>2 DEF ClientSequence
  <2>6. \A d \in opened : ClientSequence(d) <= ClientSequence(c)'
    <3> SUFFICES ASSUME NEW d \in opened  PROVE ClientSequence(d) <= ClientSequence(c)'
      OBVIOUS
    <3>1. target \in opened /\ d <= target
      BY <2>1
    <3>2. ResumeCursor.sequence = ClientSequence(target)
      BY <1>1, <3>1, ResumeCursorValue DEF ClientSequence
    <3>3. d = target \/ d < target
      BY <1>1, <3>1
    <3>4. ClientSequence(d) <= ClientSequence(target)
      BY <1>1, <1>2, <3>1, <3>3 DEF LaterIsNewer
    <3> QED  BY <2>5, <3>2, <3>4
  <2>7. ASSUME NEW a \in opened', NEW d \in opened', a < d
        PROVE  /\ ClientSequence(a)' <= ClientSequence(d)'
               /\ \A i \in 1..Len(pendingEvents'[d]) :
                    ClientSequence(a)' < pendingEvents'[d][i].sequence
    <3>1. a \in opened
      BY <1>1, <2>1, <2>7
    <3>2. CASE d = c
      BY <2>1, <2>3, <2>4, <2>6, <3>1, <3>2
    <3>3. CASE d # c
      BY <1>2, <2>1, <2>4, <2>7, <3>1, <3>3 DEF LaterIsNewer
    <3> QED  BY <3>2, <3>3
  <2> QED  BY <2>7 DEF LaterIsNewer
<1>7. CASE ForwardEvent
  BY <1>3, <1>7 DEF ForwardEvent, hubVars
<1>8. CASE ThreadNext
  BY <1>3, <1>4, <1>5, <1>7, <1>8, HoldingSteps, ThreadFrame DEF hubVars
<1>9. CASE DaemonNext
  BY <1>3, <1>9, DaemonFrame DEF clientVars
<1>10. CASE StartRuntime
  BY <1>3, <1>10 DEF StartRuntime, BeginRuntime, clientVars
<1>11. CASE UNCHANGED deliveryVars
  BY <1>3, <1>11 DEF deliveryVars, hubVars, clientVars
<1> QED  BY <1>6, <1>8, <1>9, <1>10, <1>11, NextByParts

-----------------------------------------------------------------------------
(* What the application has got. *)

LEMMA LastOfAppend ==
  ASSUME NEW event \in Event, delivered \in Seq(Event), delivered' = Append(delivered, event)
  PROVE  LastDelivered' = event.sequence
<1>1. /\ Len(delivered) \in Nat /\ Len(delivered') = Len(delivered) + 1
      /\ delivered'[Len(delivered) + 1] = event
  BY AppendFacts
<1>2. delivered' # << >>
  BY <1>1
<1> QED  BY <1>1, <1>2 DEF LastDelivered

LEMMA DeliveredLast ==
  ASSUME DeliveryTypeOK, Increasing(delivered)
  PROVE  /\ LastDelivered \in Nat
         /\ \A i \in 1..Len(delivered) : delivered[i].sequence <= LastDelivered
<1>1. delivered \in Seq(Event) /\ Len(delivered) \in Nat
  BY DEF DeliveryTypeOK
<1>2. CASE delivered = << >>
  BY <1>2 DEF LastDelivered
<1>3. CASE delivered # << >>
  <2>1. Len(delivered) \in 1..Len(delivered)
    BY <1>1, <1>3
  <2>2. \A i \in 1..Len(delivered) : delivered[i].sequence \in Nat
    <3>1. \A i \in 1..Len(delivered) : delivered[i] \in Event
      BY <1>1, ElementOfSeq
    <3> QED  BY <3>1 DEF Event
  <2>3. LastDelivered = delivered[Len(delivered)].sequence
    BY <1>3 DEF LastDelivered
  <2>4. \A i \in 1..Len(delivered) : i < Len(delivered) \/ i = Len(delivered)
    BY <1>1
  <2> QED  BY <2>1, <2>2, <2>3, <2>4 DEF Increasing
<1> QED  BY <1>2, <1>3

\* Every event a client holds is new, of a positive number.
LEMMA HeldNumbers ==
  ASSUME DeliveryTypeOK
  PROVE  \A c \in Connections :
           /\ ClientSequence(c) \in Nat
           /\ \A i \in 1..Len(pendingEvents[c]) :
                pendingEvents[c][i] \in Event /\ pendingEvents[c][i].sequence \in Nat \ {0}
           /\ \A i \in 1..Len(channel[c]) :
                channel[c][i] \in Event /\ channel[c][i].sequence \in Nat \ {0}
<1> SUFFICES ASSUME NEW c \in Connections
             PROVE  /\ ClientSequence(c) \in Nat
                    /\ \A i \in 1..Len(pendingEvents[c]) :
                         pendingEvents[c][i] \in Event /\ pendingEvents[c][i].sequence \in Nat \ {0}
                    /\ \A i \in 1..Len(channel[c]) :
                         channel[c][i] \in Event /\ channel[c][i].sequence \in Nat \ {0}
  OBVIOUS
<1>1. /\ pendingEvents[c] \in Seq(Event) /\ channel[c] \in Seq(Event)
      /\ lastSequence[c] \in Cursor
  BY DEF DeliveryTypeOK
<1>2. \A event \in Event : event.sequence \in Nat \ {0}
  BY DEF Event
<1>3. /\ \A i \in 1..Len(pendingEvents[c]) : pendingEvents[c][i] \in Event
      /\ \A i \in 1..Len(channel[c]) : channel[c][i] \in Event
  BY <1>1, ElementOfSeq
<1>4. ClientSequence(c) \in Nat
  BY <1>1 DEF ClientSequence, Cursor
<1> QED  BY <1>2, <1>3, <1>4

\* What was delivered stays so while nothing is forwarded.
DeliveredPart ==
  Increasing(delivered) /\ (\A i \in 1..Len(delivered) : IsPublished(delivered[i]))

\* What the forwarder's connection holds comes after it.
SourceComesAfter ==
  source # NoConnection =>
    /\ LastDelivered <= ClientSequence(source)
    /\ \A i \in 1..Len(channel[source]) : LastDelivered < channel[source][i].sequence
    /\ \A i \in 1..Len(pendingEvents[source]) : LastDelivered < pendingEvents[source][i].sequence

LEMMA DeliveredKept ==
  ASSUME published \in Seq(Event), [DeliveryNext]_deliveryVars, DeliveredPart,
         UNCHANGED delivered
  PROVE  DeliveredPart' /\ LastDelivered' = LastDelivered
<1>1. \A event : IsPublished(event) => IsPublished(event)'
  BY PublishedStays
<1>2. \A i \in 1..Len(delivered) : \E event : event = delivered[i] /\ IsPublished(event)
  BY DEF DeliveredPart
<1>3. \A i \in 1..Len(delivered) : IsPublished(delivered[i])'
  BY <1>1, <1>2 DEF IsPublished
<1>4. Increasing(delivered)'
  BY DEF Increasing, DeliveredPart
<1>5. LastDelivered' = LastDelivered
  BY DEF LastDelivered
<1> QED  BY <1>3, <1>4, <1>5 DEF DeliveredPart

LEMMA DeliveredStep ==
  ASSUME HubTypeOK, DeliveryTypeOK, HubFollowsPublished, ConnectionsInOrder,
         FramesArePublished, HeldInOrder, ForwarderMovesOn, DeliveredInOrder,
         [DeliveryNext]_deliveryVars
  PROVE  DeliveredInOrder'
<1>1. /\ pendingEvents \in [Connections -> Seq(Event)] /\ opened \subseteq Connections
      /\ channel \in [Connections -> Seq(Event)] /\ lastSequence \in [Connections -> Cursor]
      /\ Connections \subseteq Nat /\ NoConnection \notin Connections
      /\ published \in Seq(Event) /\ delivered \in Seq(Event)
  BY ConnectionsAssumption DEF DeliveryTypeOK, HubTypeOK
<1>2. LaterIsNewer /\ \A c \in Connections : HeldBy(c)
  BY DEF HeldInOrder
<1>3. /\ DeliveredPart /\ SourceComesAfter /\ (source = NoConnection => delivered = << >>)
      /\ source # NoConnection => source \in opened /\ client \in opened /\ source <= client
  BY DEF DeliveredInOrder, DeliveredPart, SourceComesAfter, ForwarderMovesOn, OneReceiver
<1>4. /\ LastDelivered \in Nat
      /\ \A i \in 1..Len(delivered) : delivered[i].sequence <= LastDelivered
  BY <1>3, DeliveredLast DEF DeliveredPart
<1>5. UNCHANGED delivered => DeliveredPart' /\ LastDelivered' = LastDelivered
  BY <1>1, <1>3, DeliveredKept
<1>6. CASE UNCHANGED <<delivered, source, lastSequence, channel, pendingEvents>>
  BY <1>3, <1>5, <1>6 DEF DeliveredInOrder, DeliveredPart, SourceComesAfter, ClientSequence
<1>7. ASSUME NEW c \in Connections, ReadFrame(c)  PROVE DeliveredInOrder'
  <2>1. PICK event \in Event :
           /\ event.sequence > ClientSequence(c) =>
                /\ lastSequence' = [lastSequence EXCEPT
                     ![c] = [epoch |-> event.epoch, sequence |-> event.sequence]]
                /\ subscribed[c] =>
                     /\ channel' = [channel EXCEPT ![c] = Append(channel[c], event)]
                     /\ UNCHANGED <<pendingEvents, lost>>
                /\ ~ subscribed[c] => Buffer(c, event) /\ UNCHANGED channel
           /\ ~ (event.sequence > ClientSequence(c)) =>
                UNCHANGED <<lastSequence, channel, pendingEvents, lost>>
           /\ UNCHANGED handleVars
    BY <1>7, ReadFacts
  <2>2. UNCHANGED <<delivered, source>> /\ event.sequence \in Nat
    BY <2>1 DEF handleVars, Event
  <2>3. CASE c # source \/ source = NoConnection \/ ~ (event.sequence > ClientSequence(c))
    <3>1. source # NoConnection =>
            /\ lastSequence'[source] = lastSequence[source] /\ channel'[source] = channel[source]
            /\ pendingEvents'[source] = pendingEvents[source]
      BY <1>1, <1>3, <2>1, <2>3 DEF Buffer
    <3> QED  BY <1>3, <1>5, <2>2, <3>1 DEF DeliveredInOrder, DeliveredPart, SourceComesAfter, ClientSequence
  <2>4. CASE c = source /\ event.sequence > ClientSequence(c)
    <3>1. ClientSequence(c)' = event.sequence /\ ClientSequence(c) \in Nat
      BY <1>1, <2>1, <2>4, HeldNumbers DEF ClientSequence
    <3>2. /\ LastDelivered <= ClientSequence(c)
          /\ \A i \in 1..Len(channel[c]) : LastDelivered < channel[c][i].sequence
          /\ \A i \in 1..Len(pendingEvents[c]) : LastDelivered < pendingEvents[c][i].sequence
      BY <1>1, <1>3, <2>4 DEF SourceComesAfter
    <3>3. LastDelivered < event.sequence
      BY <1>4, <2>2, <2>4, <3>1, <3>2
    <3>4. CASE subscribed[c]
      <4>1. /\ channel'[c] = Append(channel[c], event) /\ channel[c] \in Seq(Event)
            /\ pendingEvents'[c] = pendingEvents[c]
        BY <1>1, <2>1, <2>4, <3>4
      <4>2. \A i \in 1..Len(channel'[c]) : LastDelivered < channel'[c][i].sequence
        BY <3>2, <3>3, <4>1, AppendFacts
      <4> QED
        BY <1>3, <1>4, <1>5, <2>2, <2>4, <3>1, <3>2, <3>3, <4>1, <4>2
        DEF DeliveredInOrder, DeliveredPart
    <3>5. CASE ~ subscribed[c]
      <4>1. Buffer(c, event) /\ UNCHANGED channel /\ Increasing(pendingEvents[c])
        BY <1>2, <2>1, <2>4, <3>5 DEF HeldBy
      <4>2. \A i \in 1..Len(pendingEvents[c]) : pendingEvents[c][i].sequence < event.sequence
        <5> SUFFICES ASSUME NEW i \in 1..Len(pendingEvents[c])
                     PROVE  pendingEvents[c][i].sequence < event.sequence
          OBVIOUS
        <5>1. pendingEvents[c][i].sequence \in Nat
          BY HeldNumbers
        <5>2. pendingEvents[c][i].sequence <= ClientSequence(c)
          BY <1>2 DEF HeldBy
        <5> QED  BY <2>2, <2>4, <3>1, <5>1, <5>2
      <4>3. PICK kept \in Seq(Event) :
                 /\ pendingEvents' = [pendingEvents EXCEPT ![c] = kept]
                 /\ \A i \in 1..Len(kept) : kept[i] = event \/
                      \E k \in 1..Len(pendingEvents[c]) : kept[i] = pendingEvents[c][k]
        BY <4>1, <4>2, BufferFacts
      <4>4. \A i \in 1..Len(kept) : LastDelivered < kept[i].sequence
        BY <3>2, <3>3, <4>3
      <4>5. pendingEvents'[c] = kept
        BY <1>1, <4>3
      <4> QED
        BY <1>3, <1>4, <1>5, <2>2, <2>4, <3>1, <3>2, <3>3, <4>1, <4>4, <4>5
        DEF DeliveredInOrder, DeliveredPart
    <3> QED  BY <3>4, <3>5
  <2> QED  BY <2>3, <2>4
<1>8. CASE ForwarderSubscribes
  <2>1. /\ channel' = [channel EXCEPT ![client] = pendingEvents[client]]
        /\ pendingEvents' = [pendingEvents EXCEPT ![client] = << >>]
        /\ source' = client /\ UNCHANGED <<delivered, lastSequence>> /\ forwarder = "subscribing"
    BY <1>8 DEF ForwarderSubscribes, SubscribeClient
  <2>2. client \in opened /\ client \in Connections /\ client # NoConnection
    BY <1>1, <2>1 DEF ForwarderMovesOn, ForwarderPhases
  <2>3. /\ channel'[client] = pendingEvents[client] /\ Len(pendingEvents'[client]) = 0
        /\ ClientSequence(client)' = ClientSequence(client) /\ client' = client
    <3>1. channel'[client] = pendingEvents[client] /\ pendingEvents'[client] = << >>
      BY <1>1, <2>1, <2>2
    <3>2. client' = client
      BY <1>8 DEF ForwarderSubscribes
    <3>3. ClientSequence(client)' = ClientSequence(client)
      BY <2>1, <3>2 DEF ClientSequence
    <3> QED  BY <3>1, <3>2, <3>3
  <2>4. /\ LastDelivered <= ClientSequence(client)
        /\ \A i \in 1..Len(pendingEvents[client]) :
             LastDelivered < pendingEvents[client][i].sequence
    <3>1. CASE source = NoConnection
      <4>1. LastDelivered = 0
        BY <1>3, <3>1 DEF LastDelivered
      <4> QED  BY <2>2, <4>1, HeldNumbers
    <3>2. CASE source = client
      BY <1>3, <2>2, <3>2 DEF SourceComesAfter
    <3>3. CASE source # NoConnection /\ source # client
      <4>0. source \in opened /\ client \in opened /\ source <= client
        BY <1>3, <3>3
      <4>6. source \in Nat /\ client \in Nat
        BY <1>1, <4>0
      <4>1. source \in opened /\ client \in opened /\ source < client
        BY <3>3, <4>0, <4>6
      <4>2. /\ ClientSequence(source) <= ClientSequence(client)
            /\ \A i \in 1..Len(pendingEvents[client]) :
                 ClientSequence(source) < pendingEvents[client][i].sequence
        BY <1>2, <4>1 DEF LaterIsNewer
      <4>3. LastDelivered <= ClientSequence(source)
        BY <1>3, <3>3 DEF SourceComesAfter
      <4>4. ClientSequence(source) \in Nat /\ ClientSequence(client) \in Nat
        BY <1>1, <2>2, <4>1, HeldNumbers
      <4>5. \A i \in 1..Len(pendingEvents[client]) : pendingEvents[client][i].sequence \in Nat
        BY <2>2, HeldNumbers
      <4> QED  BY <1>4, <4>2, <4>3, <4>4, <4>5
    <3> QED  BY <3>1, <3>2, <3>3
  <2>5. ClientSequence(source)' = ClientSequence(client)
    BY <2>1, <2>3 DEF ClientSequence
  <2>6. SourceComesAfter'
    BY <1>5, <2>1, <2>3, <2>4, <2>5 DEF SourceComesAfter
  <2> QED  BY <1>5, <2>1, <2>2, <2>6 DEF DeliveredInOrder, DeliveredPart, SourceComesAfter
<1>9. CASE ForwardEvent
  <2> DEFINE event == Head(channel[source])
  <2>1. /\ forwarder = "forwarding" /\ channel[source] # << >>
        /\ delivered' = Append(delivered, event)
        /\ channel' = [channel EXCEPT ![source] = Tail(@)]
        /\ UNCHANGED <<source, pendingEvents, lastSequence, published>>
    BY <1>9 DEF ForwardEvent
  <2>2. source # NoConnection /\ source \in opened /\ source \in Connections
    BY <1>1, <1>3, <2>1 DEF ForwarderMovesOn, OneReceiver
  <2>3. /\ channel[source] \in Seq(Event) /\ channel'[source] = Tail(channel[source])
        /\ 1 \in 1..Len(channel[source]) /\ event = channel[source][1]
    BY <1>1, <2>1, <2>2, TailFacts
  <2>4. /\ event \in Event /\ LastDelivered < event.sequence /\ IsPublished(event)
        /\ event.sequence <= ClientSequence(source) /\ event.sequence \in Nat
        /\ \A j \in 1..Len(pendingEvents[source]) :
             event.sequence < pendingEvents[source][j].sequence
    <3>1. event \in Event /\ event.sequence \in Nat
      BY <2>2, <2>3, HeldNumbers
    <3>2. LastDelivered < event.sequence
      BY <1>3, <2>2, <2>3 DEF SourceComesAfter
    <3>3. /\ IsPublished(event) /\ event.sequence <= ClientSequence(source)
          /\ \A j \in 1..Len(pendingEvents[source]) :
               event.sequence < pendingEvents[source][j].sequence
      BY <1>2, <2>2, <2>3 DEF HeldBy
    <3> QED  BY <3>1, <3>2, <3>3
  <2>5. \A i \in 1..Len(channel'[source]) : event.sequence < channel'[source][i].sequence
    <3>1. Increasing(channel[source])
      BY <1>2, <2>2 DEF HeldBy
    <3> QED  BY <2>1, <2>3, <3>1, IncreasingTail
  <2> HIDE DEF event
  <2>6. Increasing(delivered')
    <3>1. Increasing(delivered)
      BY <1>3 DEF DeliveredPart
    <3>2. \A i \in 1..Len(delivered) : delivered[i].sequence < event.sequence
      <4> SUFFICES ASSUME NEW i \in 1..Len(delivered)  PROVE delivered[i].sequence < event.sequence
        OBVIOUS
      <4>1. delivered[i] \in Event
        BY <1>1, ElementOfSeq
      <4>2. delivered[i].sequence \in Nat
        BY <4>1 DEF Event
      <4> QED  BY <1>4, <2>4, <4>2
    <3>3. Increasing(Append(delivered, event))
      BY <1>1, <2>4, <3>1, <3>2, IncreasingAppend
    <3> QED  BY <2>1, <3>3 DEF Increasing
  <2>7. \A i \in 1..Len(delivered') : IsPublished(delivered'[i])
    BY <1>1, <1>3, <2>1, <2>4, AppendFacts DEF DeliveredPart
  <2>8. LastDelivered' = event.sequence
    BY <1>1, <2>1, <2>4, LastOfAppend
  <2>9. DeliveredPart'
    BY <2>1, <2>6, <2>7 DEF DeliveredPart, IsPublished, Increasing
  <2>10. ClientSequence(source)' = ClientSequence(source)
    BY <2>1 DEF ClientSequence
  <2> QED
    BY <2>1, <2>2, <2>4, <2>5, <2>8, <2>9, <2>10 DEF DeliveredInOrder, DeliveredPart
<1>10. CASE ThreadNext
  BY <1>6, <1>7, <1>8, <1>9, <1>10, HoldingSteps
<1>11. ASSUME NEW c \in Connections, ConnectionNext(c)  PROVE DeliveredInOrder'
  <2>1. /\ UNCHANGED <<pendingEvents, channel, handleVars>> /\ c \notin opened
    BY <1>11, NewConnection
  <2>2. lastSequence' = [lastSequence EXCEPT ![c] = ResumeCursor]
    BY <1>11, NewFrames
  <2>3. UNCHANGED <<source, delivered>>
    BY <2>1 DEF handleVars
  <2>4. source # NoConnection => ClientSequence(source)' = ClientSequence(source)
    BY <1>1, <1>3, <2>1, <2>2, <2>3 DEF ClientSequence
  <2> QED
    BY <1>3, <1>5, <2>1, <2>3, <2>4 DEF DeliveredInOrder, DeliveredPart, SourceComesAfter
<1>12. CASE DaemonNext
  BY <1>6, <1>12, DaemonFrame DEF clientVars, handleVars
<1>13. CASE StartRuntime
  BY <1>6, <1>13 DEF StartRuntime, clientVars
<1>14. CASE UNCHANGED deliveryVars
  BY <1>6, <1>14 DEF deliveryVars, handleVars, clientVars
<1> QED  BY <1>10, <1>11, <1>12, <1>13, <1>14, NextByParts

-----------------------------------------------------------------------------
(* Everything seen is accounted for. *)

\* Event n is delivered, lost, or held by a client.
Accounted(n) ==
  \/ n \in SequencesOf(delivered) \cup lost
  \/ \E d \in opened : n \in SequencesOf(pendingEvents[d]) \cup SequencesOf(channel[d])

\* A step that takes nothing from anyone accounts for all it did before.
LEMMA AccountedKept ==
  ASSUME SequencesOf(delivered) \cup lost \subseteq SequencesOf(delivered') \cup lost',
         opened \subseteq opened',
         \A d \in opened : \A n \in SequencesOf(pendingEvents[d]) \cup SequencesOf(channel[d]) :
           Accounted(n)'
  PROVE  \A n : Accounted(n) => Accounted(n)'
<1> SUFFICES ASSUME NEW n, Accounted(n)  PROVE Accounted(n)'
  OBVIOUS
<1>1. CASE n \in SequencesOf(delivered) \cup lost
  <2>1. n \in SequencesOf(delivered') \cup lost'
    BY <1>1
  <2> QED  BY <2>1 DEF Accounted, SequencesOf
<1>2. CASE \E d \in opened : n \in SequencesOf(pendingEvents[d]) \cup SequencesOf(channel[d])
  BY <1>2
<1> QED  BY <1>1, <1>2 DEF Accounted

LEMMA SeenStep ==
  ASSUME HubTypeOK, DeliveryTypeOK, HubFollowsPublished, ConnectionsInOrder,
         FramesArePublished, UnreadWithoutGap, HeldInOrder, ForwarderMovesOn,
         SeenIsAccounted, [DeliveryNext]_deliveryVars
  PROVE  SeenIsAccounted'
<1>1. /\ pendingEvents \in [Connections -> Seq(Event)] /\ opened \subseteq Connections
      /\ channel \in [Connections -> Seq(Event)] /\ lastSequence \in [Connections -> Cursor]
      /\ delivered \in Seq(Event) /\ published \in Seq(Event) /\ received \in [Connections -> Nat]
  BY DEF DeliveryTypeOK, HubTypeOK
<1>2. \A c \in Connections : HeldBy(c) /\ ClientSequence(c) \in Nat
  BY HeldNumbers DEF HeldInOrder
<1>3. lost \subseteq lost'
  BY <1>1, HistoryGrows
<1>4. \A c \in opened : \A n \in 1..ClientSequence(c) : Accounted(n)
  BY DEF SeenIsAccounted, Accounted
\* When no client sees more, it is enough to keep what was accounted for.
<1>5. ASSUME UNCHANGED <<opened, lastSequence>>, \A n : Accounted(n) => Accounted(n)'
      PROVE  SeenIsAccounted'
  BY <1>4, <1>5 DEF SeenIsAccounted, Accounted, ClientSequence
<1>6. CASE UNCHANGED <<opened, lastSequence, delivered, pendingEvents, channel>>
  BY <1>3, <1>5, <1>6 DEF Accounted
<1>7. ASSUME NEW c \in Connections, ReadFrame(c)  PROVE SeenIsAccounted'
  <2>1. PICK event \in Event :
           /\ received[c] + 1 \in 1..Len(Frames(c)) /\ event = Frames(c)[received[c] + 1]
           /\ IsPublished(event)
           /\ event.sequence > ClientSequence(c) =>
                /\ lastSequence' = [lastSequence EXCEPT
                     ![c] = [epoch |-> event.epoch, sequence |-> event.sequence]]
                /\ subscribed[c] =>
                     /\ channel' = [channel EXCEPT ![c] = Append(channel[c], event)]
                     /\ UNCHANGED <<pendingEvents, lost>>
                /\ ~ subscribed[c] => Buffer(c, event) /\ UNCHANGED channel
           /\ ~ (event.sequence > ClientSequence(c)) =>
                UNCHANGED <<lastSequence, channel, pendingEvents, lost>>
           /\ UNCHANGED <<hubVars, handleVars>>
    BY <1>7, ReadFacts
  <2>2. UNCHANGED <<opened, delivered>> /\ event.sequence \in Nat
    BY <2>1 DEF hubVars, handleVars, Event
  <2>3. c \in opened
    BY <1>7 DEF ReadFrame, ConnectionsInOrder
  <2>4. CASE ~ (event.sequence > ClientSequence(c))
    BY <1>6, <2>1, <2>2, <2>4
  <2>5. CASE event.sequence > ClientSequence(c)
    <3>1. /\ SequencesOf(pendingEvents[c]) \cup SequencesOf(channel[c]) \cup {event.sequence}
               \subseteq SequencesOf(pendingEvents'[c]) \cup SequencesOf(channel'[c]) \cup lost'
          /\ \A d \in Connections : d # c =>
               pendingEvents'[d] = pendingEvents[d] /\ channel'[d] = channel[d]
      <4>1. CASE subscribed[c]
        <5>1. /\ channel' = [channel EXCEPT ![c] = Append(channel[c], event)]
              /\ UNCHANGED pendingEvents
          BY <2>1, <2>5, <4>1
        <5>2. SequencesOf(Append(channel[c], event)) = SequencesOf(channel[c]) \cup {event.sequence}
          BY <1>1, SequencesOfAppend
        <5>3. channel'[c] = Append(channel[c], event)
          BY <1>1, <5>1
        <5> QED  BY <1>1, <5>1, <5>2, <5>3
      <4>2. CASE ~ subscribed[c]
        <5>1. Buffer(c, event) /\ UNCHANGED channel /\ Increasing(pendingEvents[c])
          BY <1>2, <2>1, <2>5, <4>2 DEF HeldBy
        <5>2. \A i \in 1..Len(pendingEvents[c]) : pendingEvents[c][i].sequence < event.sequence
          <6> SUFFICES ASSUME NEW i \in 1..Len(pendingEvents[c])
                       PROVE  pendingEvents[c][i].sequence < event.sequence
            OBVIOUS
          <6>1. pendingEvents[c][i].sequence \in Nat
            BY HeldNumbers
          <6>2. pendingEvents[c][i].sequence <= ClientSequence(c)
            BY <1>2 DEF HeldBy
          <6> QED  BY <1>2, <2>2, <2>5, <6>1, <6>2
        <5>3. PICK kept \in Seq(Event) :
                 /\ pendingEvents' = [pendingEvents EXCEPT ![c] = kept]
                 /\ SequencesOf(pendingEvents[c]) \cup {event.sequence} \subseteq
                      SequencesOf(kept) \cup lost'
          BY <5>1, <5>2, BufferFacts
        <5>4. pendingEvents'[c] = kept
          BY <1>1, <5>3
        <5> QED  BY <1>1, <5>1, <5>3, <5>4
      <4> QED  BY <4>1, <4>2
    <3>2. \A n \in SequencesOf(pendingEvents'[c]) \cup SequencesOf(channel'[c]) \cup lost' : Accounted(n)'
      BY <2>2, <2>3 DEF Accounted, SequencesOf
    <3>3. ASSUME NEW d \in opened,
                 NEW n \in SequencesOf(pendingEvents[d]) \cup SequencesOf(channel[d])
          PROVE  Accounted(n)'
      <4>1. CASE d = c
        BY <3>1, <3>2, <4>1
      <4>2. CASE d # c
        <5>1. n \in SequencesOf(pendingEvents'[d]) \cup SequencesOf(channel'[d])
          BY <1>1, <3>1, <4>2
        <5> QED  BY <2>2, <5>1 DEF Accounted, SequencesOf
      <4> QED  BY <4>1, <4>2
    <3>4. \A n : Accounted(n) => Accounted(n)'
      BY <1>3, <2>2, <3>3, AccountedKept
    <3>5. /\ \A d \in Connections : d # c => ClientSequence(d)' = ClientSequence(d)
          /\ ClientSequence(c)' = event.sequence
      BY <1>1, <2>1, <2>5 DEF ClientSequence
    <3>6. ASSUME NEW n \in 1..event.sequence  PROVE Accounted(n)'
      <4>1. CASE n = event.sequence
        BY <3>1, <3>2, <4>1
      <4>2. CASE n # event.sequence
        <5>1. n \in 1..(event.sequence - 1) /\ received[c] + 1 \in (received[c] + 1)..Len(Frames(c))
          BY <1>1, <2>1, <2>2, <4>2
        <5>2. SeenOrUnread(c, n, received[c] + 1)
          BY <2>1, <5>1 DEF UnreadWithoutGap
        <5>3. (received[c] + 1)..((received[c] + 1) - 1) = {}
          BY <1>1
        <5>4. n <= ClientSequence(c) \/ n \in lost
          BY <5>2, <5>3 DEF SeenOrUnread
        <5>5. CASE n <= ClientSequence(c)
          <6>1. n \in 1..ClientSequence(c)
            BY <1>2, <5>1, <5>5
          <6> QED  BY <1>4, <2>3, <3>4, <6>1
        <5>6. CASE n \in lost
          BY <1>3, <3>2, <5>6
        <5> QED  BY <5>4, <5>5, <5>6
      <4> QED  BY <4>1, <4>2
    <3>7. \A d \in opened' : \A n \in 1..ClientSequence(d)' : Accounted(n)'
      BY <1>1, <1>4, <2>2, <3>4, <3>5, <3>6
    <3> QED  BY <3>7 DEF SeenIsAccounted, Accounted
  <2> QED  BY <2>4, <2>5
<1>8. CASE ForwarderSubscribes
  <2>1. /\ channel' = [channel EXCEPT ![client] = pendingEvents[client]]
        /\ pendingEvents' = [pendingEvents EXCEPT ![client] = << >>]
        /\ UNCHANGED <<delivered, lastSequence, opened>> /\ forwarder = "subscribing"
    BY <1>8 DEF ForwarderSubscribes, SubscribeClient, hubVars
  <2>2. client \in opened /\ client \in Connections
    BY <1>1, <2>1 DEF ForwarderMovesOn, ForwarderPhases
  <2>3. channel[client] = << >>
    <3>1. client \in Connections /\ client # NoConnection
      BY <2>2, ConnectionsAssumption
    <3> QED  BY <2>1, <3>1 DEF ForwarderMovesOn, OneReceiver
  <2>4. ASSUME NEW d \in opened,
               NEW n \in SequencesOf(pendingEvents[d]) \cup SequencesOf(channel[d])
        PROVE  Accounted(n)'
    <3>1. n \in SequencesOf(pendingEvents'[d]) \cup SequencesOf(channel'[d])
      <4>1. CASE d = client
        <5>1. SequencesOf(channel[d]) = {}
          BY <2>3, <4>1 DEF SequencesOf
        <5>2. channel'[d] = pendingEvents[d]
          BY <1>1, <2>1, <2>2, <4>1
        <5> QED  BY <5>1, <5>2
      <4>2. CASE d # client
        <5>1. channel'[d] = channel[d] /\ pendingEvents'[d] = pendingEvents[d]
          BY <1>1, <2>1, <4>2
        <5> QED  BY <5>1
      <4> QED  BY <4>1, <4>2
    <3> QED  BY <2>1, <3>1 DEF Accounted, SequencesOf
  <2>5. SequencesOf(delivered) \cup lost \subseteq SequencesOf(delivered') \cup lost'
    BY <1>3, <2>1
  <2>6. \A n : Accounted(n) => Accounted(n)'
    BY <2>1, <2>4, <2>5, AccountedKept
  <2> QED  BY <1>5, <2>1, <2>6
<1>9. CASE ForwardEvent
  <2> DEFINE event == Head(channel[source])
  <2>1. /\ forwarder = "forwarding" /\ channel[source] # << >>
        /\ delivered' = Append(delivered, event)
        /\ channel' = [channel EXCEPT ![source] = Tail(@)]
        /\ UNCHANGED <<opened, pendingEvents, lastSequence>>
    BY <1>9 DEF ForwardEvent, hubVars
  <2>2. source \in opened /\ source \in Connections /\ channel[source] \in Seq(Event)
    BY <1>1, <2>1 DEF ForwarderMovesOn, OneReceiver
  <2>3. /\ event \in Event /\ channel'[source] = Tail(channel[source])
        /\ SequencesOf(channel[source]) = SequencesOf(Tail(channel[source])) \cup {event.sequence}
    BY <1>1, <2>1, <2>2, HeadTailProperties, SequencesOfTail
  <2> HIDE DEF event
  <2>4. SequencesOf(delivered') = SequencesOf(delivered) \cup {event.sequence}
    BY <1>1, <2>1, <2>3, SequencesOfAppend
  <2>5. ASSUME NEW d \in opened,
               NEW n \in SequencesOf(pendingEvents[d]) \cup SequencesOf(channel[d])
        PROVE  Accounted(n)'
    <3>1. CASE n = event.sequence
      <4>1. n \in SequencesOf(delivered')
        BY <2>4, <3>1
      <4> QED  BY <4>1 DEF Accounted, SequencesOf
    <3>2. CASE n # event.sequence
      <4>1. n \in SequencesOf(pendingEvents'[d]) \cup SequencesOf(channel'[d])
        <5>1. CASE d = source
          BY <2>1, <2>3, <3>2, <5>1
        <5>2. CASE d # source
          BY <1>1, <2>1, <5>2
        <5> QED  BY <5>1, <5>2
      <4> QED  BY <2>1, <4>1 DEF Accounted, SequencesOf
    <3> QED  BY <3>1, <3>2
  <2>6. SequencesOf(delivered) \cup lost \subseteq SequencesOf(delivered') \cup lost'
    BY <1>3, <2>4
  <2>7. \A n : Accounted(n) => Accounted(n)'
    BY <2>1, <2>5, <2>6, AccountedKept
  <2> QED  BY <1>5, <2>1, <2>7
<1>10. CASE ThreadNext
  BY <1>6, <1>7, <1>8, <1>9, <1>10, HoldingSteps, ThreadFrame DEF hubVars
<1>11. ASSUME NEW c \in Connections, ConnectionNext(c)  PROVE SeenIsAccounted'
  <2>1. /\ UNCHANGED <<pendingEvents, channel, handleVars>> /\ c \notin opened
        /\ opened' = opened \cup {c}
        /\ target # NoConnection => target \in opened
    BY <1>11, NewConnection
  <2>2. lastSequence' = [lastSequence EXCEPT ![c] = ResumeCursor]
    BY <1>11, NewFrames
  <2>3. \A n : Accounted(n) => Accounted(n)'
    BY <1>3, <2>1 DEF Accounted, handleVars
  <2>4. \A n \in 1..ClientSequence(c)' : Accounted(n)
    <3>1. ClientSequence(c)' = ResumeCursor.sequence
      BY <1>1, <2>2 DEF ClientSequence
    <3>2. CASE target = NoConnection
      <4>1. ResumeCursor.sequence = 0
        BY <3>2, ResumeCursorValue, ConnectionsAssumption DEF NoCursor
      <4> QED  BY <3>1, <4>1
    <3>3. CASE target # NoConnection
      <4>1. target \in opened /\ ResumeCursor.sequence = ClientSequence(target)
        BY <1>1, <2>1, <3>3, ResumeCursorValue DEF ClientSequence
      <4> QED  BY <1>4, <3>1, <4>1
    <3> QED  BY <3>2, <3>3
  <2>5. \A d \in opened : ClientSequence(d)' = ClientSequence(d)
    BY <1>1, <2>1, <2>2 DEF ClientSequence
  <2>6. \A d \in opened' : \A n \in 1..ClientSequence(d)' : Accounted(n)'
    BY <1>4, <2>1, <2>3, <2>4, <2>5
  <2> QED  BY <2>6 DEF SeenIsAccounted, Accounted
<1>12. CASE DaemonNext
  BY <1>6, <1>12, DaemonFrame DEF clientVars, handleVars
<1>13. CASE StartRuntime
  BY <1>6, <1>13 DEF StartRuntime, BeginRuntime, clientVars
<1>14. CASE UNCHANGED deliveryVars
  BY <1>6, <1>14 DEF deliveryVars, hubVars, handleVars, clientVars
<1> QED  BY <1>10, <1>11, <1>12, <1>13, <1>14, NextByParts

(***************************************************************************)
(* No gap below the last event delivered: what its connection had seen is  *)
(* accounted for, and what the forwarder's receiver or its client's buffer *)
(* still hold is newer.                                                    *)
(***************************************************************************)
LEMMA GapFree ==
  ASSUME HubTypeOK, DeliveryTypeOK, HeldInOrder, ForwarderMovesOn, DeliveredInOrder,
         SeenIsAccounted
  PROVE  NoSilentGap
<1> SUFFICES ASSUME NEW n \in 1..LastDelivered
             PROVE  n \in SequencesOf(delivered) \cup lost \cup Abandoned
  BY DEF NoSilentGap
<1>1. LastDelivered \in Nat /\ opened \subseteq Connections /\ Connections \subseteq Nat
  BY DeliveredLast, ConnectionsAssumption DEF DeliveredInOrder, HubTypeOK
<1>2. source # NoConnection
  BY <1>1 DEF DeliveredInOrder, LastDelivered
<1>3. source \in opened /\ client \in opened /\ source <= client /\ source \in Nat /\ client \in Nat
  BY <1>1, <1>2 DEF ForwarderMovesOn, OneReceiver
<1>4. /\ LastDelivered <= ClientSequence(source)
      /\ \A i \in 1..Len(channel[source]) : LastDelivered < channel[source][i].sequence
      /\ \A i \in 1..Len(pendingEvents[source]) : LastDelivered < pendingEvents[source][i].sequence
  BY <1>2 DEF DeliveredInOrder
<1>5. ClientSequence(source) \in Nat
  BY <1>1, <1>3, HeldNumbers
<1>6. n \in 1..ClientSequence(source)
  BY <1>1, <1>4, <1>5
<1>7. \/ n \in SequencesOf(delivered) \cup lost
      \/ \E d \in opened : n \in SequencesOf(pendingEvents[d]) \cup SequencesOf(channel[d])
  BY <1>3, <1>6 DEF SeenIsAccounted
<1>8. ASSUME NEW d \in opened, n \in SequencesOf(channel[d])  PROVE FALSE
  <2>1. PICK i \in 1..Len(channel[d]) : n = channel[d][i].sequence
    BY <1>8 DEF SequencesOf
  <2>2. CASE d # source
    <3>1. channel[d] = << >>
      BY <1>1, <2>2 DEF ForwarderMovesOn, OneReceiver
    <3> QED  BY <2>1, <3>1
  <2>3. CASE d = source
    <3>1. LastDelivered < n
      BY <1>4, <2>1, <2>3
    <3> QED  BY <1>1, <3>1
  <2> QED  BY <2>2, <2>3
<1>9. ASSUME n \in SequencesOf(pendingEvents[client])  PROVE FALSE
  <2>1. PICK i \in 1..Len(pendingEvents[client]) : n = pendingEvents[client][i].sequence
    BY <1>9 DEF SequencesOf
  <2>2. CASE client = source
    <3>1. LastDelivered < n
      BY <1>4, <2>1, <2>2
    <3> QED  BY <1>1, <3>1
  <2>3. CASE client # source
    <3>1. source < client
      BY <1>3, <2>3
    <3>2. ClientSequence(source) < n
      BY <1>3, <2>1, <3>1 DEF HeldInOrder, LaterIsNewer
    <3> QED  BY <1>5, <1>6, <3>2
  <2> QED  BY <2>2, <2>3
<1>10. ASSUME NEW d \in opened, n \in SequencesOf(pendingEvents[d])  PROVE n \in Abandoned
  <2>1. d \in Connections \ {client}
    BY <1>1, <1>9, <1>10
  <2> QED  BY <1>10, <2>1 DEF Abandoned
<1> QED  BY <1>7, <1>8, <1>10

-----------------------------------------------------------------------------
(* The theorems. *)

LEMMA DeliveryInitially ==
  ASSUME DeliveryInit
  PROVE  DeliveryIInv
<1>1. HubTypeOK
  BY DEF DeliveryInit, HubInit, HubTypeOK
<1>2. DeliveryTypeOK
  <2>1. NoCursor \in Cursor
    BY DEF NoCursor, Cursor
  <2>2. lastSequence \in [Connections -> Cursor]
    BY <2>1 DEF DeliveryInit
  <2>3. \A c \in Connections : Len(pendingEvents[c]) <= MaxBuffered
    BY BufferAssumption DEF DeliveryInit
  <2>4. /\ << >> \in Seq(Event)
        /\ << >> \in Seq(Connections)
    OBVIOUS
  <2>5. /\ reader \in [Connections -> {"none", "reading", "disconnected", "drained"}]
        /\ received \in [Connections -> Nat]
        /\ subscribed \in [Connections -> BOOLEAN]
    BY DEF DeliveryInit
  <2>6. /\ channel \in [Connections -> Seq(Event)]
        /\ pendingEvents \in [Connections -> Seq(Event)]
    BY <2>4 DEF DeliveryInit
  <2>7. /\ clientUpdates \in Seq(Connections)
        /\ delivered \in Seq(Event)
        /\ published \in Seq(Event)
    BY <2>4 DEF DeliveryInit
  <2>8. /\ target \in Connections \cup {NoConnection}
        /\ replacement \in Connections \cup {NoConnection}
        /\ client \in Connections \cup {NoConnection}
        /\ source \in Connections \cup {NoConnection}
        /\ activeClient \in Connections \cup {NoConnection}
        /\ monitor = "watching" /\ forwarder = "idle" /\ exit = "none"
        /\ closed = FALSE /\ lost = {}
    BY DEF DeliveryInit
  <2> QED  BY <2>2, <2>3, <2>5, <2>6, <2>7, <2>8 DEF DeliveryTypeOK
<1>3. HubFollowsPublished
  BY FollowedAssumption, NoRuntimeAssumption DEF DeliveryInit, HubInit, HubFollowsPublished
<1>4. ConnectionsInOrder
  BY FollowedAssumption DEF DeliveryInit, HubInit, ConnectionsInOrder, Frames
<1>5. FramesArePublished
  BY FollowedAssumption
  DEF DeliveryInit, HubInit, FramesArePublished, Frames, ClientSequence, NoCursor
<1>6. UnreadWithoutGap
  BY FollowedAssumption DEF DeliveryInit, HubInit, UnreadWithoutGap, Frames
<1>7. HeldInOrder
  BY DEF DeliveryInit, HubInit, HeldInOrder, HeldBy, LaterIsNewer, Increasing
<1>8. ForwarderMovesOn
  BY DEF DeliveryInit, HubInit, ForwarderMovesOn, OneReceiver, UpdatesInOrder, ForwarderPhases
<1>9. DeliveredInOrder
  BY DEF DeliveryInit, DeliveredInOrder, Increasing
<1>10. SeenIsAccounted
  BY DEF DeliveryInit, HubInit, SeenIsAccounted
<1> QED  BY <1>1, <1>2, <1>3, <1>4, <1>5, <1>6, <1>7, <1>8, <1>9, <1>10 DEF DeliveryIInv

LEMMA DeliveryStep ==
  ASSUME DeliveryIInv, [DeliveryNext]_deliveryVars
  PROVE  DeliveryIInv'
<1>1. /\ HubTypeOK /\ DeliveryTypeOK /\ HubFollowsPublished /\ ConnectionsInOrder
      /\ FramesArePublished /\ UnreadWithoutGap /\ HeldInOrder /\ ForwarderMovesOn
      /\ DeliveredInOrder /\ SeenIsAccounted
  BY DEF DeliveryIInv
<1>2. HubTypeOK' /\ DeliveryTypeOK'
  BY <1>1, HubTypeKept, DeliveryTypeKept
<1>3. HubFollowsPublished' /\ ConnectionsInOrder' /\ ForwarderMovesOn'
  BY <1>1, HubFollowsStep, ConnectionsStep, ForwarderMovesStep
<1>4. FramesArePublished' /\ UnreadWithoutGap'
  BY <1>1, FramesStep, UnreadStep
<1>5. HeldInOrder'
  <2>1. \A c \in Connections : HeldBy(c)'
    BY <1>1, HeldByStep DEF HeldInOrder
  <2>2. LaterIsNewer'
    BY <1>1, LaterIsNewerStep
  <2> QED  BY <2>1, <2>2 DEF HeldInOrder
<1>6. DeliveredInOrder' /\ SeenIsAccounted'
  BY <1>1, DeliveredStep, SeenStep
<1> QED  BY <1>2, <1>3, <1>4, <1>5, <1>6 DEF DeliveryIInv

(***************************************************************************)
(* The inductive invariant of the whole path: the hub's journal and the    *)
(* frames are parts of one history, connections follow one another, and    *)
(* what a client has seen is delivered, lost or still held (Hub::emit and  *)
(* subscribe, run_client, DaemonClient::subscribe, monitor_daemon,         *)
(* connect_remote).                                                        *)
(***************************************************************************)
THEOREM DeliveryInductive == DeliverySpec => []DeliveryIInv
  BY DeliveryInitially, DeliveryStep, PTL DEF DeliverySpec

(***************************************************************************)
(* However often the connection breaks and whatever the journal's and the  *)
(* buffer's limits, every variable keeps its type and the application      *)
(* misses only events that the journal dropped, a buffer dropped, or that  *)
(* sit in the buffer of a connection the forwarder never attached to.      *)
(***************************************************************************)
THEOREM DeliveryCorrect == DeliverySpec => []DeliveryInvariant
<1>1. DeliveryIInv => DeliveryInvariant
  BY GapFree DEF DeliveryIInv, DeliveryInvariant
<1> QED  BY <1>1, DeliveryInductive, PTL

-----------------------------------------------------------------------------
(* The refinement: what EventStream sees of a state, and of a step. *)

StreamKinds == [i \in 1..Len(published) |-> published[i].payload]

StreamPositions == [i \in 1..Len(delivered) |-> delivered[i].sequence]

\* A function on 1..n+1 is one on 1..n with a value appended.
LEMMA FunctionAppends ==
  ASSUME NEW S, NEW n \in Nat, NEW f \in [1..n -> S], NEW g \in [1..(n + 1) -> S],
         \A i \in 1..n : g[i] = f[i]
  PROVE  g = Append(f, g[n + 1])
<1>1. f \in Seq(S) /\ g \in Seq(S) /\ Len(f) = n /\ Len(g) = n + 1
  OBVIOUS
<1>2. n + 1 \in 1..(n + 1) /\ g[n + 1] \in S
  OBVIOUS
<1>3. /\ Append(f, g[n + 1]) \in Seq(S) /\ Len(Append(f, g[n + 1])) = n + 1
      /\ \A i \in 1..n : Append(f, g[n + 1])[i] = f[i]
      /\ Append(f, g[n + 1])[n + 1] = g[n + 1]
  BY <1>1, <1>2, AppendProperties
<1>4. \A i \in 1..(n + 1) : g[i] = Append(f, g[n + 1])[i]
  BY <1>3
<1> QED  BY <1>1, <1>3, <1>4, SeqEqual

LEMMA StreamViewType ==
  ASSUME DeliveryTypeOK
  PROVE  /\ Len(published) \in Nat /\ Len(delivered) \in Nat
         /\ StreamKinds \in [1..Len(published) -> Payloads]
         /\ StreamPositions \in [1..Len(delivered) -> Nat]
         /\ Len(StreamKinds) = Len(published) /\ Len(StreamPositions) = Len(delivered)
         /\ published = << >> => StreamKinds = << >>
         /\ delivered = << >> <=> StreamPositions = << >>
<1>1. published \in Seq(Event) /\ delivered \in Seq(Event)
  BY DEF DeliveryTypeOK
<1>2. Len(published) \in Nat /\ Len(delivered) \in Nat
  BY <1>1
<1>3. StreamKinds \in [1..Len(published) -> Payloads]
  <2>1. \A i \in 1..Len(published) : published[i] \in Event
    BY <1>1, ElementOfSeq
  <2>2. \A i \in 1..Len(published) : published[i].payload \in Payloads
    BY <2>1 DEF Event
  <2> QED  BY <2>2 DEF StreamKinds
<1>4. StreamPositions \in [1..Len(delivered) -> Nat]
  <2>1. \A i \in 1..Len(delivered) : delivered[i] \in Event
    BY <1>1, ElementOfSeq
  <2>2. \A i \in 1..Len(delivered) : delivered[i].sequence \in Nat
    BY <2>1 DEF Event
  <2> QED  BY <2>2 DEF StreamPositions
<1>5. StreamKinds \in Seq(Payloads) /\ Len(StreamKinds) = Len(published)
  BY <1>2, <1>3
<1>6. StreamPositions \in Seq(Nat) /\ Len(StreamPositions) = Len(delivered)
  BY <1>2, <1>4
<1>7. published = << >> => StreamKinds = << >>
  BY <1>5, EmptySeq
<1>8. delivered = << >> <=> StreamPositions = << >>
  BY <1>1, <1>6, EmptySeq
<1> QED  BY <1>2, <1>3, <1>4, <1>5, <1>6, <1>7, <1>8

\* The same of the state after a step.
LEMMA StreamViewTypeNext ==
  DeliveryTypeOK' => /\ StreamKinds' \in [1..Len(published') -> Payloads]
                     /\ StreamPositions' \in [1..Len(delivered') -> Nat]
<1>1. DeliveryTypeOK => /\ StreamKinds \in [1..Len(published) -> Payloads]
                        /\ StreamPositions \in [1..Len(delivered) -> Nat]
  BY StreamViewType
<1>2. DeliveryTypeOK' => (/\ StreamKinds \in [1..Len(published) -> Payloads]
                         /\ StreamPositions \in [1..Len(delivered) -> Nat])'
  BY <1>1, PTL
<1> QED  BY <1>2

LEMMA StreamLastDelivered ==
  ASSUME DeliveryTypeOK
  PROVE  Stream!LastDelivered = LastDelivered
<1>1. /\ StreamPositions = << >> <=> delivered = << >>
      /\ Len(StreamPositions) = Len(delivered)
      /\ Len(delivered) \in Nat
  BY StreamViewType
<1>2. delivered # << >> => Len(delivered) \in 1..Len(delivered)
  BY <1>1, EmptySeq DEF DeliveryTypeOK
<1>3. delivered # << >> =>
        StreamPositions[Len(StreamPositions)] = delivered[Len(delivered)].sequence
  BY <1>1, <1>2 DEF StreamPositions
<1> QED  BY <1>1, <1>3 DEF Stream!LastDelivered, LastDelivered, StreamPositions

LEMMA StreamUnchanged ==
  ASSUME UNCHANGED <<published, delivered, exit>>,
         activeRuntimes'[Session] = Followed <=> activeRuntimes[Session] = Followed
  PROVE  UNCHANGED Stream!streamVars
BY DEF Stream!streamVars

\* The hub's own steps: another event, another runtime, or the daemon's end.
LEMMA DaemonStreams ==
  ASSUME DeliveryIInv, DeliveryIInv', DaemonNext
  PROVE  [Stream!StreamNext]_(Stream!streamVars)
<1>1. HubTypeOK /\ DeliveryTypeOK /\ DeliveryTypeOK' /\ HubFollowsPublished
  BY DEF DeliveryIInv
<1>2. UNCHANGED <<delivered, exit>>
  BY DaemonFrame DEF handleVars
<1>3. ASSUME NEW payload \in Payloads, Publication(payload)
      PROVE  Stream!StreamNext
  <2>1. PICK event \in Event :
           /\ event.payload = payload
           /\ Len(published') = Len(published) + 1
           /\ published'[Len(published) + 1] = event
           /\ \A i \in 1..Len(published) : published'[i] = published[i]
           /\ activeRuntimes[Session] = Followed
    BY <1>1, <1>3, PublicationAppends
  <2>2. /\ Len(published) \in Nat
        /\ StreamKinds \in [1..Len(published) -> Payloads]
        /\ StreamKinds' \in [1..(Len(published) + 1) -> Payloads]
    BY <1>1, <2>1, StreamViewType, StreamViewTypeNext
  <2>3. \A i \in 1..Len(published) : StreamKinds'[i] = StreamKinds[i]
    BY <2>1, <2>2 DEF StreamKinds
  <2>4. StreamKinds'[Len(published) + 1] = payload
    BY <2>1, <2>2 DEF StreamKinds
  <2>5. StreamKinds' = Append(StreamKinds, payload)
    BY <2>2, <2>3, <2>4, FunctionAppends
  <2>6. activeRuntimes'[Session] = activeRuntimes[Session]
    BY <1>3 DEF Publication, Emit, Publish
  <2>7. Stream!PublishKind(payload)
    BY <1>2, <2>1, <2>5, <2>6 DEF Stream!PublishKind, StreamKinds
  <2> QED  BY <2>7 DEF Stream!StreamNext
<1>4. CASE UNCHANGED published /\ activeRuntimes'[Session] # Followed
  <2>1. CASE activeRuntimes[Session] = Followed
    <3>1. Stream!Stop
      BY <1>2, <1>4, <2>1 DEF Stream!Stop
    <3> QED  BY <3>1 DEF Stream!StreamNext
  <2>2. CASE activeRuntimes[Session] # Followed
    BY <1>2, <1>4, <2>2, StreamUnchanged
  <2> QED  BY <2>1, <2>2
<1>5. ASSUME NEW r \in Runtimes, StartedElsewhere(r)
      PROVE  UNCHANGED published /\ activeRuntimes'[Session] # Followed
  BY <1>1, <1>5, FollowedAssumption DEF StartedElsewhere, BeginRuntime, HubTypeOK
<1>6. EndedElsewhere => UNCHANGED published /\ activeRuntimes'[Session] # Followed
  BY <1>1, FollowedAssumption, NoRuntimeAssumption DEF EndedElsewhere, EndRuntime, HubTypeOK
<1>7. DaemonRestart => UNCHANGED published /\ activeRuntimes'[Session] # Followed
  BY FollowedAssumption, NoRuntimeAssumption DEF DaemonRestart, Restart
<1>8. ASSUME NEW c \in Connections, ConnectionLost(c)
      PROVE  [Stream!StreamNext]_(Stream!streamVars)
  BY <1>2, <1>8, StreamUnchanged DEF ConnectionLost, Unsubscribe
<1> QED  BY <1>3, <1>4, <1>5, <1>6, <1>7, <1>8 DEF DaemonNext

\* The next event of the forwarder's receiver is a later one of the history.
LEMMA ForwardStreams ==
  ASSUME DeliveryIInv, DeliveryIInv', ForwardEvent
  PROVE  Stream!StreamNext
<1>1. /\ HubTypeOK /\ DeliveryTypeOK /\ DeliveryTypeOK' /\ HeldInOrder /\ ForwarderMovesOn
      /\ DeliveredInOrder
  BY DEF DeliveryIInv
<1>2. source \in Connections /\ exit = "none" /\ channel[source] # << >>
  <2>1. source # NoConnection /\ source \in Connections \cup {NoConnection} /\ exit = "none"
    BY <1>1 DEF ForwardEvent, ForwarderMovesOn, OneReceiver, ForwarderPhases, DeliveryTypeOK
  <2> QED  BY <2>1 DEF ForwardEvent
<1> DEFINE event == Head(channel[source])
<1>3. /\ event = channel[source][1] /\ 1 \in 1..Len(channel[source])
      /\ channel[source] \in Seq(Event)
  <2>1. channel[source] \in Seq(Event)
    BY <1>1, <1>2 DEF DeliveryTypeOK
  <2> QED  BY <1>2, <2>1, TailFacts
<1>4. event \in Event /\ IsPublished(event) /\ LastDelivered < event.sequence
  <2>1. event \in Event
    BY <1>3, ElementOfSeq
  <2>2. IsPublished(event)
    BY <1>1, <1>2, <1>3 DEF HeldInOrder, HeldBy
  <2>3. LastDelivered < event.sequence
    BY <1>1, <1>2, <1>3, ConnectionsAssumption DEF DeliveredInOrder
  <2> QED  BY <2>1, <2>2, <2>3
<1>5. /\ delivered' = Append(delivered, event)
      /\ exit' = IF event.payload = Exited THEN "event" ELSE "none"
      /\ UNCHANGED <<published, activeRuntimes>>
  BY <1>2 DEF ForwardEvent, hubVars
<1> HIDE DEF event
<1>6. /\ event.sequence \in 1..Len(published) /\ StreamKinds[event.sequence] = event.payload
      /\ Len(StreamKinds) = Len(published) /\ Len(published) \in Nat
  <2>1. event.sequence \in 1..Len(published) /\ published[event.sequence] = event
    BY <1>4 DEF IsPublished
  <2> QED  BY <1>1, <2>1, StreamViewType DEF StreamKinds
<1>7. StreamPositions' = Append(StreamPositions, event.sequence)
  <2>1. delivered \in Seq(Event)
    BY <1>1 DEF DeliveryTypeOK
  <2>2. /\ Len(delivered) \in Nat /\ Len(delivered') = Len(delivered) + 1
        /\ delivered'[Len(delivered) + 1] = event
        /\ \A i \in 1..Len(delivered) : delivered'[i] = delivered[i]
    BY <1>4, <1>5, <2>1, AppendFacts
  <2>3. /\ StreamPositions \in [1..Len(delivered) -> Nat]
        /\ StreamPositions' \in [1..(Len(delivered) + 1) -> Nat]
    BY <1>1, <2>2, StreamViewType, StreamViewTypeNext
  <2>4. \A i \in 1..Len(delivered) : StreamPositions'[i] = StreamPositions[i]
    BY <2>2 DEF StreamPositions
  <2>5. StreamPositions'[Len(delivered) + 1] = event.sequence
    BY <2>2 DEF StreamPositions
  <2> QED  BY <2>2, <2>3, <2>4, <2>5, FunctionAppends
<1>8. event.sequence \in (Stream!LastDelivered + 1)..Len(published)
  <2>1. Stream!LastDelivered = LastDelivered /\ LastDelivered \in Nat
    BY <1>1, StreamLastDelivered, DeliveredLast DEF DeliveredInOrder
  <2> QED  BY <1>4, <1>6, <2>1
<1>9. event.sequence \in 1..Len(StreamKinds) /\ Stream!Deliver(event.sequence)
  BY <1>2, <1>5, <1>6, <1>7, <1>8 DEF Stream!Deliver, StreamKinds, StreamPositions
<1>10. \E position \in 1..Len(StreamKinds) : Stream!Deliver(position)
  BY <1>9 DEF Stream!Deliver
<1> QED  BY <1>10 DEF Stream!StreamNext, StreamKinds

LEMMA ThreadStreams ==
  ASSUME DeliveryIInv, DeliveryIInv', ThreadNext
  PROVE  [Stream!StreamNext]_(Stream!streamVars)
<1>1. ForwarderMovesOn
  BY DEF DeliveryIInv
<1>2. UNCHANGED <<activeRuntimes, published>>
  BY ThreadFrame DEF hubVars
<1>3. CASE ForwardEvent
  BY <1>3, ForwardStreams
<1>4. CASE AttachAnswered /\ activeRuntimes[Session] # Followed
  <2>1. exit = "none" /\ exit' = "synthesized" /\ UNCHANGED delivered
    BY <1>1, <1>4 DEF AttachAnswered, ForwarderMovesOn, ForwarderPhases
  <2>2. Stream!ReportEnd
    BY <1>2, <1>4, <2>1 DEF Stream!ReportEnd
  <2> QED  BY <2>2 DEF Stream!StreamNext
<1>5. CASE ~ ForwardEvent /\ ~ (AttachAnswered /\ activeRuntimes[Session] # Followed)
  <2>1. UNCHANGED <<delivered, exit>>
    BY <1>5
    DEF ThreadNext, ReaderNext, ReadFrame, ReaderStops, ReaderDrains, handleVars,
        InstallTarget, PublishReplacement, DropHandle, ForwarderNext, StartAnswered, StartFailed,
        RegisterForUpdates, ForwarderSubscribes, SourceEnded, TakeUpdate, AttachAnswered,
        AttachFailed, ForwarderShutsDown
  <2> QED  BY <1>2, <2>1, StreamUnchanged
<1> QED  BY <1>3, <1>4, <1>5

LEMMA StreamStep ==
  ASSUME DeliveryIInv, DeliveryIInv', [DeliveryNext]_deliveryVars
  PROVE  [Stream!StreamNext]_(Stream!streamVars)
<1>1. HubTypeOK /\ DeliveryTypeOK /\ HubFollowsPublished /\ ConnectionsInOrder /\ ForwarderMovesOn
  BY DEF DeliveryIInv
<1>2. CASE StartRuntime
  <2>1. activeRuntimes[Session] # Followed /\ published = << >> /\ exit = "none"
    BY <1>1, <1>2 DEF StartRuntime, HubFollowsPublished, ForwarderMovesOn, ForwarderPhases
  <2>2. activeRuntimes'[Session] = Followed /\ UNCHANGED <<published, delivered, exit>>
    BY <1>1, <1>2, FollowedAssumption DEF StartRuntime, BeginRuntime, HubTypeOK
  <2>3. StreamKinds = << >>
    BY <1>1, <2>1, StreamViewType
  <2>4. Stream!Begin
    BY <2>1, <2>2, <2>3 DEF Stream!Begin, StreamKinds
  <2> QED  BY <2>4 DEF Stream!StreamNext
<1>3. ASSUME NEW c \in Connections, ConnectionNext(c)
      PROVE  [Stream!StreamNext]_(Stream!streamVars)
  <2>1. UNCHANGED <<published, delivered, exit, activeRuntimes>>
    BY <1>3 DEF ConnectionNext, ConnectFirst, Reconnect, Connect, Subscribe, handleVars
  <2> QED  BY <2>1, StreamUnchanged
<1>4. CASE UNCHANGED deliveryVars
  BY <1>4, StreamUnchanged DEF deliveryVars, hubVars, handleVars
<1> QED  BY <1>2, <1>3, <1>4, DaemonStreams, ThreadStreams, NextByParts

LEMMA StreamInitially ==
  ASSUME DeliveryInit
  PROVE  Stream!StreamInit
<1>1. DeliveryTypeOK /\ published = << >> /\ delivered = << >> /\ exit = "none"
  BY DeliveryInitially DEF DeliveryIInv, DeliveryInit
<1>2. activeRuntimes[Session] # Followed
  BY FollowedAssumption, NoRuntimeAssumption DEF DeliveryInit, HubInit
<1>3. StreamKinds = << >> /\ StreamPositions = << >>
  BY <1>1, StreamViewType
<1> QED  BY <1>1, <1>2, <1>3 DEF Stream!StreamInit, StreamKinds, StreamPositions

(***************************************************************************)
(* The hub, the connections, the reader threads, the supervisor and the    *)
(* forwarder together implement EventStream: the application is given the  *)
(* runtime's events in their order, none twice, and is told of the end     *)
(* only by the runtime or when the daemon no longer runs it.               *)
(***************************************************************************)
THEOREM DeliveryImplementsStream == DeliverySpec => ImplementsStream
<1>1. DeliveryInit => Stream!StreamInit
  BY StreamInitially
<1>2. DeliveryIInv /\ DeliveryIInv' /\ [DeliveryNext]_deliveryVars
        => [Stream!StreamNext]_(Stream!streamVars)
  BY StreamStep
<1> QED  BY <1>1, <1>2, DeliveryInductive, PTL DEF DeliverySpec, ImplementsStream, Stream!StreamSpec
=============================================================================
