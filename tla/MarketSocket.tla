----------------------------- MODULE MarketSocket -----------------------------
(***************************************************************************)
(* Inside AsyncMarketWebSocketClient: a receiver takes frames from the     *)
(* socket into a bounded queue, a heartbeat watches that the venue answers *)
(* its pings, and the generator of iter_messages hands the frames out and  *)
(* opens a new connection when one ends.  Three tasks share the queue, the *)
(* event that says there is something in it, the reference to the socket   *)
(* and the error of the heartbeat.  Every action runs up to its next       *)
(* await.                                                                  *)
(***************************************************************************)
EXTENDS Naturals, Sequences

CONSTANTS
  QueueSize,      \* max_queue_frames
  MaxFrames,      \* bound on the frames of a connection
  MaxSockets,     \* bound on connections
  MaxRetries      \* max_reconnects

ASSUME SocketAssumption ==
  /\ QueueSize \in Nat \ {0} /\ MaxFrames \in Nat
  /\ MaxSockets \in Nat \ {0} /\ MaxRetries \in Nat

VARIABLES
  link,         \* the connection: its number, is it up, what it carries unread, what was sent
  client,       \* _ws, _frames, _frames_available, _heartbeat_error, _pending_ping_since
  socketTasks,  \* _receive_task and _heartbeat_task
  reading       \* the generator: where it stands, its retries, what it has handed out

socketVars == <<link, client, socketTasks, reading>>

WireFrame(n) == [kind |-> "frame", n |-> n]
Token(kind) == [kind |-> kind, n |-> 0]          \* an application PING or PONG
NoLink == [number |-> 0, up |-> FALSE, wire |-> <<>>, sent |-> 0, asked |-> FALSE]
\* ws is FALSE where _ws is None.
NoClient == [ws |-> FALSE, frames |-> <<>>, event |-> FALSE, error |-> FALSE, pending |-> FALSE]
NoWorkers == [receiver |-> "none", hand |-> 0, heartbeat |-> "none"]

SocketInit ==
  /\ link = NoLink /\ client = NoClient /\ socketTasks = NoWorkers
  /\ reading = [at |-> "opening", used |-> 0, why |-> "none", handed |-> <<>>]

Connected == client.ws /\ link.up                \* is_connected
Blocked == socketTasks.receiver = "putting"          \* _receive_blocked
ReceiverAlive == socketTasks.receiver \in {"taking", "putting"}
\* receiver.cancel(), and it is awaited or dies before the generator wakes.
WithoutReceiver(w) ==
  IF w.receiver \in {"taking", "putting"}
    THEN [w EXCEPT !.receiver = "cancelled", !.hand = 0] ELSE w

-----------------------------------------------------------------------------
\* The venue.

VenueSends ==
  /\ link.up /\ link.sent < MaxFrames
  /\ link' = [link EXCEPT !.sent = @ + 1, !.wire = Append(@, WireFrame(link.sent + 1))]
  /\ UNCHANGED <<client, socketTasks, reading>>

\* Bounded: one token is under way at a time.
VenueBeats ==
  \E kind \in {"ping", "pong"} :
    /\ link.up /\ (kind = "pong" => link.asked)
    /\ \A i \in DOMAIN link.wire : link.wire[i].kind = "frame"
    /\ link' = [link EXCEPT !.wire = Append(@, Token(kind)), !.asked = @ /\ kind # "pong"]
    /\ UNCHANGED <<client, socketTasks, reading>>

\* What was received before can still be read.
LinkBreaks ==
  /\ link.up
  /\ link' = [link EXCEPT !.up = FALSE] /\ UNCHANGED <<client, socketTasks, reading>>

-----------------------------------------------------------------------------
\* _receive_frames.

\* A frame goes to the queue, or waits in hand until there is room; an answer ends the pending
\* ping; a ping is answered, which may fail.
ReceiverTakes ==
  /\ socketTasks.receiver = "taking" /\ link.wire # <<>>
  /\ link' = [link EXCEPT !.wire = Tail(@)]
  /\ LET raw == Head(link.wire) IN
       \/ /\ raw.kind = "pong"
          /\ client' = [client EXCEPT !.pending = FALSE] /\ UNCHANGED socketTasks
       \/ /\ raw.kind = "ping"
          /\ socketTasks' \in {socketTasks, [socketTasks EXCEPT !.receiver = "failed"]} /\ UNCHANGED client
       \/ /\ raw.kind = "frame" /\ Len(client.frames) < QueueSize
          /\ client' = [client EXCEPT !.frames = Append(@, raw.n), !.event = TRUE]
          /\ UNCHANGED socketTasks
       \/ /\ raw.kind = "frame" /\ Len(client.frames) = QueueSize
          /\ socketTasks' = [socketTasks EXCEPT !.receiver = "putting", !.hand = raw.n] /\ UNCHANGED client
  /\ UNCHANGED reading

\* Room again.
ReceiverPuts ==
  /\ Blocked /\ Len(client.frames) < QueueSize
  /\ client' = [client EXCEPT !.frames = Append(@, socketTasks.hand), !.event = TRUE]
  /\ socketTasks' = [socketTasks EXCEPT !.receiver = "taking", !.hand = 0]
  /\ UNCHANGED <<link, reading>>

ReceiverEnds ==
  /\ socketTasks.receiver = "taking" /\ link.wire = <<>> /\ ~link.up
  /\ socketTasks' \in {[socketTasks EXCEPT !.receiver = end] : end \in {"done", "failed"}}
  /\ UNCHANGED <<link, client, reading>>

-----------------------------------------------------------------------------
\* _heartbeat_loop.

HeartbeatPings ==
  /\ socketTasks.heartbeat = "beating" /\ Connected /\ ~client.pending
  /\ client' = [client EXCEPT !.pending = TRUE] /\ link' = [link EXCEPT !.asked = TRUE]
  /\ UNCHANGED <<socketTasks, reading>>

\* _check_pong_deadline finds the venue silent, or the ping cannot be sent.  (How long a venue
\* may be silent, and the new deadline after the queue was full or the loop late, are times.)
HeartbeatFails ==
  /\ socketTasks.heartbeat = "beating" /\ client.ws /\ client.pending
  /\ client' = [client EXCEPT !.ws = FALSE, !.error = TRUE]
  /\ socketTasks' = [WithoutReceiver(socketTasks) EXCEPT !.heartbeat = "closing"]
  /\ UNCHANGED <<link, reading>>

HeartbeatEnds ==
  /\ \/ socketTasks.heartbeat = "closing"
     \/ socketTasks.heartbeat = "beating" /\ ~Connected
  /\ socketTasks' = [socketTasks EXCEPT !.heartbeat = "done"]
  /\ link' = [link EXCEPT !.up = @ /\ socketTasks.heartbeat = "beating"]
  /\ UNCHANGED <<client, reading>>

-----------------------------------------------------------------------------
\* iter_messages.

\* close(): both tasks are ended, the socket is detached and closed.  (A handshake the heartbeat
\* had begun is cut short: the socket is then the library's to end.)
ClientCloses(at, why) ==
  /\ reading' = [reading EXCEPT !.at = at, !.why = why]
  /\ socketTasks' = [WithoutReceiver(socketTasks) EXCEPT !.heartbeat = "none"]
  /\ client' = [client EXCEPT !.ws = FALSE, !.pending = FALSE]
  /\ link' = [link EXCEPT !.up = FALSE]

\* A stream ended: the next attempt is charged to the budget.
StreamEnds(why) ==
  ClientCloses(IF reading.used < MaxRetries THEN "retrying" ELSE "over", why)

\* A fault: the end of the receiver is looked at before the frames it left.
HandOutEndFirst ==
  IF client.error THEN StreamEnds("heartbeat")
  ELSE IF socketTasks.receiver = "done" THEN StreamEnds("clean")
  ELSE IF socketTasks.receiver = "failed" THEN StreamEnds("receiver")
  ELSE IF client.frames # <<>> THEN
    /\ client' = [client EXCEPT !.frames = Tail(@)]
    /\ reading' = [reading EXCEPT !.at = "held",
                     !.handed = Append(@, [number |-> link.number, n |-> Head(client.frames)])]
    /\ UNCHANGED <<link, socketTasks>>
  ELSE
    /\ client' = [client EXCEPT !.event = FALSE]
    /\ reading' = [reading EXCEPT !.at = "asleep"]
    /\ socketTasks' = [socketTasks EXCEPT !.receiver = IF @ = "none" THEN "taking" ELSE @]
    /\ UNCHANGED link

\* _incoming_frames, until a frame is handed out or there is nothing to do: the error of the
\* heartbeat first, then the queue, then the end of the receiver, which starts with the first
\* read of its connection.
HandOut ==
  IF client.error THEN StreamEnds("heartbeat")
  ELSE IF client.frames # <<>> THEN
    /\ client' = [client EXCEPT !.frames = Tail(@)]
    /\ reading' = [reading EXCEPT !.at = "held",
                     !.handed = Append(@, [number |-> link.number, n |-> Head(client.frames)])]
    /\ UNCHANGED <<link, socketTasks>>
  ELSE IF socketTasks.receiver = "done" THEN StreamEnds("clean")
  ELSE IF socketTasks.receiver = "failed" THEN StreamEnds("receiver")
  ELSE
    /\ client' = [client EXCEPT !.event = FALSE]
    /\ reading' = [reading EXCEPT !.at = "asleep"]
    /\ socketTasks' = [socketTasks EXCEPT !.receiver = IF @ = "none" THEN "taking" ELSE @]
    /\ UNCHANGED link

\* The consumer asks for the next message.
AskNext == reading.at = "held" /\ HandOut
ReaderWakes ==
  /\ reading.at = "asleep" /\ (client.event \/ ~ReceiverAlive)
  /\ HandOut

\* The consumer gives up waiting, which ends the generator, and may iterate anew over a
\* connection that is still up.
GiveUpWaiting ==
  /\ reading.at = "asleep"
  /\ reading' = [reading EXCEPT !.at = "left"] /\ UNCHANGED <<link, client, socketTasks>>
IterateAnew == reading.at = "left" /\ Connected /\ HandOut

\* _connect_once: the socket is opened, the assets are subscribed, and the queue is a new one.
SocketOpens ==
  /\ reading.at \in {"opening", "retrying"} /\ link.number < MaxSockets
  /\ link' = [NoLink EXCEPT !.number = link.number + 1, !.up = TRUE]
  /\ client' = [NoClient EXCEPT !.ws = TRUE]
  /\ socketTasks' = [NoWorkers EXCEPT !.heartbeat = "beating"]
  /\ reading' = [reading EXCEPT !.at = "held", !.why = "none",
                   !.used = IF reading.at = "retrying" THEN @ + 1 ELSE @]

\* A failed attempt is charged, and closes what it opened.
SocketCannotOpen ==
  /\ reading.at \in {"opening", "retrying"}
  /\ LET used == reading.used + (IF reading.at = "retrying" THEN 1 ELSE 0) IN
       reading' = [reading EXCEPT !.used = used,
                     !.at = IF used < MaxRetries THEN "retrying" ELSE "over"]
  /\ UNCHANGED <<link, client, socketTasks>>

\* The consumer leaves.
SocketClosed == reading.at \in {"held", "left"} /\ ClientCloses("over", "closed")

SocketNext ==
  \/ VenueSends \/ VenueBeats \/ LinkBreaks \/ ReceiverTakes \/ ReceiverPuts \/ ReceiverEnds
  \/ HeartbeatPings \/ HeartbeatFails \/ HeartbeatEnds
  \/ AskNext \/ ReaderWakes \/ GiveUpWaiting \/ IterateAnew
  \/ SocketOpens \/ SocketCannotOpen \/ SocketClosed

-----------------------------------------------------------------------------
\* Properties.

\* How many frames of its connection the consumer has been handed.
Handed ==
  LET last == Len(reading.handed) IN
    IF last > 0 /\ reading.handed[last].number = link.number THEN reading.handed[last].n ELSE 0
\* How many of them the receiver has taken: handed out, queued or in hand.
Taken == Handed + Len(client.frames) + (IF Blocked THEN 1 ELSE 0)
FramesOnWire == {i \in DOMAIN link.wire : link.wire[i].kind = "frame"}

\* The frames of a connection are handed out from the first one, in order and without a hole,
\* and never after those of a later connection.  While a connection is read no frame is lost
\* between the socket and the consumer: those handed out, queued, in hand and still unread are,
\* in this order, those that were sent.  A connection whose receiver ended is left with its
\* queue handed out, so that only a silent venue or the consumer cuts it short.  The generator
\* never sleeps over a frame, an error or a dead receiver, and no task outlives its connection.
StreamIsWhole ==
  /\ \A i \in DOMAIN reading.handed :
       reading.handed[i].n =
         IF i > 1 /\ reading.handed[i - 1].number = reading.handed[i].number
           THEN reading.handed[i - 1].n + 1 ELSE 1
  /\ \A i, j \in DOMAIN reading.handed : i < j => reading.handed[i].number <= reading.handed[j].number
  /\ client.ws /\ socketTasks.receiver # "cancelled" =>
       /\ \A i \in DOMAIN client.frames : client.frames[i] = Handed + i
       /\ Blocked => socketTasks.hand = Taken
       /\ Taken <= link.sent /\ {link.wire[i].n : i \in FramesOnWire} = Taken + 1 .. link.sent
       /\ \A i, j \in FramesOnWire : i < j => link.wire[i].n < link.wire[j].n
  /\ reading.why \in {"clean", "receiver"} => client.frames = <<>>
  /\ reading.at = "asleep" /\ ~client.event /\ ReceiverAlive => client.frames = <<>> /\ ~client.error
  /\ reading.at \in {"retrying", "over"} => ~ReceiverAlive /\ socketTasks.heartbeat = "none"
=============================================================================
