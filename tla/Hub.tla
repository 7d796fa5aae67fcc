-------------------------------- MODULE Hub --------------------------------
(***************************************************************************)
(* analytics-service: the live stream.  Stored events are put on the Hub's *)
(* Broadcast channel; one goroutine, Hub.Run, registers and unregisters    *)
(* dashboard clients and copies every event into the bounded send channel  *)
(* of each of them.  A client has a handler goroutine, which reads from    *)
(* the connection and unregisters at the end, and a writer goroutine,      *)
(* which owns the writes.  Peers connect, stop reading, come back or go    *)
(* away as they like.                                                      *)
(*                                                                         *)
(* A frame is the number of an event, or 0 for a ping (a nil message).     *)
(***************************************************************************)
EXTENDS Naturals, Sequences

CONSTANTS
  Clients,       \* WebSocket connections, each opened once
  ClientBuffer,  \* capacity of a send channel (64)
  BroadcastCap,  \* capacity of the Broadcast channel (256)
  MaxEvents      \* bound: events stored

ASSUME CapacityAssumption ==
  /\ ClientBuffer \in Nat \ {0}
  /\ BroadcastCap \in Nat \ {0}
  /\ MaxEvents \in Nat

VARIABLES
  events,     \* events handed to BroadcastEvent so far
  broadcast,  \* the Broadcast channel
  clients,    \* the registered clients
  send,       \* send[c]: the send channel of client c
  sendClosed, \* clients whose send channel is closed
  handler,    \* control state of WsHandler: new, register, read, await the
              \* writer, unregister or done
  writer,     \* the writer goroutine: new, run or exited
  conn,       \* the connection: open, stalled (the peer does not read) or closed
  received    \* received[c]: events the peer has received

hubVars    == <<broadcast, clients>>
clientVars == <<handler, writer, conn>>
wsVars     == <<events, hubVars, send, sendClosed, clientVars, received>>

Ping == 0

HubInit ==
  /\ events = 0
  /\ broadcast = <<>>
  /\ clients = {}
  /\ send = [c \in Clients |-> <<>>]
  /\ sendClosed = {}
  /\ handler = [c \in Clients |-> "new"]
  /\ writer = [c \in Clients |-> "new"]
  /\ conn = [c \in Clients |-> "closed"]
  /\ received = [c \in Clients |-> <<>>]

-----------------------------------------------------------------------------
(* BroadcastEvent, called by the batch worker for each stored event: the   *)
(* event is queued, or dropped when the channel is full.                   *)

\* Seeded fault: one event more than the channel holds.
RoomForOneMore == Len(broadcast) <= BroadcastCap

\* The channel is not full.
Room == Len(broadcast) < BroadcastCap

BroadcastEvent ==
  /\ events < MaxEvents
  /\ events' = events + 1
  /\ broadcast' = IF Room THEN Append(broadcast, events') ELSE broadcast
  /\ UNCHANGED <<clients, send, sendClosed, clientVars, received>>

-----------------------------------------------------------------------------
(* Hub.Run.                                                                *)

\* Receive from register: WsHandler goes on to start its writer and read.
Register(c) ==
  /\ handler[c] = "register"
  /\ clients' = clients \cup {c}
  /\ handler' = [handler EXCEPT ![c] = "read"]
  /\ writer' = [writer EXCEPT ![c] = "run"]
  /\ UNCHANGED <<events, broadcast, send, sendClosed, conn, received>>

\* delete(h.clients, c) and close(c.send), for a client that is still there.
Remove(c) ==
  IF c \in clients
  THEN clients' = clients \ {c} /\ sendClosed' = sendClosed \cup {c}
  ELSE UNCHANGED <<clients, sendClosed>>

\* Receive from unregister; WsHandler closes the connection and returns.
Unregister(c) ==
  /\ handler[c] = "unregister"
  /\ Remove(c)
  /\ handler' = [handler EXCEPT ![c] = "done"]
  /\ conn' = [conn EXCEPT ![c] = "closed"]
  /\ UNCHANGED <<events, broadcast, send, writer, received>>

\* The non-blocking send of frame m to every registered client: one whose
\* channel is full misses it.
FanOut(m) ==
  send' = [c \in Clients |->
             IF c \in clients /\ Len(send[c]) < ClientBuffer
             THEN Append(send[c], m) ELSE send[c]]

\* Seeded fault: the sends to the clients block.
AllReady == \A c \in clients : Len(send[c]) < ClientBuffer

\* The default branch: Run never waits for a client.
Ready == TRUE

\* Seeded fault: an event some client missed is sent again.
KeptForLaggards ==
  IF \E c \in clients : Len(send[c]) >= ClientBuffer THEN broadcast
  ELSE Tail(broadcast)

\* The event has left the channel, whoever missed it.
AfterReceive == Tail(broadcast)

\* Receive from Broadcast.
Deliver ==
  /\ broadcast # <<>>
  /\ Ready
  /\ FanOut(Head(broadcast))
  /\ broadcast' = AfterReceive
  /\ UNCHANGED <<events, clients, sendClosed, clientVars, received>>

\* Seeded fault: pings are left out when events were sent.
OnlyWhenQuiet == events = 0

\* The ticker fires for every client, busy or not.
PingDue == TRUE

\* The ping ticker.
PingTick ==
  /\ PingDue
  /\ FanOut(Ping)
  /\ UNCHANGED <<events, hubVars, sendClosed, clientVars, received>>

-----------------------------------------------------------------------------
(* WsHandler: the reading goroutine of client c and its writer.            *)

Connect(c) ==
  /\ handler[c] = "new"
  /\ handler' = [handler EXCEPT ![c] = "register"]
  /\ conn' = [conn EXCEPT ![c] = "open"]
  /\ UNCHANGED <<events, hubVars, send, sendClosed, writer, received>>

\* ReadMessage fails on a closed connection.
ReadFails(c) ==
  /\ handler[c] = "read"
  /\ conn[c] = "closed"
  /\ handler' = [handler EXCEPT ![c] = "await"]
  /\ UNCHANGED <<events, hubVars, send, sendClosed, writer, conn, received>>

\* Seeded fault: the handler does not wait for its writer.
WriterStarted(c) == writer[c] # "new"

\* <-writerDone.
WriterDone(c) == writer[c] = "exited"

AwaitWriter(c) ==
  /\ handler[c] = "await"
  /\ WriterDone(c)
  /\ handler' = [handler EXCEPT ![c] = "unregister"]
  /\ UNCHANGED <<events, hubVars, send, sendClosed, writer, conn, received>>

\* The writer takes a frame and writes it.  Data written to a connection that
\* the peer has closed may vanish without an error.
Write(c) ==
  /\ writer[c] = "run"
  /\ send[c] # <<>>
  /\ conn[c] # "stalled"
  /\ send' = [send EXCEPT ![c] = Tail(@)]
  /\ received' = IF conn[c] = "open" /\ Head(send[c]) # Ping
                 THEN [received EXCEPT ![c] = Append(@, Head(send[c]))]
                 ELSE received
  /\ UNCHANGED <<events, hubVars, sendClosed, clientVars>>

\* The write fails, or runs into its deadline: the writer returns.  (The range
\* over c.send never ends by itself: see SafeInv in AnalyticsProofs.)
WriteFails(c) ==
  /\ writer[c] = "run"
  /\ send[c] # <<>>
  /\ conn[c] # "open"
  /\ send' = [send EXCEPT ![c] = Tail(@)]
  /\ writer' = [writer EXCEPT ![c] = "exited"]
  /\ UNCHANGED <<events, hubVars, sendClosed, handler, conn, received>>

-----------------------------------------------------------------------------
(* The peers.                                                              *)

PeerStalls(c) ==
  /\ conn[c] = "open"
  /\ conn' = [conn EXCEPT ![c] = "stalled"]
  /\ UNCHANGED <<events, hubVars, send, sendClosed, handler, writer, received>>

PeerRecovers(c) ==
  /\ conn[c] = "stalled"
  /\ conn' = [conn EXCEPT ![c] = "open"]
  /\ UNCHANGED <<events, hubVars, send, sendClosed, handler, writer, received>>

PeerCloses(c) ==
  /\ conn[c] # "closed"
  /\ conn' = [conn EXCEPT ![c] = "closed"]
  /\ UNCHANGED <<events, hubVars, send, sendClosed, handler, writer, received>>

-----------------------------------------------------------------------------
HandlerStep(c) == ReadFails(c) \/ AwaitWriter(c)

WriterStep(c) == Write(c) \/ WriteFails(c)

HubNext ==
  \/ BroadcastEvent
  \/ \E c \in Clients :
       \/ Connect(c) \/ Register(c) \/ Unregister(c)
       \/ HandlerStep(c) \/ WriterStep(c)
       \/ PeerStalls(c) \/ PeerRecovers(c) \/ PeerCloses(c)
  \/ Deliver \/ PingTick

\* The select of Run serves every ready case in turn, and the goroutines run.
\* Writing to a connection that is not open fails sooner or later.  Nothing is
\* assumed of the peers.
HubFairness ==
  /\ WF_wsVars(Deliver)
  /\ WF_wsVars(PingTick)
  /\ \A c \in Clients :
       /\ WF_wsVars(Register(c)) /\ WF_wsVars(Unregister(c))
       /\ WF_wsVars(HandlerStep(c)) /\ WF_wsVars(WriterStep(c))
       /\ SF_wsVars(WriteFails(c))

HubSpec == HubInit /\ [][HubNext]_wsVars

FairHubSpec == HubSpec /\ HubFairness

-----------------------------------------------------------------------------
(* Properties.                                                             *)

HubTypeOK ==
  /\ events \in Nat
  /\ broadcast \in Seq(Nat)
  /\ Len(broadcast) <= BroadcastCap
  /\ clients \subseteq Clients
  /\ send \in [Clients -> Seq(Nat)]
  /\ \A c \in Clients : Len(send[c]) <= ClientBuffer
  /\ sendClosed \subseteq Clients
  /\ handler \in [Clients -> {"new", "register", "read", "await", "unregister",
                              "done"}]
  /\ writer \in [Clients -> {"new", "run", "exited"}]
  /\ conn \in [Clients -> {"open", "stalled", "closed"}]
  /\ received \in [Clients -> Seq(Nat)]

\* A peer sees the events in the order in which they were stored, each at most
\* once, however many it misses.
InOrder ==
  \A c \in Clients : \A i, j \in 1..Len(received[c]) :
    i < j => received[c][i] < received[c][j]

\* A stalled peer never stops the stream: whatever is on the Broadcast channel
\* is fanned out.
NeverStalls == broadcast # <<>> ~> broadcast = <<>>

\* A peer that has gone away is removed even if no event is ever stored again:
\* its handler waits for the writer, the writer for a frame, and the ping is
\* the frame that lets it notice.
GoneIsRemoved ==
  \A c \in Clients : c \in clients /\ conn[c] = "closed" ~> c \notin clients

\* websocket.go: "A slow/stuck client gets dropped": a client whose writer has
\* given up is removed.
SlowIsDropped ==
  \A c \in Clients : c \in clients /\ writer[c] = "exited" ~> c \notin clients

=============================================================================
