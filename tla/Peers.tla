------------------------------- MODULE Peers -------------------------------
(***************************************************************************)
(* The sockets of the server (netplay.cpp): reading, the queue of writes,  *)
(* errors, and the closing that waits for the writes.                      *)
(*                                                                         *)
(* All handlers run on one thread, the operations they start complete on   *)
(* their own: a socket is a record with the operations in progress, and    *)
(* an action is the completion of one of them.  What packets say is left   *)
(* out: an event, a response to a command, or the notification of an       *)
(* error.  What the server makes of them is the module Server.             *)
(***************************************************************************)
EXTENDS Naturals, Sequences

CONSTANTS
  Peers,      \* PeerSocket objects, one per connection
  ReadMax,    \* bound on the packets the server reads
  TellMax     \* bound on the events it broadcasts by itself

ASSUME BoundsAssumption == ReadMax \in Nat /\ TellMax \in Nat

VARIABLES
  sock,       \* the sockets
  reads,      \* packets read so far
  tells,      \* events broadcast so far
  server      \* "running", "stopped", or the assertion that failed

vars == <<sock, reads, tells, server>>

Packets == {"EVENT", "RESPONSE", "NOTIFICATION"}

Sockets ==
  [ state   : {"NEW", "OPEN", "CLOSED"},   \* OPEN: in ServerSocket::peers_
    reading : {"NOTHING", "SIZE", "DATA"}, \* the async_read in progress
    queue   : Seq(Packets),                \* write_queue_
    writing : Seq(Packets),                \* the async_write in progress
    delayed : BOOLEAN,                     \* delayed_close_
    error   : BOOLEAN,                     \* has_error_
    failed  : BOOLEAN,   \* a write failed before anything else did (history)
    cut     : BOOLEAN,   \* the connection is broken
    sent    : Seq(Packets),   \* all that was queued (history, until the cut)
    got     : Seq(Packets) ]  \* all that the client received (likewise)

NewSocket ==
  [ state |-> "NEW", reading |-> "NOTHING", queue |-> <<>>, writing |-> <<>>,
    delayed |-> FALSE, error |-> FALSE, failed |-> FALSE, cut |-> FALSE,
    sent |-> <<>>, got |-> <<>> ]

Open == {x \in Peers : sock[x].state = "OPEN"}

-----------------------------------------------------------------------------
(* Operations on one socket.                                               *)

(* Mutant: writeRaw that always writes.                                    *)
WriteAtOnce(s, m) ==
  [s EXCEPT !.queue = Append(@, m),
            !.sent = IF s.cut THEN @ ELSE Append(@, m),
            !.writing = Append(@, m)]

(* writeRaw: writes the packet at once if no other is being written.       *)
Write(s, m) ==
  [s EXCEPT !.queue = Append(@, m),
            !.sent = IF s.cut THEN @ ELSE Append(@, m),
            !.writing = IF s.queue = <<>> THEN Append(@, m) ELSE @]

(* PeerSocket::processError: once only.  The queue is not empty after the  *)
(* notification, so that closeAfterWrites never closes at once.            *)
Errored(s) ==
  IF s.error THEN s
  ELSE [Write(s, "NOTIFICATION") EXCEPT !.error = TRUE, !.delayed = TRUE]

(* Mutant: the queue is cleared instead of popped.                         *)
WrittenAll(s) ==
  [s EXCEPT !.queue = <<>>, !.writing = <<>>,
            !.got = IF s.cut THEN @ ELSE Append(@, Head(s.writing))]

(* The front packet has left; the client receives it, if it still can.     *)
Written(s) ==
  [s EXCEPT !.queue = Tail(@),
            !.writing = IF Tail(s.queue) = <<>> THEN <<>> ELSE <<Head(Tail(s.queue))>>,
            !.got = IF s.cut THEN @ ELSE Append(@, Head(s.writing))]

(* A write that fails stays in the queue, and nothing writes it again.     *)
WriteFailed(s) ==
  [Errored([s EXCEPT !.writing = <<>>]) EXCEPT !.failed = ~ s.delayed]

(* Mutant: the operations in progress go on.                               *)
ClosedReading(s) == [s EXCEPT !.state = "CLOSED"]

(* PeerSocket::close: the operations in progress are aborted.              *)
Closed(s) ==
  [s EXCEPT !.state = "CLOSED", !.reading = "NOTHING", !.writing = <<>>]

Reads(s, what) == [s EXCEPT !.reading = what]

(* broadcastEvent, to the peers of X: those being closed are told too.     *)
Tell(socks, X) ==
  [x \in Peers |-> IF x \in X THEN Write(socks[x], "EVENT") ELSE socks[x]]

-----------------------------------------------------------------------------
(* Actions.                                                                *)

Init ==
  /\ sock = [x \in Peers |-> NewSocket]
  /\ reads = 0 /\ tells = 0
  /\ server = "running"

Set(x, s) == sock' = [sock EXCEPT ![x] = s]

(* onAccept: the peer is welcomed by onPeerConnect, which sends it the     *)
(* state of the server and starts reading; or it is turned away, without   *)
(* anything having been read.                                              *)
Accept(x) ==
  LET s == [sock[x] EXCEPT !.state = "OPEN"]
  IN  /\ sock[x].state = "NEW"
      /\ Set(x, Reads(Write(s, "EVENT"), "SIZE")) \/ Set(x, Errored(s))
      /\ UNCHANGED <<reads, tells, server>>

(* The server and its sockets are gone.                                    *)
End(why) ==
  /\ server' = why
  /\ sock' = [x \in Peers |-> NewSocket]
  /\ UNCHANGED <<reads, tells>>

(* When the accept fails, the socket closed is looked for among the peers, *)
(* and the assertion that it is there fails.                               *)
AcceptFails ==
  (\E x \in Peers : sock[x].state = "NEW") /\ End("peer not found")

(* onReadSize.  A packet of no size is skipped, with no effect here.       *)
OnReadSize(x) ==
  /\ sock[x].reading = "SIZE"
  /\ ~ sock[x].delayed /\ ~ sock[x].cut /\ reads < ReadMax
  /\ \/ Set(x, Reads(sock[x], "DATA"))
     \/ Set(x, Reads(Errored(sock[x]), "NOTHING"))        \* too large
  /\ reads' = reads + 1
  /\ UNCHANGED <<tells, server>>

(* onReadData: the handler of the packet may broadcast an event, then      *)
(* responds to a command.  It may also throw after having broadcast; that  *)
(* is an error, like a packet without content.                             *)
OnReadData(x) ==
  /\ sock[x].reading = "DATA" /\ ~ sock[x].delayed /\ ~ sock[x].cut
  /\ \E X \in {Open \ {x}, Open} :
       LET told == Tell(sock, X)
       IN  \E s \in { Reads(told[x], "SIZE"),
                      Reads(Write(told[x], "RESPONSE"), "SIZE"),
                      Reads(Errored(told[x]), "NOTHING") } :
             sock' = [told EXCEPT ![x] = s]
  /\ UNCHANGED <<reads, tells, server>>

(* A read that completes while the peer is being closed is ignored.        *)
OnReadIgnored(x) ==
  /\ sock[x].reading # "NOTHING" /\ sock[x].delayed
  /\ Set(x, Reads(sock[x], "NOTHING"))
  /\ UNCHANGED <<reads, tells, server>>

OnReadError(x) ==
  /\ sock[x].reading # "NOTHING" /\ ~ sock[x].delayed /\ sock[x].cut
  /\ Set(x, Reads(Errored(sock[x]), "NOTHING"))
  /\ UNCHANGED <<reads, tells, server>>

(* close, and onPeerDisconnect: the departure of players, if any are found *)
(* for the peer, is broadcast to those that remain.                        *)
Close(x, s) ==
  /\ \E X \in {{}, Open \ {x}} :
       sock' = [Tell(sock, X) EXCEPT ![x] = Closed(s)]
  /\ UNCHANGED <<reads, tells, server>>

(* Mutant: closes without looking at the queue.                            *)
OnWriteEager(x) ==
  /\ sock[x].writing # <<>>
  /\ LET s == Written(sock[x])
     IN  IF s.delayed
         THEN Close(x, s)
         ELSE Set(x, s) /\ UNCHANGED <<reads, tells, server>>

(* onWrite, without an error: writes to a broken connection may succeed.   *)
OnWrite(x) ==
  /\ sock[x].writing # <<>>
  /\ LET s == Written(sock[x])
     IN  IF s.queue = <<>> /\ s.delayed
         THEN Close(x, s)
         ELSE Set(x, s) /\ UNCHANGED <<reads, tells, server>>

(* Mutant: an error like any other, even while closing.                    *)
OnWriteErrorLate(x) ==
  /\ sock[x].writing # <<>> /\ sock[x].cut
  /\ Set(x, WriteFailed(sock[x])) /\ UNCHANGED <<reads, tells, server>>

OnWriteError(x) ==
  /\ sock[x].writing # <<>> /\ sock[x].cut
  /\ IF sock[x].delayed
     THEN Close(x, sock[x])
     ELSE Set(x, WriteFailed(sock[x])) /\ UNCHANGED <<reads, tells, server>>

(* An event of the server itself: a step of its own player, a match that   *)
(* starts.                                                                 *)
Broadcast ==
  /\ tells < TellMax /\ Open # {}
  /\ sock' = Tell(sock, Open)
  /\ tells' = tells + 1
  /\ UNCHANGED <<reads, server>>

(* ServerSocket::close: does not wait for the writes.  What the peers      *)
(* closed last are told of the others is aborted with the rest.            *)
Stop == End("stopped")

(* The environment: the client closes its end, or the network fails.       *)
Cut(x) ==
  /\ x \in Open /\ ~ sock[x].cut
  /\ Set(x, [sock[x] EXCEPT !.cut = TRUE, !.sent = <<>>, !.got = <<>>])
  /\ UNCHANGED <<reads, tells, server>>

Handle(x) ==
  OnReadSize(x) \/ OnReadData(x) \/ OnReadIgnored(x) \/ OnReadError(x)
    \/ OnWrite(x) \/ OnWriteError(x)

Next ==
  \/ /\ server = "running"
     /\ \/ \E x \in Peers : Accept(x) \/ Handle(x) \/ Cut(x)
        \/ AcceptFails \/ Broadcast \/ Stop
  \/ server # "running" /\ UNCHANGED vars

(* asio completes every operation: a write is taken by the client or       *)
(* fails, a read on a broken connection fails.  A client may stay silent,  *)
(* so that a read of data need not complete.                               *)
Fairness ==
  \A x \in Peers :
    WF_vars(server = "running" /\ (OnWrite(x) \/ OnWriteError(x)
                                     \/ OnReadError(x)))

Spec == Init /\ [][Next]_vars /\ Fairness

-----------------------------------------------------------------------------
(* Properties.                                                             *)

(* Operations are in progress on open sockets only; an error and the close *)
(* that waits go together.                                                 *)
PeersTypeOK ==
  /\ sock \in [Peers -> Sockets]
  /\ \A x \in Peers :
       /\ sock[x].error = sock[x].delayed
       /\ x \notin Open => sock[x].reading = "NOTHING" /\ sock[x].writing = <<>>
  /\ reads \in 0..ReadMax /\ tells \in 0..TellMax
  /\ server \in {"running", "stopped", "peer not found"}

(* A peer has one write in progress, that of the packet at the front of    *)
(* its queue, whenever it has packets to be told, and none otherwise; two  *)
(* writes at once would mix their bytes (writeRaw and onWrite, which hand  *)
(* the writing to each other).  The exception is a peer whose write failed *)
(* before anything else did: its queue waits for ever behind that packet.  *)
OneWriteAtATime ==
  \A x \in Open :
    sock[x].writing = IF sock[x].queue = <<>> \/ sock[x].failed THEN <<>>
                      ELSE <<Head(sock[x].queue)>>

(* What a client has received followed by what is queued is what the       *)
(* server had to tell it, in order and once, as long as its connection     *)
(* holds: whichever handlers queue, and however the writes complete.       *)
NothingLost ==
  \A x \in Open : ~ sock[x].cut => sock[x].sent = sock[x].got \o sock[x].queue

(* A server that closes a connection in working order has told the client  *)
(* everything, the reason included, and once ("Do pending write operations *)
(* and close", closeAfterWrites); only the end of the server cuts short.   *)
ToldBeforeClosed ==
  \A x \in Peers :
    sock[x].state = "CLOSED" /\ ~ sock[x].cut =>
      /\ sock[x].got = sock[x].sent
      /\ \E i \in 1..Len(sock[x].got) :
           {j \in 1..Len(sock[x].got) : sock[x].got[j] = "NOTIFICATION"} = {i}

Leaves(x) == sock[x].state = "CLOSED" \/ server # "running"

(* A peer with an error, or whose connection breaks, is closed in the end, *)
(* and its players with it, unless a write fails first (processError,      *)
(* onWrite).                                                               *)
ErrorsClose ==
  \A x \in Peers :
    (sock[x].error \/ sock[x].cut) ~> (Leaves(x) \/ sock[x].failed)

=============================================================================
