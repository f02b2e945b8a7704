---------------------------- MODULE PeersProofs ----------------------------
(***************************************************************************)
(* Proofs about Peers, for any connections and any bounds.  A handler acts *)
(* on one socket at a time, broadcasts included: the inductive invariant   *)
(* PeersInv says of each socket what relates its queue to its write in     *)
(* progress, and what was sent to what was received (SockInv).  It is      *)
(* stronger than the properties it implies: a write that failed leaves a   *)
(* queue that is not empty, without which writeRaw would start again, and  *)
(* a client is notified once it is being closed and not before.            *)
(***************************************************************************)
EXTENDS Peers, SequenceTheorems, TLAPS

Notes(q) == {i \in 1..Len(q) : q[i] = "NOTIFICATION"}

(* The packet being written is the front of the queue.                     *)
FrontIsWritten(s) ==
  s.writing = IF s.queue = <<>> \/ s.failed THEN <<>> ELSE <<Head(s.queue)>>

SockInv(s) ==
  /\ s \in Sockets
  /\ s.error = s.delayed
  /\ s.state # "OPEN" => s.reading = "NOTHING" /\ s.writing = <<>>
  /\ s.state = "NEW" => s = NewSocket
  /\ s.state = "OPEN" => FrontIsWritten(s)
  /\ s.failed => s.queue # <<>>
  /\ s.state = "OPEN" /\ ~ s.cut => s.sent = s.got \o s.queue
  /\ s.state = "CLOSED" /\ ~ s.cut => s.sent = s.got /\ s.delayed
  /\ s.cut \/ IF s.delayed THEN \E i \in 1..Len(s.sent) : Notes(s.sent) = {i}
                           ELSE Notes(s.sent) = {}

AllSockets(socks) ==
  /\ socks = [x \in Peers |-> socks[x]]
  /\ \A x \in Peers : SockInv(socks[x])

PeersInv ==
  /\ AllSockets(sock)
  /\ reads \in 0..ReadMax /\ tells \in 0..TellMax
  /\ server \in {"running", "stopped", "peer not found"}

-----------------------------------------------------------------------------
(* What appending a packet does to the notifications of a sequence.        *)
LEMMA NotesOfAppend ==
  ASSUME NEW q \in Seq(Packets), NEW m \in Packets
  PROVE  Notes(Append(q, m)) =
           Notes(q) \union IF m = "NOTIFICATION" THEN {Len(q) + 1} ELSE {}
<1>1. /\ Len(Append(q, m)) = Len(q) + 1 /\ Len(q) \in Nat
      /\ \A i \in 1..Len(q) : Append(q, m)[i] = q[i]
      /\ Append(q, m)[Len(q) + 1] = m
  BY AppendProperties, LenProperties
<1>2. 1..(Len(q) + 1) = (1..Len(q)) \union {Len(q) + 1}
  BY <1>1
<1>3. QED BY <1>1, <1>2 DEF Notes

(* Packets queued behind those received and waiting (writeRaw).            *)
LEMMA QueueGrows ==
  ASSUME NEW g \in Seq(Packets), NEW q \in Seq(Packets), NEW m \in Packets
  PROVE  Append(g \o q, m) = g \o Append(q, m)
<1>1. /\ Append(q, m) = q \o <<m>> /\ <<m>> \in Seq(Packets)
      /\ g \o q \in Seq(Packets)
  BY AppendIsConcat, ConcatProperties
<1>2. Append(g \o q, m) = (g \o q) \o <<m>>
  BY <1>1, AppendIsConcat
<1>3. QED BY <1>1, <1>2, ConcatAssociative

(* The front of the queue received instead of waiting (onWrite).           *)
LEMMA FrontMoves ==
  ASSUME NEW g \in Seq(Packets), NEW q \in Seq(Packets), q # <<>>
  PROVE  /\ Head(q) \in Packets /\ Tail(q) \in Seq(Packets)
         /\ Append(g, Head(q)) \o Tail(q) = g \o q
<1>1. /\ Head(q) \in Packets /\ Tail(q) \in Seq(Packets)
      /\ q = <<Head(q)>> \o Tail(q)
  <2>1. Head(q) \in Packets /\ Tail(q) \in Seq(Packets)
    BY HeadTailProperties
  <2> DEFINE r == <<Head(q)>> \o Tail(q)
  <2>2. /\ Len(Tail(q)) = Len(q) - 1 /\ Len(q) \in Nat \ {0}
        /\ \A i \in 1..Len(Tail(q)) : Tail(q)[i] = q[i + 1]
        /\ q \in [1..Len(q) -> Packets]
    BY HeadTailProperties, LenProperties, EmptySeq
  <2>3. <<Head(q)>> \in Seq(Packets) /\ Len(<<Head(q)>>) = 1
        /\ <<Head(q)>>[1] = q[1]
    BY <2>1
  <2>4. /\ r \in Seq(Packets) /\ Len(r) = Len(q)
        /\ \A i \in 1..Len(q) : r[i] = q[i]
    BY <2>1, <2>2, <2>3, ConcatProperties
  <2>5. q = r
    BY <2>4, SeqEqual
  <2>6. QED BY <2>1, <2>5
<1>2. /\ Append(g, Head(q)) = g \o <<Head(q)>>
      /\ <<Head(q)>> \in Seq(Packets)
  BY <1>1, AppendIsConcat
<1>3. QED BY <1>1, <1>2, ConcatAssociative

-----------------------------------------------------------------------------
(* The operations on one socket keep SockInv.                              *)

(* Queuing a packet, on a peer that is open.                               *)
LEMMA WriteOn ==
  ASSUME NEW s, SockInv(s), s.state = "OPEN", NEW m \in Packets
  PROVE  /\ Write(s, m) \in Sockets
         /\ Write(s, m).state = "OPEN" /\ Write(s, m).cut = s.cut
         /\ Write(s, m).delayed = s.delayed /\ Write(s, m).error = s.error
         /\ Write(s, m).reading = s.reading /\ Write(s, m).failed = s.failed
         /\ Write(s, m).queue = Append(s.queue, m) /\ Write(s, m).queue # <<>>
         /\ FrontIsWritten(Write(s, m))
         /\ ~ s.cut =>
              /\ Write(s, m).sent = Write(s, m).got \o Write(s, m).queue
              /\ Write(s, m).sent = Append(s.sent, m)
<1> DEFINE w == Write(s, m)
<1>1. /\ s \in Sockets /\ s.queue \in Seq(Packets) /\ s.sent \in Seq(Packets)
      /\ s.got \in Seq(Packets) /\ s.writing \in Seq(Packets)
      /\ FrontIsWritten(s) /\ (s.failed => s.queue # <<>>)
      /\ (~ s.cut => s.sent = s.got \o s.queue)
  BY DEF SockInv, Sockets
<1>2. /\ Append(s.queue, m) \in Seq(Packets) /\ Append(s.queue, m) # <<>>
      /\ Append(s.sent, m) \in Seq(Packets)
      /\ Append(s.writing, m) \in Seq(Packets)
      /\ Head(Append(s.queue, m)) = IF s.queue = <<>> THEN m ELSE Head(s.queue)
  BY <1>1, AppendProperties, HeadTailAppend
<1>3. /\ w.queue = Append(s.queue, m) /\ w.failed = s.failed
      /\ w.writing = IF s.queue = <<>> THEN Append(s.writing, m) ELSE s.writing
      /\ w.sent = IF s.cut THEN s.sent ELSE Append(s.sent, m)
      /\ w.state = s.state /\ w.cut = s.cut /\ w.got = s.got
      /\ w.delayed = s.delayed /\ w.error = s.error /\ w.reading = s.reading
  BY <1>1 DEF Write, Sockets
<1>4. w \in Sockets
  BY <1>1, <1>2 DEF Write, Sockets
<1>5. FrontIsWritten(w)
  <2>1. CASE s.queue = <<>>
    <3>1. s.writing = <<>> /\ ~ s.failed /\ Append(s.writing, m) = <<m>>
      BY <1>1, <2>1 DEF FrontIsWritten
    <3>2. QED BY <1>2, <1>3, <2>1, <3>1 DEF FrontIsWritten
  <2>2. CASE s.queue # <<>>
    BY <1>1, <1>2, <1>3, <2>2 DEF FrontIsWritten
  <2>3. QED BY <2>1, <2>2
<1>6. ~ s.cut => w.sent = w.got \o w.queue
  BY <1>1, <1>3, QueueGrows
<1>7. QED BY <1>2, <1>3, <1>4, <1>5, <1>6

(* A packet that says nothing of an error (broadcastEvent, responses).     *)
LEMMA WriteKeeps ==
  ASSUME NEW s, SockInv(s), s.state = "OPEN", NEW m \in {"EVENT", "RESPONSE"}
  PROVE  SockInv(Write(s, m))
<1> DEFINE w == Write(s, m)
<1>1. m \in Packets /\ m # "NOTIFICATION" /\ s \in Sockets
      /\ s.sent \in Seq(Packets) /\ s.error = s.delayed
  BY DEF Packets, SockInv, Sockets
<1>2. ~ s.cut => Notes(w.sent) = Notes(s.sent) /\ Len(w.sent) = Len(s.sent) + 1
                  /\ Len(s.sent) \in Nat
  BY <1>1, WriteOn, NotesOfAppend, AppendProperties, LenProperties
<1>6. w.cut = s.cut /\ w.delayed = s.delayed
  BY <1>1, WriteOn
<1>3. s.cut \/ IF s.delayed THEN \E i \in 1..Len(s.sent) : Notes(s.sent) = {i}
                            ELSE Notes(s.sent) = {}
  BY DEF SockInv
<1>4. w.cut \/ IF w.delayed THEN \E i \in 1..Len(w.sent) : Notes(w.sent) = {i}
                            ELSE Notes(w.sent) = {}
  <2> HIDE DEF w
  <2>1. CASE s.cut
    BY <2>1, <1>6
  <2>2. CASE ~ s.cut /\ ~ s.delayed
    BY <2>2, <1>2, <1>3, <1>6
  <2>3. CASE ~ s.cut /\ s.delayed
    <3>1. PICK i \in 1..Len(s.sent) : Notes(s.sent) = {i}
      BY <2>3, <1>3
    <3>2. i \in 1..Len(w.sent) /\ Notes(w.sent) = {i}
      BY <2>3, <3>1, <1>2
    <3>3. QED BY <2>3, <3>2, <1>6
  <2>4. QED BY <2>1, <2>2, <2>3
<1>5. QED BY <1>1, <1>4, WriteOn DEF SockInv

(* An error is notified once (PeerSocket::processError).                   *)
LEMMA ErroredKeeps ==
  ASSUME NEW s, SockInv(s), s.state = "OPEN"
  PROVE  /\ SockInv(Errored(s)) /\ Errored(s).state = "OPEN"
         /\ Errored(s).cut = s.cut
<1>1. CASE s.error
  BY <1>1 DEF Errored
<1>2. CASE ~ s.error
  <2> DEFINE m == "NOTIFICATION"
             w == Write(s, m)
             e == [w EXCEPT !.error = TRUE, !.delayed = TRUE]
  <2>1. m \in Packets /\ s \in Sockets /\ s.sent \in Seq(Packets)
        /\ s.error = s.delayed /\ ~ s.delayed /\ Errored(s) = e
    BY <1>2 DEF Packets, SockInv, Sockets, Errored
  <2>2. /\ w \in Sockets /\ w.state = "OPEN" /\ w.cut = s.cut
        /\ w.queue # <<>> /\ FrontIsWritten(w)
        /\ ~ s.cut => w.sent = w.got \o w.queue /\ w.sent = Append(s.sent, m)
    BY <2>1, WriteOn
  <2> HIDE DEF w
  <2>3. /\ e \in Sockets /\ e.error /\ e.delayed /\ e.state = "OPEN"
        /\ e.cut = s.cut /\ e.queue = w.queue /\ e.failed = w.failed
        /\ e.writing = w.writing /\ e.sent = w.sent /\ e.got = w.got
        /\ e.error = e.delayed
    BY <2>2 DEF Sockets
  <2>4. ~ s.cut => Notes(s.sent) = {}
    BY <2>1 DEF SockInv
  <2>5. ~ s.cut => \E i \in 1..Len(e.sent) : Notes(e.sent) = {i}
    <3> SUFFICES ASSUME ~ s.cut PROVE \E i \in 1..Len(e.sent) : Notes(e.sent) = {i}
      OBVIOUS
    <3>0. e.sent = Append(s.sent, m)
      BY <2>2, <2>3
    <3> HIDE DEF e
    <3>1. Notes(e.sent) = Notes(s.sent) \union {Len(s.sent) + 1}
          /\ Len(e.sent) = Len(s.sent) + 1 /\ Len(s.sent) \in Nat
      BY <2>1, <3>0, NotesOfAppend, AppendProperties, LenProperties
    <3>2. Notes(e.sent) = {Len(s.sent) + 1} /\ Len(s.sent) + 1 \in 1..Len(e.sent)
      BY <2>4, <3>1
    <3>3. QED BY <3>2
  <2> HIDE DEF e
  <2>6. SockInv(e)
    BY <2>2, <2>3, <2>5 DEF SockInv, FrontIsWritten
  <2>7. QED BY <2>1, <2>3, <2>6
<1>3. QED BY <1>1, <1>2

(* What an operation that reads changes is only the read in progress.      *)
LEMMA ReadsKeeps ==
  ASSUME NEW s, SockInv(s), s.state = "OPEN",
         NEW what \in {"NOTHING", "SIZE", "DATA"}
  PROVE  SockInv(Reads(s, what)) /\ Reads(s, what).state = "OPEN"
BY DEF SockInv, Reads, Sockets, FrontIsWritten

(* A write that completes hands over to the next one (onWrite).            *)
LEMMA WrittenKeeps ==
  ASSUME NEW s, SockInv(s), s.writing # <<>>
  PROVE  SockInv(Written(s)) /\ Written(s).state = "OPEN"
<1> DEFINE w == Written(s)
<1>1. /\ s \in Sockets /\ s.state = "OPEN" /\ ~ s.failed /\ s.queue # <<>>
      /\ s.writing = <<Head(s.queue)>> /\ s.error = s.delayed
      /\ s.queue \in Seq(Packets) /\ s.got \in Seq(Packets)
  BY DEF SockInv, Sockets, FrontIsWritten
<1>2. /\ Head(s.queue) \in Packets /\ Tail(s.queue) \in Seq(Packets)
      /\ Append(s.got, Head(s.queue)) \o Tail(s.queue) = s.got \o s.queue
      /\ Append(s.got, Head(s.queue)) \in Seq(Packets)
      /\ Tail(s.queue) # <<>> => Head(Tail(s.queue)) \in Packets
  BY <1>1, FrontMoves, AppendProperties, HeadTailProperties
<1>3. Head(s.writing) = Head(s.queue)
  BY <1>1
<1> DEFINE next == IF Tail(s.queue) = <<>> THEN <<>> ELSE <<Head(Tail(s.queue))>>
           got == IF s.cut THEN s.got ELSE Append(s.got, Head(s.queue))
<1>4. next \in Seq(Packets) /\ got \in Seq(Packets)
  BY <1>1, <1>2, EmptySeq
<1>5. w = [s EXCEPT !.queue = Tail(s.queue), !.writing = next, !.got = got]
  BY <1>1, <1>3 DEF Written, Sockets
<1> HIDE DEF next, got, w
<1>6. /\ w \in Sockets /\ w.queue = Tail(s.queue) /\ w.writing = next
      /\ w.got = got /\ w.sent = s.sent /\ w.cut = s.cut /\ w.failed = s.failed
      /\ w.error = s.error /\ w.delayed = s.delayed /\ w.state = s.state
  BY <1>1, <1>2, <1>4, <1>5 DEF Sockets
<1>7. FrontIsWritten(w)
  BY <1>1, <1>6 DEF FrontIsWritten, next
<1>8. ~ s.cut => w.sent = w.got \o w.queue
  BY <1>1, <1>2, <1>6 DEF SockInv, got
<1>9. SockInv(w)
  BY <1>1, <1>6, <1>7, <1>8 DEF SockInv
<1>10. QED BY <1>1, <1>6, <1>9 DEF w

(* A peer closed had been told everything, or could not be.                *)
LEMMA ClosedKeeps ==
  ASSUME NEW s, SockInv(s), s.state = "OPEN", s.delayed,
         s.cut \/ s.queue = <<>>
  PROVE  SockInv(Closed(s))
<1> DEFINE c == Closed(s)
<1>1. s \in Sockets /\ s.error = s.delayed /\ (s.failed => s.queue # <<>>)
      /\ s.got \in Seq(Packets)
  BY DEF SockInv, Sockets
<1>2. ~ s.cut => s.sent = s.got
  <2>1. ~ s.cut => s.sent = s.got \o <<>>
    BY DEF SockInv
  <2>2. QED BY <1>1, <2>1, ConcatEmptySeq
<1>3. /\ c \in Sockets /\ c.state = "CLOSED" /\ c.reading = "NOTHING"
      /\ c.writing = <<>> /\ c.queue = s.queue /\ c.sent = s.sent
      /\ c.got = s.got /\ c.cut = s.cut /\ c.failed = s.failed
      /\ c.error = s.error /\ c.delayed = s.delayed
  BY <1>1, EmptySeq DEF Closed, Sockets
<1>4. c.cut \/ \E i \in 1..Len(c.sent) : Notes(c.sent) = {i}
  BY <1>3 DEF SockInv
<1> HIDE DEF c
<1>5. SockInv(c)
  BY <1>1, <1>2, <1>3, <1>4 DEF SockInv
<1>6. QED BY <1>5 DEF c

(* A write that fails: the notification waits behind it.                   *)
LEMMA WriteFailedKeeps ==
  ASSUME NEW s, SockInv(s), s.writing # <<>>, s.cut, ~ s.delayed
  PROVE  SockInv(WriteFailed(s)) /\ WriteFailed(s).state = "OPEN"
<1> DEFINE q == Append(s.queue, "NOTIFICATION")
           f == [s EXCEPT !.queue = q, !.writing = <<>>, !.error = TRUE,
                          !.delayed = TRUE, !.failed = TRUE]
<1>1. /\ s \in Sockets /\ s.state = "OPEN" /\ ~ s.error /\ s.queue # <<>>
      /\ s.queue \in Seq(Packets)
  BY DEF SockInv, Sockets, FrontIsWritten
<1>2. q \in Seq(Packets) /\ q # <<>>
  BY <1>1, AppendProperties DEF Packets
<1>3. WriteFailed(s) = f
  BY <1>1 DEF WriteFailed, Errored, Write, Sockets
<1> HIDE DEF q
<1>4. /\ f \in Sockets /\ f.state = "OPEN" /\ f.queue = q /\ f.writing = <<>>
      /\ f.error /\ f.delayed /\ f.failed /\ f.cut /\ f.error = f.delayed
  BY <1>1, <1>2, EmptySeq DEF Sockets
<1> HIDE DEF f
<1>5. SockInv(f)
  BY <1>2, <1>4 DEF SockInv, FrontIsWritten
<1>6. QED BY <1>3, <1>4, <1>5

(* A broadcast, to any of the peers that are open.                         *)
LEMMA TellKeeps ==
  ASSUME AllSockets(sock), NEW X \in SUBSET Open
  PROVE  /\ AllSockets(Tell(sock, X))
         /\ \A x \in Peers :
              /\ Tell(sock, X)[x].state = sock[x].state
              /\ x \notin X => Tell(sock, X)[x] = sock[x]
<1> DEFINE t == Tell(sock, X)
<1>1. ASSUME NEW x \in Peers
      PROVE  SockInv(t[x]) /\ t[x].state = sock[x].state
             /\ (x \notin X => t[x] = sock[x])
  <2>1. SockInv(sock[x])
    BY DEF AllSockets
  <2>2. CASE x \in X
    <3>1. sock[x].state = "OPEN" /\ t[x] = Write(sock[x], "EVENT")
      BY <2>2 DEF Open, Tell
    <3>2. SockInv(Write(sock[x], "EVENT"))
      BY <2>1, <3>1, WriteKeeps
    <3>3. Write(sock[x], "EVENT").state = "OPEN"
      BY <2>1, <3>1, WriteOn DEF Packets
    <3>4. QED BY <2>2, <3>1, <3>2, <3>3
  <2>3. CASE x \notin X
    BY <2>1, <2>3 DEF Tell
  <2>4. QED BY <2>2, <2>3
<1>2. t = [x \in Peers |-> t[x]]
  BY DEF Tell
<1>3. QED BY <1>1, <1>2 DEF AllSockets

(* One socket replaced.                                                    *)
LEMMA ReplaceKeeps ==
  ASSUME NEW socks, AllSockets(socks), NEW x \in Peers, NEW s, SockInv(s)
  PROVE  AllSockets([socks EXCEPT ![x] = s])
<1> DEFINE r == [socks EXCEPT ![x] = s]
<1>1. DOMAIN socks = Peers
  BY DEF AllSockets
<1>2. r = [y \in Peers |-> r[y]]
  BY <1>1
<1>3. \A y \in Peers : r[y] = IF y = x THEN s ELSE socks[y]
  BY <1>1
<1>4. \A y \in Peers : SockInv(r[y])
  BY <1>3 DEF AllSockets
<1>5. QED BY <1>2, <1>4 DEF AllSockets

-----------------------------------------------------------------------------
(* The actions keep PeersInv.                                              *)

(* Sockets before the connection, and as it is accepted.                   *)
LEMMA NewSocketInv == SockInv(NewSocket)
<1>1. <<>> \in Seq(Packets) /\ Len(<<>>) = 0
  BY EmptySeq
<1>2. Notes(<<>>) = {}
  BY <1>1 DEF Notes
<1>3. QED BY <1>1, <1>2 DEF SockInv, NewSocket, Sockets

(* The same of a connection that has just been accepted.                   *)
LEMMA OpenedInv ==
  SockInv([NewSocket EXCEPT !.state = "OPEN"])
    /\ [NewSocket EXCEPT !.state = "OPEN"].state = "OPEN"
<1> DEFINE n == NewSocket
           o == [n EXCEPT !.state = "OPEN"]
<1>1. <<>> \in Seq(Packets) /\ Len(<<>>) = 0 /\ <<>> \o <<>> = <<>>
  BY EmptySeq, ConcatEmptySeq
<1>2. Notes(<<>>) = {}
  BY <1>1 DEF Notes
<1>3. /\ n \in Sockets /\ n.queue = <<>> /\ n.writing = <<>>
      /\ n.sent = <<>> /\ n.got = <<>>
      /\ n.error = FALSE /\ n.delayed = FALSE /\ n.failed = FALSE
      /\ n.cut = FALSE
  BY <1>1 DEF NewSocket, Sockets
<1> HIDE DEF n
<1>4. /\ o \in Sockets /\ o.state = "OPEN" /\ o.queue = n.queue
      /\ o.writing = n.writing /\ o.sent = n.sent /\ o.got = n.got
      /\ o.error = n.error /\ o.delayed = n.delayed /\ o.failed = n.failed
      /\ o.cut = n.cut
  BY <1>3 DEF Sockets
<1> HIDE DEF o
<1>5. Notes(o.sent) = {} /\ o.sent = o.got \o o.queue
  BY <1>1, <1>3, <1>4, <1>2
<1>6. SockInv(o)
  BY <1>3, <1>4, <1>5 DEF SockInv, FrontIsWritten
<1>7. QED BY <1>4, <1>6 DEF o, n

(* No connection yet, or any more.                                         *)
LEMMA AllNew == AllSockets([x \in Peers |-> NewSocket])
BY NewSocketInv DEF AllSockets

(* A peer is welcomed or turned away (onAccept).                           *)
LEMMA AcceptKeeps ==
  ASSUME PeersInv, NEW x \in Peers, Accept(x)
  PROVE  PeersInv'
<1> DEFINE s == [sock[x] EXCEPT !.state = "OPEN"]
<1>1. AllSockets(sock) /\ sock[x] = NewSocket
  BY DEF PeersInv, AllSockets, Accept, SockInv
<1>2. s = [NewSocket EXCEPT !.state = "OPEN"]
  BY <1>1
<1>4. sock' = [sock EXCEPT ![x] = Reads(Write(s, "EVENT"), "SIZE")]
        \/ sock' = [sock EXCEPT ![x] = Errored(s)]
  BY DEF Accept, Set
<1> HIDE DEF s
<1>5. SockInv(s) /\ s.state = "OPEN"
  BY <1>2, OpenedInv
<1>6. SockInv(Write(s, "EVENT")) /\ Write(s, "EVENT").state = "OPEN"
  BY <1>5, WriteKeeps, WriteOn DEF Packets
<1>7. SockInv(Reads(Write(s, "EVENT"), "SIZE")) /\ SockInv(Errored(s))
  BY <1>5, <1>6, ReadsKeeps, ErroredKeeps
<1>8. AllSockets(sock')
  BY <1>1, <1>4, <1>7, ReplaceKeeps
<1>9. QED BY <1>8 DEF PeersInv, Accept

(* Reads: of a size, ignored or failed.                                    *)
LEMMA ReadKeeps ==
  ASSUME PeersInv, NEW x \in Peers,
         OnReadSize(x) \/ OnReadIgnored(x) \/ OnReadError(x)
  PROVE  PeersInv'
<1>1. AllSockets(sock) /\ SockInv(sock[x]) /\ sock[x].state = "OPEN"
  BY DEF PeersInv, AllSockets, SockInv, OnReadSize, OnReadIgnored, OnReadError
<1>2. \A what \in {"NOTHING", "SIZE", "DATA"} :
        SockInv(Reads(sock[x], what)) /\ SockInv(Reads(Errored(sock[x]), what))
  BY <1>1, ReadsKeeps, ErroredKeeps
<1>3. PICK s : SockInv(s) /\ sock' = [sock EXCEPT ![x] = s]
  BY <1>2 DEF OnReadSize, OnReadIgnored, OnReadError, Set
<1>4. AllSockets(sock')
  BY <1>1, <1>3, ReplaceKeeps
<1>5. /\ tells' = tells /\ server' = server
      /\ reads' = reads \/ (reads < ReadMax /\ reads' = reads + 1)
  BY DEF OnReadSize, OnReadIgnored, OnReadError
<1>6. reads \in 0..ReadMax
  BY DEF PeersInv
<1>7. reads' \in 0..ReadMax
  BY <1>5, <1>6, BoundsAssumption
<1>8. QED BY <1>4, <1>5, <1>7 DEF PeersInv

(* A packet handled: others are told before the peer is answered.          *)
LEMMA ReadDataKeeps ==
  ASSUME PeersInv, NEW x \in Peers, OnReadData(x)
  PROVE  PeersInv'
<1>1. AllSockets(sock) /\ sock[x].state = "OPEN"
  BY DEF PeersInv, AllSockets, SockInv, OnReadData
<1>2. PICK X \in SUBSET Open :
        \E s \in { Reads(Tell(sock, X)[x], "SIZE"),
                   Reads(Write(Tell(sock, X)[x], "RESPONSE"), "SIZE"),
                   Reads(Errored(Tell(sock, X)[x]), "NOTHING") } :
          sock' = [Tell(sock, X) EXCEPT ![x] = s]
  BY DEF OnReadData
<1> DEFINE told == Tell(sock, X)
<1>3. AllSockets(told) /\ SockInv(told[x]) /\ told[x].state = "OPEN"
  BY <1>1, TellKeeps DEF AllSockets
<1>4. SockInv(Write(told[x], "RESPONSE")) /\ Write(told[x], "RESPONSE").state = "OPEN"
      /\ SockInv(Errored(told[x])) /\ Errored(told[x]).state = "OPEN"
  BY <1>3, WriteKeeps, WriteOn, ErroredKeeps DEF Packets
<1>5. /\ SockInv(Reads(told[x], "SIZE"))
      /\ SockInv(Reads(Write(told[x], "RESPONSE"), "SIZE"))
      /\ SockInv(Reads(Errored(told[x]), "NOTHING"))
  BY <1>3, <1>4, ReadsKeeps
<1>6. PICK s : SockInv(s) /\ sock' = [told EXCEPT ![x] = s]
  BY <1>2, <1>5
<1>7. AllSockets(sock')
  BY <1>3, <1>6, ReplaceKeeps
<1>8. QED BY <1>7 DEF PeersInv, OnReadData

(* A peer removed, and the others told (PeerSocket::close).                *)
LEMMA CloseKeeps ==
  ASSUME PeersInv, NEW x \in Peers, NEW s, SockInv(Closed(s)), Close(x, s)
  PROVE  PeersInv'
<1>1. PICK X \in SUBSET Open : sock' = [Tell(sock, X) EXCEPT ![x] = Closed(s)]
  BY DEF Close
<1>2. AllSockets(Tell(sock, X))
  BY TellKeeps DEF PeersInv
<1>3. AllSockets(sock')
  BY <1>1, <1>2, ReplaceKeeps
<1>4. QED BY <1>3 DEF PeersInv, Close

(* Writes that complete, well or not (onWrite).                            *)
LEMMA WritesKeep ==
  ASSUME PeersInv, NEW x \in Peers, OnWrite(x) \/ OnWriteError(x)
  PROVE  PeersInv'
<1> DEFINE s == sock[x]
<1>1. AllSockets(sock) /\ SockInv(s) /\ s.writing # <<>> /\ s.state = "OPEN"
  BY DEF PeersInv, AllSockets, SockInv, OnWrite, OnWriteError
<1>2. CASE OnWrite(x)
  <2> DEFINE w == Written(s)
  <2>1. SockInv(w) /\ w.state = "OPEN"
    BY <1>1, WrittenKeeps
  <2>2. CASE w.queue = <<>> /\ w.delayed
    <3>1. SockInv(Closed(w))
      BY <2>1, <2>2, ClosedKeeps
    <3>2. Close(x, w)
      BY <1>2, <2>2 DEF OnWrite
    <3>3. QED BY <3>1, <3>2, CloseKeeps
  <2>3. CASE ~ (w.queue = <<>> /\ w.delayed)
    <3>1. sock' = [sock EXCEPT ![x] = w] /\ UNCHANGED <<reads, tells, server>>
      BY <1>2, <2>3 DEF OnWrite, Set
    <3>2. AllSockets(sock')
      BY <1>1, <2>1, <3>1, ReplaceKeeps
    <3>3. QED BY <3>1, <3>2 DEF PeersInv
  <2>4. QED BY <2>2, <2>3
<1>3. CASE OnWriteError(x)
  <2>1. CASE s.delayed
    <3>1. SockInv(Closed(s))
      BY <1>1, <1>3, <2>1, ClosedKeeps DEF OnWriteError
    <3>2. Close(x, s)
      BY <1>3, <2>1 DEF OnWriteError
    <3>3. QED BY <3>1, <3>2, CloseKeeps
  <2>2. CASE ~ s.delayed
    <3>1. /\ sock' = [sock EXCEPT ![x] = WriteFailed(s)]
          /\ UNCHANGED <<reads, tells, server>> /\ s.cut
      BY <1>3, <2>2 DEF OnWriteError, Set
    <3>2. SockInv(WriteFailed(s))
      BY <1>1, <2>2, <3>1, WriteFailedKeeps
    <3>3. AllSockets(sock')
      BY <1>1, <3>1, <3>2, ReplaceKeeps
    <3>4. QED BY <3>1, <3>3 DEF PeersInv
  <2>3. QED BY <2>1, <2>2
<1>4. QED BY <1>2, <1>3

(* A connection breaks.                                                    *)
LEMMA CutKeeps ==
  ASSUME PeersInv, NEW x \in Peers, Cut(x)
  PROVE  PeersInv'
<1> DEFINE s == sock[x]
           c == [s EXCEPT !.cut = TRUE, !.sent = <<>>, !.got = <<>>]
<1>1. AllSockets(sock) /\ SockInv(s) /\ s.state = "OPEN" /\ s \in Sockets
  BY DEF PeersInv, AllSockets, SockInv, Cut, Open
<1>2. sock' = [sock EXCEPT ![x] = c] /\ UNCHANGED <<reads, tells, server>>
  BY DEF Cut, Set
<1> HIDE DEF s
<1>3. /\ c \in Sockets /\ c.cut /\ c.state = "OPEN" /\ c.queue = s.queue
      /\ c.writing = s.writing /\ c.failed = s.failed
      /\ c.error = s.error /\ c.delayed = s.delayed
  BY <1>1, EmptySeq DEF Sockets
<1> HIDE DEF c
<1>4. SockInv(c)
  BY <1>1, <1>3 DEF SockInv, FrontIsWritten
<1>5. AllSockets(sock')
  BY <1>1, <1>2, <1>4, ReplaceKeeps
<1>6. QED BY <1>2, <1>5 DEF PeersInv

(* The server itself: broadcasts, and its end.                             *)
LEMMA ServerKeeps ==
  ASSUME PeersInv, AcceptFails \/ Broadcast \/ Stop
  PROVE  PeersInv'
<1>1. CASE AcceptFails \/ Stop
  BY <1>1, AllNew DEF AcceptFails, Stop, End, PeersInv
<1>2. CASE Broadcast
  <2>1. AllSockets(sock')
    BY <1>2, TellKeeps DEF Broadcast, PeersInv
  <2>2. tells' \in 0..TellMax
    <3>1. tells \in 0..TellMax /\ tells < TellMax /\ tells' = tells + 1
      BY <1>2 DEF Broadcast, PeersInv
    <3>2. QED BY <3>1, BoundsAssumption
  <2>3. QED BY <1>2, <2>1, <2>2 DEF Broadcast, PeersInv
<1>3. QED BY <1>1, <1>2

(* Every reachable state of the sockets satisfies the invariant.           *)
THEOREM PeersInvariant == Spec => []PeersInv
<1>1. Init => PeersInv
  BY AllNew, BoundsAssumption DEF Init, PeersInv
<1>2. PeersInv /\ [Next]_vars => PeersInv'
  <2> SUFFICES ASSUME PeersInv, [Next]_vars PROVE PeersInv'
    OBVIOUS
  <2>1. CASE UNCHANGED vars
    BY <2>1 DEF vars, PeersInv
  <2>2. ASSUME NEW x \in Peers, Accept(x) \/ Handle(x) \/ Cut(x)
        PROVE  PeersInv'
    BY <2>2, AcceptKeeps, ReadKeeps, ReadDataKeeps, WritesKeep, CutKeeps
       DEF Handle
  <2>3. CASE AcceptFails \/ Broadcast \/ Stop
    BY <2>3, ServerKeeps
  <2>4. QED BY <2>1, <2>2, <2>3 DEF Next
<1>3. QED BY <1>1, <1>2, PTL DEF Spec

(* Sockets without operations once closed, and errors that close.          *)
THEOREM PeersTypeCorrect == Spec => []PeersTypeOK
<1>1. PeersInv => PeersTypeOK
  <2> SUFFICES ASSUME PeersInv PROVE PeersTypeOK
    OBVIOUS
  <2>1. \A x \in Peers : sock[x] \in Sockets
    BY DEF PeersInv, AllSockets, SockInv
  <2>2. sock \in [Peers -> Sockets]
    BY <2>1 DEF PeersInv, AllSockets
  <2>3. QED BY <2>2 DEF PeersInv, AllSockets, SockInv, PeersTypeOK, Open
<1>2. QED BY <1>1, PeersInvariant, PTL

(* One write in progress, that of the front of the queue.                  *)
THEOREM WritesFollow == Spec => []OneWriteAtATime
<1>1. PeersInv => OneWriteAtATime
  BY DEF PeersInv, AllSockets, SockInv, FrontIsWritten, OneWriteAtATime, Open
<1>2. QED BY <1>1, PeersInvariant, PTL

(* What was received and what waits is what was sent.                      *)
THEOREM DeliveredInOrder == Spec => []NothingLost
<1>1. PeersInv => NothingLost
  BY DEF PeersInv, AllSockets, SockInv, NothingLost, Open
<1>2. QED BY <1>1, PeersInvariant, PTL

(* A client whose connection is closed in working order knows why.         *)
THEOREM ClosedOnceTold == Spec => []ToldBeforeClosed
<1>1. PeersInv => ToldBeforeClosed
  <2> SUFFICES ASSUME PeersInv, NEW x \in Peers,
                      sock[x].state = "CLOSED", ~ sock[x].cut
               PROVE  /\ sock[x].got = sock[x].sent
                      /\ \E i \in 1..Len(sock[x].got) : Notes(sock[x].got) = {i}
    BY DEF ToldBeforeClosed, Notes
  <2>1. SockInv(sock[x])
    BY DEF PeersInv, AllSockets
  <2>2. sock[x].sent = sock[x].got /\ sock[x].delayed
    BY <2>1 DEF SockInv
  <2>3. \E i \in 1..Len(sock[x].sent) : Notes(sock[x].sent) = {i}
    BY <2>1, <2>2 DEF SockInv
  <2>4. QED BY <2>2, <2>3
<1>2. QED BY <1>1, PeersInvariant, PTL
=============================================================================
