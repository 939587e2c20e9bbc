------------------------------- MODULE Router -------------------------------
(***************************************************************************)
(* The routers of a network (networking/peer_router.py) and the messages   *)
(* they exchange (networking/messages.py), with routers that start late,   *)
(* stop and come back.                                                     *)
(*                                                                         *)
(* A connection is named by the node that created it, the node that it     *)
(* goes to and a number.  A node writes to a peer on the connection it     *)
(* keeps for that peer, and reads the connections on its socket list.      *)
(* What a connection does when an end of it is closed is the network's     *)
(* part (external): what is under way to that end is gone, the other end   *)
(* reads what has arrived and then the end of the stream, and the          *)
(* connection is reset if anything was or is thrown away.                  *)
(*                                                                         *)
(* A router that stops and starts again is a new PeerRouter at the same    *)
(* address.  Signals and the queue of new peers are left out.              *)
(***************************************************************************)
EXTENDS Integers, FiniteSets, Sequences, SequencesExt

CONSTANTS
  Nodes,      \* the routers
  Setups,     \* what users do in a run: [mesh, late, calls], see Calls
  NoNode,     \* no addressee
  NoSocket    \* no connection

\* What a user calls: the operation, the router, the other router, and when:
\* calls of the same number are made in any order.
Calls == [op : {"connect", "getPeerList", "send"}, by : Nodes, to : Nodes,
          id : Nat] \cup
         [op : {"broadcast", "stop"}, by : Nodes, to : {NoNode}, id : Nat]

Connections == {c \in Nodes \X Nodes \X (Nat \ {0}) : c[1] # c[2]}

ASSUME RouterAssumption ==
  /\ IsFiniteSet(Nodes)
  /\ NoNode \notin Nodes /\ NoSocket \notin Connections
  /\ \A s \in Setups :
       /\ s.mesh \in BOOLEAN /\ s.late \subseteq Nodes
       /\ s.calls \subseteq Calls /\ \A c \in s.calls : c.by # c.to

AllCalls == UNION {s.calls : s \in Setups}

VARIABLES
  setup,        \* the setup of this run; it does not change
  up,           \* the routers whose threads run
  made,         \* the calls made so far, oldest first
  reachable,    \* history: for each call, whom it could reach when it was made
  before,       \* history: for each connect, the connections there were then
  created,      \* the connections that were ever made
  closed,       \* the ends of connections that are closed
  reset,        \* the connections whose remaining end has been told of loss
  backlog,      \* the connections that nobody has accepted yet
  wire,         \* what is under way, by created connection and receiver
  peerAddressToSocket, \* the connection a node writes to a peer on
  socketList,   \* the connections a node reads
  accepted,     \* the connection that a node's RX thread accepted last
  opened,       \* the connection of the message a node opened last
  rxbuffer,     \* what a node has read and not opened, with its connection
  txbuffer,     \* what a node's TX thread has still to send
  hasSeenMessage, \* the broadcasts a node has seen
  databuffer    \* what a node has received for the program above it

history  == <<setup, made, reachable, before>>
streams  == <<created, closed, reset, backlog, wire>>
sockets  == <<peerAddressToSocket, socketList, accepted, opened>>
contents == <<hasSeenMessage, databuffer>>
vars == <<history, up, streams, sockets, rxbuffer, txbuffer, contents>>

-----------------------------------------------------------------------------
(* Helpers.                                                                *)

Peers(n) == {q \in Nodes : peerAddressToSocket[n][q] # NoSocket}

Other(c, n) == IF c[1] = n THEN c[2] ELSE c[1]

IsClosed(c, n) == <<c, n>> \in closed

Message(kind, from, to, body) ==
  [kind |-> kind, from |-> from, to |-> to, body |-> body]

put(n, messages) == txbuffer' = [txbuffer EXCEPT ![n] = @ \o messages]

\* The same message to several peers, one after the other.
ToEach(peers, kind, n, body) ==
  LET order == SetToSeq(peers)
  IN  [i \in DOMAIN order |-> Message(kind, n, order[i], body)]

\* What connect, send and getPeerList put on the buffer for a new peer.
ConnectMessages(n, q) ==
  IF q \in Peers(n) THEN <<>> ELSE <<Message("connect", n, q, NoNode)>>

\* A node that has a peer is heard by it if the peer reads that connection.
Hears(n, q) ==
  q \in Peers(n) /\ peerAddressToSocket[n][q] \in socketList[q]

\* The nodes that hear n, directly or through others.
Heard(n) ==
  LET within[k \in Nat] ==
        IF k = 0 THEN {n}
        ELSE within[k - 1] \cup
               {q \in Nodes : \E p \in within[k - 1] : Hears(p, q)}
  IN  within[Cardinality(Nodes)] \ {n}

\* The connections between two nodes, whoever created them.
Between(n, q) == {c \in created : {c[1], c[2]} = {n, q}}

\* Two nodes that have nothing to do with each other (any more).
Strangers(n, q) ==
  /\ q \notin Peers(n)
  /\ \A c \in Between(n, q) : IsClosed(c, n) /\ IsClosed(c, q)
  /\ \A m \in ToSet(txbuffer[n]) : m.to # q
  /\ \A m \in ToSet(txbuffer[q]) : m.to # n

\* An end of each of the connections cs is closed by n.  If something that
\* came for n is thrown away, the other end is told so.
Close(n, cs) ==
  /\ closed' = closed \cup {<<c, n>> : c \in cs}
  /\ reset' = reset \cup
       {c \in cs : wire[c][n] # <<>> \/ (c \in backlog /\ c[2] = n)}

\* A connection that only a local variable of the RX thread or of the message
\* thread refers to is closed by the interpreter when that is assigned anew.
Released(n, last, other) ==
  {last} \ (socketList[n] \cup {peerAddressToSocket[n][q] : q \in Peers(n)}
             \cup {r.sock : r \in ToSet(rxbuffer[n])} \cup {other, NoSocket})

-----------------------------------------------------------------------------
(* The users' calls.  Each holds peerLock while it looks at the peers.     *)

Init ==
  /\ setup \in Setups
  /\ up = Nodes \ setup.late
  /\ made = <<>>
  /\ reachable = [c \in setup.calls |-> {}]
  /\ before = [c \in setup.calls |-> {}]
  /\ created = {} /\ closed = {} /\ reset = {} /\ backlog = {}
  /\ wire = [c \in created |-> [n \in Nodes |-> <<>>]]
  /\ peerAddressToSocket = [n \in Nodes |-> [q \in Nodes |-> NoSocket]]
  /\ socketList = [n \in Nodes |-> {}]
  /\ accepted = [n \in Nodes |-> NoSocket]
  /\ opened = [n \in Nodes |-> NoSocket]
  /\ rxbuffer = [n \in Nodes |-> <<>>]
  /\ txbuffer = [n \in Nodes |-> <<>>]
  /\ hasSeenMessage = [n \in Nodes |-> {}]
  /\ databuffer = [n \in Nodes |-> <<>>]

start(n) ==
  /\ n \notin up
  /\ up' = up \cup {n}
  /\ UNCHANGED <<history, streams, sockets, rxbuffer, txbuffer, contents>>

\* What every call does: it is made once, in its turn, of a router that runs,
\* and reaches "whom" at best.
Make(c, op, whom) ==
  /\ c.op = op /\ c \notin ToSet(made) /\ c.by \in up
  /\ \A e \in setup.calls : e.id < c.id => e \in ToSet(made)
  /\ made' = Append(made, c)
  /\ reachable' = [reachable EXCEPT ![c] = whom]
  /\ before' = [before EXCEPT ![c] =
                  IF op = "connect" THEN Between(c.by, c.to) ELSE {}]
  /\ UNCHANGED setup

Queue(n, messages) ==
  /\ put(n, messages)
  /\ UNCHANGED <<up, streams, sockets, rxbuffer, contents>>

connect(c) ==
  /\ Make(c, "connect", IF c.to \in up /\ Strangers(c.by, c.to) THEN {c.to}
                        ELSE {})
  /\ Queue(c.by, ConnectMessages(c.by, c.to))

getPeerList(c) ==
  /\ Make(c, "getPeerList", {})
  /\ Queue(c.by, Append(ConnectMessages(c.by, c.to),
                        Message("getPeerList", c.by, c.to, NoNode)))

send(c) ==
  /\ Make(c, "send", IF Hears(c.by, c.to) THEN {c.to} ELSE {})
  /\ Queue(c.by, Append(ConnectMessages(c.by, c.to),
                        Message("data", c.by, c.to, c)))

\* In a mesh the peers are all there are, and nobody forwards the data.
broadcast(c) ==
  /\ Make(c, "broadcast", IF setup.mesh THEN {q \in Nodes : Hears(c.by, q)}
                          ELSE Heard(c.by))
  /\ put(c.by, ToEach(Peers(c.by),
                      IF setup.mesh THEN "data" ELSE "flood", c.by, c))
  /\ hasSeenMessage' = IF Peers(c.by) = {} THEN hasSeenMessage
                       ELSE [hasSeenMessage EXCEPT ![c.by] = @ \cup {c}]
  /\ UNCHANGED <<up, streams, sockets, rxbuffer, databuffer>>

\* stop, after which the router is thrown away: the threads end, all sockets
\* are closed, and with the listening one those that wait to be accepted.
stop(c) ==
  LET n    == c.by
      mine == {s \in created : n \in {s[1], s[2]} /\ ~IsClosed(s, n)}
  IN  /\ Make(c, "stop", {})
      /\ up' = up \ {n}
      /\ Close(n, mine)
      /\ backlog' = {s \in backlog : s[2] # n}
      /\ wire' = [s \in created |-> [wire[s] EXCEPT ![n] = <<>>]]
      /\ peerAddressToSocket' =
           [peerAddressToSocket EXCEPT ![n] = [q \in Nodes |-> NoSocket]]
      /\ socketList' = [socketList EXCEPT ![n] = {}]
      /\ accepted' = [accepted EXCEPT ![n] = NoSocket]
      /\ opened' = [opened EXCEPT ![n] = NoSocket]
      /\ rxbuffer' = [rxbuffer EXCEPT ![n] = <<>>]
      /\ txbuffer' = [txbuffer EXCEPT ![n] = <<>>]
      /\ hasSeenMessage' = [hasSeenMessage EXCEPT ![n] = {}]
      /\ databuffer' = [databuffer EXCEPT ![n] = <<>>]
      /\ UNCHANGED created

-----------------------------------------------------------------------------
(* The TX thread.                                                          *)

\* The oldest message of the buffer leaves it.
Transmit(n, m) ==
  /\ n \in up /\ txbuffer[n] # <<>> /\ m = Head(txbuffer[n])
  /\ txbuffer' = [txbuffer EXCEPT ![n] = Tail(@)]
  /\ UNCHANGED <<history, up, rxbuffer, contents, accepted, opened>>

sendOnSocket(n, m) ==
  LET c == peerAddressToSocket[n][m.to]
  IN  /\ Transmit(n, m) /\ m.to \in Peers(n)
      /\ ~IsClosed(c, n) /\ ~IsClosed(c, m.to)
      /\ wire' = [wire EXCEPT ![c][m.to] = Append(@, m)]
      /\ UNCHANGED <<peerAddressToSocket, socketList, created, closed, reset,
                     backlog>>

\* The other end is closed and this node does not know: the message is lost,
\* and the connection is reset, at once or after its end has been noticed.
sendIntoTheVoid(n, m) ==
  LET c == peerAddressToSocket[n][m.to]
  IN  /\ Transmit(n, m) /\ m.to \in Peers(n)
      /\ ~IsClosed(c, n) /\ IsClosed(c, m.to)
      /\ reset' \in {reset, reset \cup {c}}
      /\ UNCHANGED <<peerAddressToSocket, socketList, created, closed, backlog,
                     wire>>

\* The next connection that n creates to q.
NextSocket(n, q) ==
  <<n, q, 1 + Cardinality({c \in created : c[1] = n /\ c[2] = q})>>

\* A new connection, with m on it, that nobody has accepted yet.
Connected(n, m, sock) ==
  /\ Transmit(n, m) /\ m.to \notin Peers(n) /\ m.to \in up
  /\ created' = created \cup {sock} /\ backlog' = backlog \cup {sock}
  /\ wire' = [c \in created' |->
                IF c = sock THEN [q \in Nodes |-> IF q = m.to THEN <<m>> ELSE <<>>]
                ELSE wire[c]]
  /\ UNCHANGED <<closed, reset>>

\* Mutant: a socket that is written to and never read.
createSocketUnread(n, m) ==
  LET sock == NextSocket(n, m.to)
  IN  /\ Connected(n, m, sock)
      /\ peerAddressToSocket' = [peerAddressToSocket EXCEPT ![n][m.to] = sock]
      /\ UNCHANGED socketList

createSocket(n, m) ==
  LET sock == NextSocket(n, m.to)
  IN  /\ Connected(n, m, sock)
      /\ peerAddressToSocket' = [peerAddressToSocket EXCEPT ![n][m.to] = sock]
      /\ socketList' = [socketList EXCEPT ![n] = @ \cup {sock}]

\* Mutant: the new socket is entered before it is connected.
refuseEntered(n, m) ==
  /\ Transmit(n, m) /\ m.to \notin Peers(n) /\ m.to \notin up
  /\ peerAddressToSocket' =
       [peerAddressToSocket EXCEPT ![n][m.to] = NextSocket(n, m.to)]
  /\ UNCHANGED <<socketList, streams>>

\* Nobody listens there, or the socket that is kept for the peer is closed:
\* the exception is printed and the message is gone.
refuse(n, m) ==
  /\ Transmit(n, m)
  /\ \/ m.to \notin Peers(n) /\ m.to \notin up
     \/ m.to \in Peers(n) /\ IsClosed(peerAddressToSocket[n][m.to], n)
  /\ UNCHANGED <<peerAddressToSocket, socketList, streams>>

txThread(n) ==
  txbuffer[n] # <<>> /\
  LET m == Head(txbuffer[n])
  IN  \/ sendOnSocket(n, m) \/ sendIntoTheVoid(n, m)
      \/ createSocket(n, m) \/ refuse(n, m)

-----------------------------------------------------------------------------
(* The RX thread.  When a closed socket is on its list, select raises, time  *)
(* and again, and it reads nothing any more.                                *)

Selects(n) == n \in up /\ \A c \in socketList[n] : ~IsClosed(c, n)

\* The oldest message on a connection goes to the buffer.
Read(n, c) ==
  /\ wire[c][n] # <<>>
  /\ wire' = [wire EXCEPT ![c][n] = Tail(@)]
  /\ rxbuffer' = [rxbuffer EXCEPT ![n] =
                    Append(@, [msg |-> Head(wire[c][n]), sock |-> c])]

\* The first message of a new connection, which its creator sends at once.  The
\* connection accepted before it may lose its last reference.
handleNewConnection(n, c) ==
  /\ Selects(n) /\ c \in backlog /\ c[2] = n
  /\ backlog' = backlog \ {c}
  /\ accepted' = [accepted EXCEPT ![n] = c]
  /\ Close(n, Released(n, accepted[n], opened[n]))
  /\ Read(n, c)
  /\ UNCHANGED <<history, up, created, peerAddressToSocket, socketList, opened,
                 txbuffer, contents>>

handleExistingConnection(n, c) ==
  /\ Selects(n) /\ c \in socketList[n] /\ c \notin reset
  /\ Read(n, c)
  /\ UNCHANGED <<history, up, created, closed, reset, backlog, sockets,
                 txbuffer, contents>>

\* After a reset, getpeername raises once the message has been read: it is gone.
readInVain(n, c) ==
  /\ Selects(n) /\ c \in socketList[n] /\ c \in reset /\ wire[c][n] # <<>>
  /\ wire' = [wire EXCEPT ![c][n] = Tail(@)]
  /\ UNCHANGED <<history, up, created, closed, reset, backlog, sockets,
                 rxbuffer, txbuffer, contents>>

\* The end of the stream: the socket leaves the list and is closed.
EndOfStream(n, c) ==
  /\ Selects(n) /\ c \in socketList[n]
  /\ wire[c][n] = <<>> /\ IsClosed(c, Other(c, n))
  /\ socketList' = [socketList EXCEPT ![n] = @ \ {c}]
  /\ Close(n, {c})
  /\ UNCHANGED <<history, up, created, backlog, wire, accepted, opened,
                 rxbuffer, txbuffer, contents>>

removeSocket(n, c) ==
  /\ EndOfStream(n, c) /\ c \notin reset
  /\ peerAddressToSocket' =
       [peerAddressToSocket EXCEPT ![n][Other(c, n)] = NoSocket]

\* Mutant: getpeername raises before removeSocket is called.
removeResetSocketListed(n, c) ==
  /\ Selects(n) /\ c \in socketList[n] /\ c \in reset
  /\ wire[c][n] = <<>> /\ UNCHANGED vars

\* After a reset, getpeername raises and the table of peers keeps the socket.
removeResetSocket(n, c) ==
  /\ EndOfStream(n, c) /\ c \in reset
  /\ UNCHANGED peerAddressToSocket

rxThread(n) ==
  \E c \in created :
    \/ handleNewConnection(n, c) \/ handleExistingConnection(n, c)
    \/ readInVain(n, c) \/ removeSocket(n, c) \/ removeResetSocket(n, c)

-----------------------------------------------------------------------------
(* The message thread.                                                     *)

\* The oldest message that was read is opened; the one opened before it goes.
Open(n, kind, e) ==
  /\ n \in up /\ e.msg.kind = kind
  /\ rxbuffer' = [rxbuffer EXCEPT ![n] = Tail(@)]
  /\ opened' = [opened EXCEPT ![n] = e.sock]
  /\ Close(n, Released(n, opened[n], accepted[n]))
  /\ UNCHANGED <<history, up, created, backlog, wire, accepted>>

\* A message that changes nothing but what the node will send.
Answer(n, messages) ==
  /\ put(n, messages)
  /\ UNCHANGED <<peerAddressToSocket, socketList, contents>>

AcceptedMessage(n, m) == Message("accepted", n, m.from, NoNode)

\* A node that is no peer, or whose socket has been closed here.
Unconnected(n, q) == q \notin Peers(n) \/ IsClosed(peerAddressToSocket[n][q], n)

\* Mutant: the new peer is entered and its socket is not listened to.
openConnectUnread(n, e, m) ==
  /\ Open(n, "connect", e) /\ Unconnected(n, m.from)
  /\ peerAddressToSocket' = [peerAddressToSocket EXCEPT ![n][m.from] = e.sock]
  /\ put(n, <<AcceptedMessage(n, m)>>)
  /\ UNCHANGED <<socketList, contents>>

\* Mutant: a peer that comes back is taken for the one that was there.
openConnectStale(n, e, m) ==
  /\ Open(n, "connect", e) /\ m.from \notin Peers(n)
  /\ peerAddressToSocket' = [peerAddressToSocket EXCEPT ![n][m.from] = e.sock]
  /\ socketList' = [socketList EXCEPT ![n] = @ \cup {e.sock}]
  /\ put(n, <<AcceptedMessage(n, m)>>)
  /\ UNCHANGED contents

\* ConnectMessage from a new peer, or one whose socket is closed: the socket it
\* came on is kept, and in a mesh the other peers are told.
openConnectNew(n, e, m) ==
  /\ Open(n, "connect", e) /\ Unconnected(n, m.from)
  /\ peerAddressToSocket' = [peerAddressToSocket EXCEPT ![n][m.from] = e.sock]
  /\ socketList' = [socketList EXCEPT ![n] = @ \cup {e.sock}]
  /\ put(n, Append(IF setup.mesh
                   THEN ToEach(Peers(n) \ {m.from}, "newPeer", n, m.from)
                   ELSE <<>>,
                   AcceptedMessage(n, m)))
  /\ UNCHANGED contents

\* From a peer: the socket it came on is not looked at.
openConnectKnown(n, e, m) ==
  /\ Open(n, "connect", e) /\ ~Unconnected(n, m.from)
  /\ Answer(n, <<AcceptedMessage(n, m)>>)

openAcceptedConnect(n, e, m) == Open(n, "accepted", e) /\ Answer(n, <<>>)

openNewPeerUpdate(n, e, m) ==
  Open(n, "newPeer", e) /\ Answer(n, ConnectMessages(n, m.body))

openGetPeerList(n, e, m) ==
  /\ Open(n, "getPeerList", e)
  /\ Answer(n, <<Message("peerList", n, m.from, Peers(n) \ {m.from})>>)

openSendPeerList(n, e, m) ==
  /\ Open(n, "peerList", e)
  /\ Answer(n, ToEach({q \in m.body : q \notin Peers(n)}, "connect", n,
                      NoNode))

openData(n, e, m) ==
  /\ Open(n, "data", e)
  /\ databuffer' = [databuffer EXCEPT ![n] = Append(@, m.body)]
  /\ UNCHANGED <<peerAddressToSocket, socketList, txbuffer, hasSeenMessage>>

\* Mutant: a node forgets to record what it has seen.
openFloodUnrecorded(n, e, m) ==
  /\ Open(n, "flood", e) /\ m.body \notin hasSeenMessage[n]
  /\ databuffer' = [databuffer EXCEPT ![n] = Append(@, m.body)]
  /\ put(n, ToEach(Peers(n) \ {m.from}, "flood", n, m.body))
  /\ UNCHANGED <<hasSeenMessage, peerAddressToSocket, socketList>>

\* Mutant: a node keeps what it gets.
openFloodKept(n, e, m) ==
  /\ Open(n, "flood", e) /\ m.body \notin hasSeenMessage[n]
  /\ databuffer' = [databuffer EXCEPT ![n] = Append(@, m.body)]
  /\ hasSeenMessage' = [hasSeenMessage EXCEPT ![n] = @ \cup {m.body}]
  /\ UNCHANGED <<peerAddressToSocket, socketList, txbuffer>>

\* BroadcastDataMessage not seen yet: it is kept, recorded and forwarded to
\* all peers but the sender.  If that is no peer (any more), toSendTo.remove
\* raises and nothing is forwarded.
openFlood(n, e, m) ==
  /\ Open(n, "flood", e) /\ m.body \notin hasSeenMessage[n]
  /\ databuffer' = [databuffer EXCEPT ![n] = Append(@, m.body)]
  /\ hasSeenMessage' = [hasSeenMessage EXCEPT ![n] = @ \cup {m.body}]
  /\ put(n, IF m.from \in Peers(n)
            THEN ToEach(Peers(n) \ {m.from}, "flood", n, m.body) ELSE <<>>)
  /\ UNCHANGED <<peerAddressToSocket, socketList>>

openFloodSeen(n, e, m) ==
  /\ Open(n, "flood", e) /\ m.body \in hasSeenMessage[n]
  /\ Answer(n, <<>>)

msgThread(n) ==
  rxbuffer[n] # <<>> /\
  LET e == Head(rxbuffer[n])
      m == e.msg
  IN  \/ openConnectNew(n, e, m)
      \/ openConnectKnown(n, e, m)
      \/ openAcceptedConnect(n, e, m)
      \/ openNewPeerUpdate(n, e, m)
      \/ openGetPeerList(n, e, m)
      \/ openSendPeerList(n, e, m)
      \/ openData(n, e, m)
      \/ openFlood(n, e, m)
      \/ openFloodSeen(n, e, m)

-----------------------------------------------------------------------------
Next ==
  \/ \E c \in setup.calls : connect(c) \/ getPeerList(c) \/ send(c)
                              \/ broadcast(c) \/ stop(c)
  \/ \E n \in Nodes : start(n) \/ txThread(n) \/ rxThread(n) \/ msgThread(n)

Spec == Init /\ [][Next]_vars

\* Every thread goes on.  Nothing makes a router start or stop, or a user call.
LiveSpec ==
  /\ Spec
  /\ \A n \in Nodes : /\ WF_vars(txThread(n))
                      /\ WF_vars(rxThread(n))
                      /\ WF_vars(msgThread(n))

-----------------------------------------------------------------------------
(* Properties.                                                             *)

\* Types, where a socket in a table is one that was made, between the two nodes
\* of the entry, and a broadcast that a node has seen was sent.
TypeOK ==
  /\ setup \in Setups /\ up \subseteq Nodes
  /\ ToSet(made) \subseteq setup.calls
  /\ created \subseteq Connections
  /\ backlog \subseteq created /\ reset \subseteq created
  /\ closed \subseteq created \X Nodes
  /\ \A n \in Nodes :
       /\ \A q \in Peers(n) :
            peerAddressToSocket[n][q] \in Between(n, q)
       /\ socketList[n] \subseteq created
       /\ {accepted[n], opened[n]} \subseteq created \cup {NoSocket}
       /\ hasSeenMessage[n] \subseteq ToSet(made)
       /\ ToSet(databuffer[n]) \subseteq ToSet(made)

Stops(n) == \E c \in ToSet(made) : c.op = "stop" /\ c.by = n

NobodyStops == \A n \in Nodes : ~Stops(n)

\* Of the connections that are open at a node, it reads those that it keeps for
\* its peers and no others: the list and the two tables, which the TX, RX and
\* message threads change in different places, do not come apart (peer_router.py
\* 310-316 and 430-443, messages.py 35-44).  And as long as no router stops, no
\* closed socket is on the list, where it would end the reading for good.
SocketsMatch ==
  \A n \in Nodes :
    /\ NobodyStops /\ n \in up => Selects(n)
    /\ \A c \in created :
         ~IsClosed(c, n) =>
           (c \in socketList[n] <=> peerAddressToSocket[n][Other(c, n)] = c)

\* What send and broadcast promise: only to whom it is for, at most once, in
\* the order of sending, whatever way a broadcast takes and however nodes
\* connect, stop and come back (peer_router.py 201-235, messages.py 174-177
\* and 193-215).
Promise ==
  INSTANCE Broadcast WITH Calls <- AllCalls, sent <- made, received <- databuffer
KeepsPromise == Promise!Spec

\* If a message waits on a connection that its receiver will not read, then
\* the receiver created a connection to the sender as well: as long as routers
\* are there from the start and do not stop, no other order of calls makes one
\* deaf to a peer (messages.py 35-65).
DeafOnlyIfCrossed ==
  setup.late = {} /\ NobodyStops =>
    \A c \in created, n \in Nodes :
      (wire[c][n] # <<>> /\ c \notin socketList[n] \cup backlog
         /\ \A r \in ToSet(rxbuffer[n]) : r.sock # c) =>
        \E k \in created : k[1] = n /\ k[2] = Other(c, n)

\* A connect that finds the other router up, and nothing left between the two,
\* ends with each of them hearing the other, whoever else connects, stops or
\* comes back: unless one of the two stops later or the other one creates a
\* connection as well (peer_router.py 124-128, 430-443, messages.py 29-71).
HeardBothWays ==
  []<>(\A i \in DOMAIN made :
         LET n == made[i].by
             q == made[i].to
         IN  (/\ made[i].op = "connect" /\ q \in reachable[made[i]]
              /\ \A j \in DOMAIN made :
                   j > i => made[j].op # "stop" \/ made[j].by \notin {n, q}
              /\ \A k \in Between(n, q) \ before[made[i]] : k[1] = n)
             => Hears(n, q) /\ Hears(q, n))

\* A router that still reads takes the dead connections off its list in the end
\* (peer_router.py 353-364).
ForgetsTheDead ==
  []<>(\A n \in up : Selects(n) =>
         \A c \in socketList[n] : ~IsClosed(c, Other(c, n)))

\* What could reach a node when it was sent does reach it, if no router stops:
\* a node drops a broadcast that it has seen, and must have passed it on to
\* everybody that may have no other way to it (messages.py 193-210).
Delivered ==
  []<>(NobodyStops =>
         \A c \in ToSet(made) :
           c.op # "connect" =>
             \A n \in reachable[c] : c \in ToSet(databuffer[n]))

\* A socket that makes select raise does not stay on the list of a router that
\* runs (peer_router.py 403: "If any sockets throw an exception, remove them as
\* a peer").
BadSocketsRemoved == []<>(\A n \in up : Selects(n))

=============================================================================
