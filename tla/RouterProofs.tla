---------------------------- MODULE RouterProofs ----------------------------
(***************************************************************************)
(* Proofs about the routers, for any routers and any calls of their users. *)
(* RInv says what every buffer, table and stream holds.  MInv says that    *)
(* the list of sockets has those of the table, and that as long as nobody  *)
(* stops a connection is closed at the end that created it last, and only  *)
(* after it is gone everywhere at the other end.  FirstInv says that a     *)
(* node which knows nothing of another one begins with a ConnectMessage,   *)
(* and that the connection it makes is the only one of the two unless the  *)
(* other one makes one as well.                                            *)
(***************************************************************************)
EXTENDS Router, SequenceTheorems, FiniteSetTheorems, TLAPS

USE DEF history, streams, sockets, contents

-----------------------------------------------------------------------------
(* The inductive invariants.                                               *)

\* What routers send each other.  Nobody is told of itself: neither as a new peer
\* nor among the peers of the one it asks.
Letters ==
  {m \in [kind : {"connect", "accepted", "getPeerList"}, from : Nodes,
          to : Nodes, body : {NoNode}] \cup
         [kind : {"newPeer"}, from : Nodes, to : Nodes, body : Nodes] \cup
         [kind : {"peerList"}, from : Nodes, to : Nodes, body : SUBSET Nodes] \cup
         [kind : {"data", "flood"}, from : Nodes, to : Nodes, body : ToSet(made)] :
     /\ m.from # m.to
     /\ m.kind = "newPeer" => m.body # m.to
     /\ m.kind = "peerList" => m.to \notin m.body}

\* What waits to be sent by n, and what is under way to n on c.
Outgoing(n) == {m \in Letters : m.from = n}
Incoming(n, c) == {m \in Letters : m.to = n /\ {m.from, n} = {c[1], c[2]}}

\* What was read by n, with the connection it was read on.
Opened(n) ==
  {r \in [msg : Letters, sock : created] : r.msg \in Incoming(n, r.sock)}

CallsInv ==
  /\ setup \in Setups /\ up \subseteq Nodes
  /\ made \in Seq(setup.calls)

\* The connections from one node to another are numbered from one on.
CreatedInv ==
  /\ created \subseteq Connections /\ IsFiniteSet(created)
  /\ \A c \in created :
       c[3] <= Cardinality({k \in created : k[1] = c[1] /\ k[2] = c[2]})

EndsInv ==
  /\ backlog \subseteq created /\ reset \subseteq created
  /\ closed \subseteq created \X Nodes

WireInv ==
  /\ DOMAIN wire = created
  /\ \A c \in created : /\ DOMAIN wire[c] = Nodes
                        /\ \A n \in Nodes : wire[c][n] \in Seq(Incoming(n, c))

TableInv ==
  /\ DOMAIN peerAddressToSocket = Nodes
  /\ \A n \in Nodes :
       /\ DOMAIN peerAddressToSocket[n] = Nodes
       /\ \A q \in Peers(n) : peerAddressToSocket[n][q] \in Between(n, q)

ListInv ==
  /\ socketList \in [Nodes -> SUBSET created]
  /\ \A n \in Nodes : \A c \in socketList[n] : n \in {c[1], c[2]}

LastInv ==
  /\ accepted \in [Nodes -> created \cup {NoSocket}]
  /\ opened \in [Nodes -> created \cup {NoSocket}]

RxInv ==
  /\ DOMAIN rxbuffer = Nodes
  /\ \A n \in Nodes : rxbuffer[n] \in Seq(Opened(n))

TxInv ==
  /\ DOMAIN txbuffer = Nodes
  /\ \A n \in Nodes : txbuffer[n] \in Seq(Outgoing(n))

ContentsInv ==
  /\ hasSeenMessage \in [Nodes -> SUBSET ToSet(made)]
  /\ databuffer \in [Nodes -> Seq(ToSet(made))]

RInv == /\ CallsInv /\ CreatedInv /\ EndsInv /\ WireInv /\ TableInv
        /\ ListInv /\ LastInv /\ RxInv /\ TxInv /\ ContentsInv

\* Of the connections open at a node, the list has those in the table.
TablesMatch ==
  \A n \in Nodes, c \in created :
    ~IsClosed(c, n) =>
      (c \in socketList[n] <=> peerAddressToSocket[n][Other(c, n)] = c)

\* Whether n has read something on c that it has not opened yet.
Unopened(n, c) == \E r \in ToSet(rxbuffer[n]) : r.sock = c

\* A connection that nobody has accepted yet is not known where it goes to.
BacklogInv ==
  \A c \in backlog :
    /\ c \notin socketList[c[2]] /\ ~Unopened(c[2], c)
    /\ c \notin {accepted[c[2]], opened[c[2]]}
    /\ peerAddressToSocket[c[2]][c[1]] # c

\* As long as nobody stops, the one who created a connection has it on the list
\* until it closes it, and the other one, who has closed it before, does not have
\* it anywhere.  What the other one does not read, it has not written on.
Calm(c) ==
  /\ c \in socketList[c[1]] <=> ~IsClosed(c, c[1])
  /\ IsClosed(c, c[1]) => IsClosed(c, c[2])
  /\ IsClosed(c, c[2]) =>
       /\ c \notin socketList[c[2]] \cup backlog /\ ~Unopened(c[2], c)
       /\ peerAddressToSocket[c[2]][c[1]] # c
  /\ c \notin socketList[c[2]] =>
       wire[c][c[1]] = <<>> /\ ~Unopened(c[1], c)

CalmInv == NobodyStops => \A c \in created : Calm(c)

MInv == TablesMatch /\ BacklogInv /\ CalmInv

\* The first thing in s that is for q is a ConnectMessage.
Announced(s, q) ==
  \A i \in DOMAIN s :
    s[i].to = q => \E j \in 1..i : s[j].to = q /\ s[j].kind = "connect"

\* Where q will find, or has found, the ConnectMessage of c.
Announces(c, q) ==
  \/ c \in backlog /\ wire[c][q] # <<>> /\ Head(wire[c][q]).kind = "connect"
  \/ \E r \in ToSet(rxbuffer[q]) : r.sock = c /\ r.msg.kind = "connect"
  \/ c \in socketList[q]

\* As long as nobody comes or goes, what a node has for another that it has no
\* connection with begins with a ConnectMessage.
AnnounceInv ==
  \A n \in Nodes : \A q \in Nodes \ {n} :
    Between(n, q) = {} => Announced(txbuffer[n], q)

\* And of two nodes, one of which alone creates connections, there is one, which
\* the other one reads or will read.
AloneInv ==
  \A c \in created :
    (\A k \in Between(c[1], c[2]) : k[1] = c[1]) =>
      /\ Between(c[1], c[2]) = {c}
      /\ peerAddressToSocket[c[1]][c[2]] = c
      /\ Announces(c, c[2])

FirstInv ==
  setup.late = {} /\ NobodyStops => up = Nodes /\ AnnounceInv /\ AloneInv

-----------------------------------------------------------------------------
(* Sequences.                                                              *)

LEMMA WiderSeq ==
  ASSUME NEW S, NEW T, S \subseteq T, NEW s \in Seq(S)
  PROVE  s \in Seq(T)
  OBVIOUS

LEMMA FirstOfSeq ==
  ASSUME NEW S, NEW s \in Seq(S), s # <<>>
  PROVE  /\ Head(s) \in S /\ Tail(s) \in Seq(S)
         /\ ToSet(s) = {Head(s)} \cup ToSet(Tail(s))
  <1>1. Len(s) \in Nat \ {0} /\ DOMAIN s = 1..Len(s)
    BY EmptySeq
  <1>2. /\ Head(s) = s[1] /\ Head(s) \in S /\ Tail(s) \in Seq(S)
        /\ Len(Tail(s)) = Len(s) - 1 /\ DOMAIN Tail(s) = 1..(Len(s) - 1)
        /\ \A i \in 1..(Len(s) - 1) : Tail(s)[i] = s[i + 1]
    BY <1>1
  <1>3. ASSUME NEW i \in 1..Len(s), i # 1
        PROVE  s[i] \in ToSet(Tail(s))
    <2>1. i - 1 \in 1..(Len(s) - 1) /\ Tail(s)[i - 1] = s[i]
      BY <1>1, <1>2, <1>3
    <2> QED
      BY <1>2, <2>1 DEF ToSet
  <1>4. ASSUME NEW i \in 1..(Len(s) - 1)
        PROVE  Tail(s)[i] \in ToSet(s)
    <2>1. i + 1 \in 1..Len(s) /\ Tail(s)[i] = s[i + 1]
      BY <1>1, <1>2
    <2> QED
      BY <1>1, <2>1 DEF ToSet
  <1>5. 1 \in 1..Len(s)
    BY <1>1
  <1> QED
    BY <1>1, <1>2, <1>3, <1>4, <1>5 DEF ToSet

LEMMA AppendToSet ==
  ASSUME NEW S, NEW s \in Seq(S), NEW x \in S
  PROVE  Append(s, x) \in Seq(S) /\ ToSet(Append(s, x)) = ToSet(s) \cup {x}
  <1>1. Append(s, x) \in Seq(S) /\ Len(Append(s, x)) = Len(s) + 1
        /\ Len(s) \in Nat /\ DOMAIN s = 1..Len(s)
        /\ DOMAIN Append(s, x) = 1..(Len(s) + 1)
        /\ Append(s, x)[Len(s) + 1] = x
        /\ \A i \in 1..Len(s) : Append(s, x)[i] = s[i]
    BY AppendProperties
  <1>2. 1..(Len(s) + 1) = 1..Len(s) \cup {Len(s) + 1}
    BY <1>1
  <1> QED
    BY <1>1, <1>2 DEF ToSet

LEMMA InToSet ==
  ASSUME NEW S, NEW s \in Seq(S)
  PROVE  \A x \in ToSet(s) : x \in S
  <1>1. DOMAIN s = 1..Len(s)
    OBVIOUS
  <1> QED
    BY <1>1, ElementOfSeq DEF ToSet

\* A finite set has an order.
LEMMA OrderedSet ==
  ASSUME NEW S, IsFiniteSet(S)
  PROVE  /\ SetToSeq(S) \in Seq(S) /\ DOMAIN SetToSeq(S) = 1..Cardinality(S)
         /\ Cardinality(S) \in Nat
  <1>1. Cardinality(S) \in Nat /\ ExistsBijection(1..Cardinality(S), S)
    BY FS_CardinalityType
  <1>2. \E f \in [1..Cardinality(S) -> S] : IsInjective(f)
    BY <1>1 DEF ExistsBijection, Bijection, Injection
  <1>3. SetToSeq(S) \in [1..Cardinality(S) -> S]
    BY <1>2 DEF SetToSeq
  <1> QED
    BY <1>1, <1>3

-----------------------------------------------------------------------------
(* Messages.                                                               *)

LEMMA LetterTypes ==
  \A m \in Letters :
    /\ m.from \in Nodes /\ m.to \in Nodes /\ m.from # m.to
    /\ m.kind = "newPeer" => m.body \in Nodes \ {m.to}
    /\ m.kind = "peerList" => m.body \in SUBSET (Nodes \ {m.to})
    /\ m.kind \in {"data", "flood"} => m.body \in ToSet(made)
  BY DEF Letters

\* What a node may send to another.
LEMMA MaySend ==
  ASSUME NEW n \in Nodes, NEW q \in Nodes \ {n}
  PROVE  /\ Message("connect", n, q, NoNode) \in Outgoing(n)
         /\ Message("accepted", n, q, NoNode) \in Outgoing(n)
         /\ Message("getPeerList", n, q, NoNode) \in Outgoing(n)
         /\ \A p \in Nodes \ {q} : Message("newPeer", n, q, p) \in Outgoing(n)
         /\ \A P \in SUBSET (Nodes \ {q}) :
              Message("peerList", n, q, P) \in Outgoing(n)
         /\ \A c \in ToSet(made) : /\ Message("data", n, q, c) \in Outgoing(n)
                                   /\ Message("flood", n, q, c) \in Outgoing(n)
  BY DEF Message, Outgoing, Letters

LEMMA ToEachIsSent ==
  ASSUME NEW n, NEW P \in SUBSET Nodes, NEW kind, NEW body,
         \A q \in P : Message(kind, n, q, body) \in Outgoing(n)
  PROVE  /\ ToEach(P, kind, n, body) \in Seq(Outgoing(n))
         /\ \A i \in DOMAIN ToEach(P, kind, n, body) :
              \E q \in P : ToEach(P, kind, n, body)[i] = Message(kind, n, q, body)
  <1> DEFINE s == SetToSeq(P)
             t == ToEach(P, kind, n, body)
  <1>1. IsFiniteSet(P)
    BY FS_Subset, RouterAssumption
  <1>2. s \in Seq(P) /\ DOMAIN s = 1..Cardinality(P) /\ Cardinality(P) \in Nat
    BY <1>1, OrderedSet
  <1>3. t = [i \in 1..Cardinality(P) |-> Message(kind, n, s[i], body)]
    BY <1>2 DEF ToEach
  <1>4. \A i \in 1..Cardinality(P) : s[i] \in P
    BY <1>2
  <1> HIDE DEF s, t
  <1>5. \A i \in 1..Cardinality(P) :
           t[i] \in Outgoing(n) /\ \E q \in P : t[i] = Message(kind, n, q, body)
    BY <1>3, <1>4
  <1>6. t \in [1..Cardinality(P) -> Outgoing(n)]
    BY <1>3, <1>5
  <1>7. t \in Seq(Outgoing(n))
    BY <1>2, <1>6
  <1> QED
    BY <1>3, <1>5, <1>7 DEF t

\* With more calls made and more connections there are more messages.
LEMMA MoreLetters ==
  ASSUME ToSet(made) \subseteq ToSet(made)', created \subseteq created'
  PROVE  /\ \A n : Outgoing(n) \subseteq Outgoing(n)'
         /\ \A n, c : Incoming(n, c) \subseteq Incoming(n, c)'
         /\ \A n : Opened(n) \subseteq Opened(n)'
  <1>1. Letters \subseteq Letters'
    BY DEF Letters
  <1> QED
    BY <1>1 DEF Outgoing, Incoming, Opened

-----------------------------------------------------------------------------
(* Each part of the state, whatever step it is that changes it.            *)

LEMMA CallTypes ==
  ASSUME CallsInv
  PROVE  \A c \in setup.calls :
           /\ c.by \in Nodes
           /\ c.op \in {"connect", "getPeerList", "send"} =>
                c.to \in Nodes \ {c.by}
  <1>1. setup.calls \subseteq Calls /\ \A c \in setup.calls : c.by # c.to
    BY RouterAssumption DEF CallsInv
  <1> QED
    BY <1>1 DEF Calls

LEMMA PeerTypes ==
  ASSUME CreatedInv, TableInv, NEW n \in Nodes
  PROVE  /\ Peers(n) \in SUBSET (Nodes \ {n})
         /\ \A q \in Nodes : Between(n, q) = {} => q \notin Peers(n)
  <1>1. \A q \in Peers(n) : Between(n, q) # {}
    BY DEF TableInv
  <1>2. Between(n, n) = {}
    BY DEF CreatedInv, Between, Connections
  <1> QED
    BY <1>1, <1>2 DEF Peers

\* What is on a connection, read or not, comes from the other end of it.
LEMMA OpenedTypes ==
  ASSUME CreatedInv, NEW n \in Nodes, NEW r \in Opened(n)
  PROVE  /\ r.msg \in Letters /\ r.sock \in created
         /\ r.msg.to = n /\ r.msg.from \in Nodes \ {n}
         /\ r.sock \in Between(n, r.msg.from)
         /\ r.msg.from = Other(r.sock, n)
         /\ n \in {r.sock[1], r.sock[2]}
  <1>1. r.msg \in Letters /\ r.sock \in created /\ r.msg.to = n
        /\ {r.msg.from, n} = {r.sock[1], r.sock[2]}
    BY DEF Opened, Incoming
  <1>2. r.msg.from \in Nodes \ {n}
    BY <1>1, LetterTypes
  <1> QED
    BY <1>1, <1>2 DEF Between, Other

LEMMA TxKept ==
  ASSUME TxInv, ToSet(made) \subseteq ToSet(made)', created \subseteq created',
         NEW n \in Nodes, NEW s \in Seq(Outgoing(n)'),
         txbuffer' = [txbuffer EXCEPT ![n] = s]
  PROVE  TxInv'
  <1>1. \A q \in Nodes : Outgoing(q) \subseteq Outgoing(q)'
    BY MoreLetters
  <1>2. \A q \in Nodes : txbuffer[q] \in Seq(Outgoing(q)')
    BY <1>1, WiderSeq DEF TxInv
  <1> QED
    BY <1>2 DEF TxInv

LEMMA PutKept ==
  ASSUME TxInv, ToSet(made) \subseteq ToSet(made)', created \subseteq created',
         NEW n \in Nodes, NEW s \in Seq(Outgoing(n)'), put(n, s)
  PROVE  TxInv'
  <1>1. txbuffer[n] \in Seq(Outgoing(n)')
    BY MoreLetters, WiderSeq DEF TxInv
  <1>2. txbuffer[n] \o s \in Seq(Outgoing(n)')
    BY <1>1
  <1> QED
    BY <1>2, TxKept DEF put

LEMMA RxKept ==
  ASSUME RxInv, ToSet(made) \subseteq ToSet(made)', created \subseteq created',
         NEW n \in Nodes, NEW s \in Seq(Opened(n)'),
         rxbuffer' = [rxbuffer EXCEPT ![n] = s]
  PROVE  RxInv'
  <1>1. \A q \in Nodes : Opened(q) \subseteq Opened(q)'
    BY MoreLetters
  <1>2. \A q \in Nodes : rxbuffer[q] \in Seq(Opened(q)')
    BY <1>1, WiderSeq DEF RxInv
  <1> QED
    BY <1>2 DEF RxInv

\* If neither buffer is touched.
LEMMA BuffersGrow ==
  ASSUME ToSet(made) \subseteq ToSet(made)', created \subseteq created'
  PROVE  /\ TxInv /\ UNCHANGED txbuffer => TxInv'
         /\ RxInv /\ UNCHANGED rxbuffer => RxInv'
         /\ WireInv /\ UNCHANGED <<wire, created>> => WireInv'
         /\ ContentsInv /\ UNCHANGED contents => ContentsInv'
  <1>1. ASSUME TxInv, UNCHANGED txbuffer PROVE TxInv'
    BY <1>1, MoreLetters, WiderSeq DEF TxInv
  <1>2. ASSUME RxInv, UNCHANGED rxbuffer PROVE RxInv'
    BY <1>2, MoreLetters, WiderSeq DEF RxInv
  <1>3. ASSUME WireInv, UNCHANGED <<wire, created>> PROVE WireInv'
    BY <1>3, MoreLetters, WiderSeq DEF WireInv
  <1>4. ASSUME ContentsInv, UNCHANGED contents PROVE ContentsInv'
    <2>1. \A n \in Nodes : databuffer[n] \in Seq(ToSet(made)')
      BY <1>4, WiderSeq DEF ContentsInv
    <2>2. databuffer \in [Nodes -> Seq(ToSet(made)')]
      BY <1>4, <2>1 DEF ContentsInv
    <2>3. hasSeenMessage \in [Nodes -> SUBSET (ToSet(made)')]
      BY <1>4 DEF ContentsInv
    <2> QED
      BY <1>4, <2>2, <2>3 DEF ContentsInv
  <1> QED
    BY <1>1, <1>2, <1>3, <1>4

LEMMA WireKept ==
  ASSUME WireInv, UNCHANGED <<made, created>>,
         NEW c \in created, NEW n \in Nodes, NEW s \in Seq(Incoming(n, c)),
         wire' = [wire EXCEPT ![c][n] = s]
  PROVE  WireInv'
  <1>1. \A k, q : Incoming(q, k)' = Incoming(q, k)
    BY DEF Incoming, Letters
  <1>2. /\ DOMAIN wire' = created
        /\ \A k \in created : DOMAIN wire'[k] = Nodes
        /\ \A k \in created, q \in Nodes :
             wire'[k][q] = IF k = c /\ q = n THEN s ELSE wire[k][q]
    BY DEF WireInv
  <1>3. \A k \in created, q \in Nodes : wire'[k][q] \in Seq(Incoming(q, k))
    BY <1>2 DEF WireInv
  <1> QED
    BY <1>1, <1>2, <1>3 DEF WireInv

\* Closing an end changes nothing else.
LEMMA CloseKept ==
  ASSUME EndsInv, NEW n \in Nodes, NEW cs \in SUBSET created, Close(n, cs),
         backlog' \subseteq backlog, UNCHANGED created
  PROVE  EndsInv'
  BY DEF EndsInv, Close

LEMMA ReleasedTypes ==
  ASSUME LastInv, NEW n \in Nodes
  PROVE  /\ Released(n, accepted[n], opened[n]) \in SUBSET created
         /\ Released(n, opened[n], accepted[n]) \in SUBSET created
  BY DEF LastInv, Released

\* What is not touched stays as it is.
LEMMA Untouched ==
  ASSUME ToSet(made) \subseteq ToSet(made)'
  PROVE  /\ CallsInv /\ UNCHANGED <<setup, up, made>> => CallsInv'
         /\ CreatedInv /\ UNCHANGED created => CreatedInv'
         /\ EndsInv /\ UNCHANGED <<created, closed, reset, backlog>> => EndsInv'
         /\ WireInv /\ UNCHANGED <<created, wire>> => WireInv'
         /\ TableInv /\ UNCHANGED <<created, peerAddressToSocket>> => TableInv'
         /\ ListInv /\ UNCHANGED <<created, socketList>> => ListInv'
         /\ LastInv /\ UNCHANGED <<created, accepted, opened>> => LastInv'
         /\ RxInv /\ UNCHANGED <<created, rxbuffer>> => RxInv'
         /\ TxInv /\ UNCHANGED <<created, txbuffer>> => TxInv'
         /\ ContentsInv /\ UNCHANGED contents => ContentsInv'
  <1>1. ASSUME UNCHANGED created
        PROVE  /\ WireInv /\ UNCHANGED wire => WireInv'
               /\ RxInv /\ UNCHANGED rxbuffer => RxInv'
               /\ TxInv /\ UNCHANGED txbuffer => TxInv'
    BY <1>1, BuffersGrow
  <1>2. ContentsInv /\ UNCHANGED contents => ContentsInv'
    <2>1. \A n \in Nodes : databuffer[n] \in Seq(ToSet(made))
                             => databuffer[n] \in Seq(ToSet(made)')
      BY WiderSeq
    <2> QED
      BY <2>1 DEF ContentsInv
  <1>3. CallsInv /\ UNCHANGED <<setup, up, made>> => CallsInv'
    BY DEF CallsInv
  <1>4. CreatedInv /\ UNCHANGED created => CreatedInv'
    BY DEF CreatedInv
  <1>5. EndsInv /\ UNCHANGED <<created, closed, reset, backlog>> => EndsInv'
    BY DEF EndsInv
  <1>6. TableInv /\ UNCHANGED <<created, peerAddressToSocket>> => TableInv'
    BY DEF TableInv, Peers, Between
  <1>7. ListInv /\ UNCHANGED <<created, socketList>> => ListInv'
    BY DEF ListInv
  <1>8. LastInv /\ UNCHANGED <<created, accepted, opened>> => LastInv'
    BY DEF LastInv
  <1> QED
    BY <1>1, <1>2, <1>3, <1>4, <1>5, <1>6, <1>7, <1>8

LEMMA StructureInit ==
  Init => RInv
  <1> SUFFICES ASSUME Init PROVE RInv
    OBVIOUS
  <1>1. CallsInv
    BY RouterAssumption DEF Init, CallsInv
  <1>2. CreatedInv
    BY FS_EmptySet DEF Init, CreatedInv
  <1>3. EndsInv /\ WireInv
    BY DEF Init, EndsInv, WireInv
  <1>4. TableInv
    BY DEF Init, TableInv, Peers
  <1>5. ListInv /\ LastInv
    BY DEF Init, ListInv, LastInv
  <1>6. RxInv /\ TxInv
    BY DEF Init, RxInv, TxInv
  <1>7. ContentsInv
    BY DEF Init, ContentsInv
  <1> QED
    BY <1>1, <1>2, <1>3, <1>4, <1>5, <1>6, <1>7 DEF RInv

-----------------------------------------------------------------------------
(* The users' calls.                                                       *)

LEMMA MakeKept ==
  ASSUME CallsInv, NEW c \in setup.calls, NEW op, NEW whom, Make(c, op, whom),
         up' \subseteq Nodes
  PROVE  /\ CallsInv' /\ ToSet(made)' = ToSet(made) \cup {c}
         /\ c.by \in Nodes /\ c.by \in up /\ c.op = op
  <1>1. made \in Seq(setup.calls)
    BY DEF CallsInv
  <1>2. /\ Append(made, c) \in Seq(setup.calls)
        /\ ToSet(Append(made, c)) = ToSet(made) \cup {c}
    BY <1>1, AppendToSet
  <1>3. made' = Append(made, c) /\ setup' = setup
    BY DEF Make
  <1> QED
    BY <1>2, <1>3, CallTypes DEF CallsInv, Make

\* connect, getPeerList and send.
LEMMA QueueKept ==
  ASSUME RInv, NEW c \in setup.calls, NEW op, NEW whom, Make(c, op, whom),
         NEW s \in Seq(Outgoing(c.by)'), Queue(c.by, s)
  PROVE  RInv'
  <1>1. CallsInv' /\ ToSet(made) \subseteq ToSet(made)' /\ c.by \in Nodes
    BY MakeKept DEF RInv, Queue, CallsInv
  <1>2. TxInv'
    BY <1>1, PutKept DEF Queue, RInv
  <1> HIDE DEF RInv
  <1> QED
    BY <1>1, <1>2, Untouched DEF RInv, Queue

LEMMA ConnectIsSent ==
  ASSUME NEW n \in Nodes, NEW q \in Nodes \ {n}
  PROVE  ConnectMessages(n, q) \in Seq(Outgoing(n))
  BY MaySend DEF ConnectMessages

LEMMA CallInv ==
  ASSUME RInv, NEW c \in setup.calls,
         connect(c) \/ getPeerList(c) \/ send(c) \/ broadcast(c)
  PROVE  RInv'
  <1> DEFINE n == c.by
             q == c.to
  <1>0. CallsInv
    BY DEF RInv
  <1>1. n \in Nodes /\ (c.op \in {"connect", "getPeerList", "send"}
                          => q \in Nodes \ {n})
    BY <1>0, CallTypes
  <1>2. up \subseteq Nodes
    BY <1>0 DEF CallsInv
  <1>3. CASE connect(c)
    <2>1. PICK whom : Make(c, "connect", whom)
      BY <1>3 DEF connect
    <2>2. q \in Nodes \ {n} /\ Queue(n, ConnectMessages(n, q))
      BY <1>1, <1>3, <2>1 DEF connect, Make
    <2>3. ToSet(made) \subseteq ToSet(made)' /\ UNCHANGED created
      BY <1>0, <1>2, <2>1, <2>2, MakeKept DEF Queue
    <2>4. ConnectMessages(n, q) \in Seq(Outgoing(n)')
      BY <1>1, <2>2, <2>3, ConnectIsSent, MoreLetters, WiderSeq
    <2> QED
      BY <2>1, <2>2, <2>4, QueueKept
  <1>4. CASE getPeerList(c)
    <2> DEFINE m == Message("getPeerList", n, q, NoNode)
    <2>1. PICK whom : Make(c, "getPeerList", whom)
      BY <1>4 DEF getPeerList
    <2>2. q \in Nodes \ {n} /\ Queue(n, Append(ConnectMessages(n, q), m))
      BY <1>1, <1>4, <2>1 DEF getPeerList, Make
    <2>3. ToSet(made) \subseteq ToSet(made)' /\ UNCHANGED created
      BY <1>0, <1>2, <2>1, <2>2, MakeKept DEF Queue
    <2>4. ConnectMessages(n, q) \in Seq(Outgoing(n)) /\ m \in Outgoing(n)
      BY <1>1, <2>2, ConnectIsSent, MaySend
    <2>5. Append(ConnectMessages(n, q), m) \in Seq(Outgoing(n)')
      BY <2>3, <2>4, MoreLetters, WiderSeq, AppendToSet
    <2> QED
      BY <2>1, <2>2, <2>5, QueueKept
  <1>5. CASE send(c)
    <2> DEFINE m == Message("data", n, q, c)
    <2>1. PICK whom : Make(c, "send", whom)
      BY <1>5 DEF send
    <2>2. q \in Nodes \ {n} /\ Queue(n, Append(ConnectMessages(n, q), m))
      BY <1>1, <1>5, <2>1 DEF send, Make
    <2>3. ToSet(made)' = ToSet(made) \cup {c} /\ UNCHANGED created
      BY <1>0, <1>2, <2>1, <2>2, MakeKept DEF Queue
    <2>4. m \in Outgoing(n)'
      BY <1>1, <2>2, <2>3 DEF Outgoing, Letters, Message
    <2>5. ConnectMessages(n, q) \in Seq(Outgoing(n)')
      BY <1>1, <2>2, <2>3, ConnectIsSent, MoreLetters, WiderSeq
    <2>6. Append(ConnectMessages(n, q), m) \in Seq(Outgoing(n)')
      BY <2>4, <2>5, AppendToSet
    <2> QED
      BY <2>1, <2>2, <2>6, QueueKept
  <1>6. CASE broadcast(c)
    <2> DEFINE kind == IF setup.mesh THEN "data" ELSE "flood"
               s == ToEach(Peers(n), kind, n, c)
    <2>1. PICK whom : Make(c, "broadcast", whom)
      BY <1>6 DEF broadcast
    <2>2. /\ put(n, s) /\ UNCHANGED <<up, streams, sockets, rxbuffer, databuffer>>
          /\ hasSeenMessage' = IF Peers(n) = {} THEN hasSeenMessage
                               ELSE [hasSeenMessage EXCEPT ![n] = @ \cup {c}]
      BY <1>6 DEF broadcast
    <2>3. CallsInv' /\ ToSet(made)' = ToSet(made) \cup {c}
      BY <1>0, <1>2, <2>1, <2>2, MakeKept
    <2>4. Peers(n) \in SUBSET (Nodes \ {n})
      BY <1>1, PeerTypes DEF RInv
    <2>5. s \in Seq(Outgoing(n)')
      <3>1. \A q1 \in Peers(n) : Message(kind, n, q1, c) \in Outgoing(n)'
        BY <1>1, <2>3, <2>4 DEF Outgoing, Letters, Message
      <3>2. IsFiniteSet(Peers(n))
        BY <2>4, FS_Subset, RouterAssumption
      <3>3. /\ SetToSeq(Peers(n)) \in Seq(Peers(n))
            /\ DOMAIN SetToSeq(Peers(n)) = 1..Cardinality(Peers(n))
            /\ Cardinality(Peers(n)) \in Nat
        BY <3>2, OrderedSet
      <3>4. s = [i \in 1..Cardinality(Peers(n)) |->
                   Message(kind, n, SetToSeq(Peers(n))[i], c)]
        BY <3>3 DEF ToEach
      <3>5. \A i \in 1..Cardinality(Peers(n)) : SetToSeq(Peers(n))[i] \in Peers(n)
        BY <3>3
      <3> HIDE DEF s, kind
      <3>6. s \in [1..Cardinality(Peers(n)) -> Outgoing(n)']
        BY <3>1, <3>4, <3>5
      <3> QED
        BY <3>3, <3>6
    <2>6. TxInv'
      BY <1>1, <2>2, <2>3, <2>5, PutKept DEF RInv
    <2>7. ContentsInv'
      <3>1. ContentsInv
        BY DEF RInv
      <3>2. \A p \in Nodes : databuffer[p] \in Seq(ToSet(made)')
        BY <2>3, <3>1, WiderSeq DEF ContentsInv
      <3>3. databuffer' \in [Nodes -> Seq(ToSet(made)')]
        BY <2>2, <3>1, <3>2 DEF ContentsInv
      <3>4. \A p \in Nodes : hasSeenMessage'[p] \subseteq ToSet(made)'
        BY <2>2, <2>3, <3>1 DEF ContentsInv
      <3>5. hasSeenMessage' \in [Nodes -> SUBSET (ToSet(made)')]
        BY <2>2, <3>1, <3>4 DEF ContentsInv
      <3> QED
        BY <3>3, <3>5 DEF ContentsInv
    <2> QED
      BY <2>2, <2>3, <2>6, <2>7, Untouched DEF RInv
  <1> QED
    BY <1>3, <1>4, <1>5, <1>6

LEMMA StopInv ==
  ASSUME RInv, NEW c \in setup.calls, stop(c)
  PROVE  RInv'
  <1> DEFINE n == c.by
             mine == {s \in created : n \in {s[1], s[2]} /\ ~IsClosed(s, n)}
  <1>1. /\ Make(c, "stop", {}) /\ up' = up \ {n} /\ Close(n, mine)
        /\ backlog' = {s \in backlog : s[2] # n}
        /\ wire' = [s \in created |-> [wire[s] EXCEPT ![n] = <<>>]]
        /\ peerAddressToSocket' =
             [peerAddressToSocket EXCEPT ![n] = [q \in Nodes |-> NoSocket]]
        /\ socketList' = [socketList EXCEPT ![n] = {}]
        /\ accepted' = [accepted EXCEPT ![n] = NoSocket]
        /\ opened' = [opened EXCEPT ![n] = NoSocket]
        /\ rxbuffer' = [rxbuffer EXCEPT ![n] = <<>>]
        /\ txbuffer' = [txbuffer EXCEPT ![n] = <<>>]
        /\ hasSeenMessage' = [hasSeenMessage EXCEPT ![n] = {}]
        /\ databuffer' = [databuffer EXCEPT ![n] = <<>>]
        /\ UNCHANGED created
    BY DEF stop
  <1>2. CallsInv' /\ ToSet(made) \subseteq ToSet(made)' /\ n \in Nodes
    BY <1>1, MakeKept DEF RInv, CallsInv
  <1>3. CreatedInv'
    BY <1>1, <1>2, Untouched DEF RInv
  <1>4. EndsInv'
    BY <1>1, <1>2, CloseKept DEF RInv
  <1>5. WireInv'
    <2>1. WireInv
      BY DEF RInv
    <2>2. \A s \in created, q \in Nodes :
            wire'[s][q] = IF q = n THEN <<>> ELSE wire[s][q]
      BY <1>1, <2>1 DEF WireInv
    <2>3. \A s \in created, q \in Nodes :
            wire[s][q] \in Seq(Incoming(q, s)')
      BY <1>1, <1>2, <2>1, MoreLetters, WiderSeq DEF WireInv
    <2>4. ASSUME NEW s \in created, NEW q \in Nodes
          PROVE  wire'[s][q] \in Seq(Incoming(q, s)')
      <3>1. <<>> \in Seq(Incoming(q, s)')
        OBVIOUS
      <3>2. wire'[s][q] \in {<<>>, wire[s][q]}
        BY <2>2
      <3>3. wire[s][q] \in Seq(Incoming(q, s)')
        BY <2>3
      <3> QED
        BY <3>1, <3>2, <3>3
    <2> QED
      BY <1>1, <2>1, <2>4 DEF WireInv
  <1>6. TableInv'
    <2>1. TableInv
      BY DEF RInv
    <2>2. \A p, q \in Nodes :
            peerAddressToSocket'[p][q] = IF p = n THEN NoSocket
                                         ELSE peerAddressToSocket[p][q]
      BY <1>1, <2>1 DEF TableInv
    <2>3. ASSUME NEW p \in Nodes, NEW q \in Nodes,
                 peerAddressToSocket'[p][q] # NoSocket
          PROVE  peerAddressToSocket'[p][q] \in Between(p, q)'
      <3>1. /\ peerAddressToSocket'[p][q] = peerAddressToSocket[p][q]
            /\ q \in Peers(p)
        BY <2>2, <2>3 DEF Peers
      <3>2. Between(p, q)' = Between(p, q)
        BY <1>1 DEF Between
      <3> QED
        BY <2>1, <3>1, <3>2 DEF TableInv
    <2>4. \A p \in Nodes : DOMAIN peerAddressToSocket'[p] = Nodes
      BY <1>1, <2>1 DEF TableInv
    <2> QED
      BY <1>1, <2>1, <2>3, <2>4 DEF TableInv, Peers
  <1>7. ListInv'
    BY <1>1, <1>2 DEF RInv, ListInv
  <1>8. LastInv'
    BY <1>1, <1>2 DEF RInv, LastInv
  <1>9. RxInv'
    <2>1. <<>> \in Seq(Opened(n)')
      OBVIOUS
    <2> QED
      BY <1>1, <1>2, <2>1, RxKept DEF RInv
  <1>10. TxInv'
    <2>1. <<>> \in Seq(Outgoing(n)')
      OBVIOUS
    <2> QED
      BY <1>1, <1>2, <2>1, TxKept DEF RInv
  <1>11. ContentsInv'
    <2>1. ContentsInv
      BY DEF RInv
    <2>2. \A p \in Nodes : databuffer[p] \in Seq(ToSet(made)')
      BY <1>2, <2>1, WiderSeq DEF ContentsInv
    <2>3. \A p \in Nodes : databuffer'[p] \in Seq(ToSet(made)')
                             /\ hasSeenMessage'[p] \in SUBSET (ToSet(made)')
      BY <1>1, <1>2, <2>1, <2>2 DEF ContentsInv
    <2>4. databuffer' \in [Nodes -> Seq(ToSet(made)')]
      BY <1>1, <2>1, <2>3 DEF ContentsInv
    <2>5. hasSeenMessage' \in [Nodes -> SUBSET (ToSet(made)')]
      BY <1>1, <2>1, <2>3 DEF ContentsInv
    <2> QED
      BY <2>4, <2>5 DEF ContentsInv
  <1> QED
    BY <1>2, <1>3, <1>4, <1>5, <1>6, <1>7, <1>8, <1>9, <1>10, <1>11 DEF RInv

-----------------------------------------------------------------------------
(* The TX thread.                                                          *)

LEMMA TransmitKept ==
  ASSUME RInv, NEW n \in Nodes, NEW m, Transmit(n, m), created \subseteq created'
  PROVE  /\ CallsInv' /\ TxInv' /\ RxInv' /\ ContentsInv'
         /\ UNCHANGED <<made, setup>>
         /\ m \in Outgoing(n) /\ m \in Letters /\ m.from = n
         /\ m.to \in Nodes \ {n}
         /\ LastInv'
  <1>1. /\ txbuffer[n] # <<>> /\ m = Head(txbuffer[n])
        /\ txbuffer' = [txbuffer EXCEPT ![n] = Tail(@)]
        /\ UNCHANGED <<setup, made, up, rxbuffer, contents, accepted, opened>>
    BY DEF Transmit
  <1>2. m \in Outgoing(n) /\ Tail(txbuffer[n]) \in Seq(Outgoing(n))
    BY <1>1, FirstOfSeq DEF RInv, TxInv
  <1>3. Tail(txbuffer[n]) \in Seq(Outgoing(n)')
    BY <1>1, <1>2, MoreLetters, WiderSeq
  <1>4. TxInv' /\ RxInv'
    BY <1>1, <1>3, TxKept, BuffersGrow DEF RInv
  <1>5. CallsInv' /\ ContentsInv'
    BY <1>1, Untouched DEF RInv
  <1>6. m \in Letters /\ m.from = n
    BY <1>2 DEF Outgoing
  <1>7. LastInv'
    BY <1>1 DEF RInv, LastInv
  <1> QED
    BY <1>1, <1>2, <1>4, <1>5, <1>6, <1>7, LetterTypes

LEMMA SendOnSocketInv ==
  ASSUME RInv, NEW n \in Nodes, NEW m, sendOnSocket(n, m)
  PROVE  RInv'
  <1> DEFINE c == peerAddressToSocket[n][m.to]
  <1>1. /\ Transmit(n, m) /\ m.to \in Peers(n)
        /\ wire' = [wire EXCEPT ![c][m.to] = Append(@, m)]
        /\ UNCHANGED <<peerAddressToSocket, socketList, created, closed, reset,
                       backlog>>
    BY DEF sendOnSocket
  <1>2. /\ CallsInv' /\ TxInv' /\ RxInv' /\ ContentsInv' /\ LastInv'
        /\ UNCHANGED made
        /\ m \in Letters /\ m.from = n /\ m.to \in Nodes \ {n}
    BY <1>1, TransmitKept
  <1>3. c \in created /\ {c[1], c[2]} = {n, m.to}
    BY <1>1 DEF RInv, TableInv, Between
  <1>4. m \in Incoming(m.to, c)
    BY <1>2, <1>3 DEF Incoming
  <1>5. wire[c][m.to] \in Seq(Incoming(m.to, c))
    BY <1>2, <1>3 DEF RInv, WireInv
  <1>6. Append(wire[c][m.to], m) \in Seq(Incoming(m.to, c))
    BY <1>4, <1>5
  <1>7. WireInv'
    BY <1>1, <1>2, <1>3, <1>6, WireKept DEF RInv
  <1> QED
    BY <1>1, <1>2, <1>7, Untouched DEF RInv

LEMMA VoidInv ==
  ASSUME RInv, NEW n \in Nodes, NEW m, sendIntoTheVoid(n, m) \/ refuse(n, m)
  PROVE  RInv'
  <1>1. /\ Transmit(n, m)
        /\ UNCHANGED <<peerAddressToSocket, socketList, created, closed, backlog,
                       wire>>
    BY DEF sendIntoTheVoid, refuse
  <1>2. /\ CallsInv' /\ TxInv' /\ RxInv' /\ ContentsInv' /\ LastInv'
        /\ UNCHANGED made
    BY <1>1, TransmitKept
  <1>3. EndsInv'
    <2>1. CASE refuse(n, m)
      BY <1>1, <2>1 DEF refuse, RInv, EndsInv
    <2>2. CASE sendIntoTheVoid(n, m)
      <3>1. peerAddressToSocket[n][m.to] \in created
        BY <2>2 DEF sendIntoTheVoid, RInv, TableInv, Between
      <3> QED
        BY <1>1, <2>2, <3>1 DEF sendIntoTheVoid, RInv, EndsInv
    <2> QED
      BY <2>1, <2>2
  <1> QED
    BY <1>1, <1>2, <1>3, Untouched DEF RInv

\* The next connection has not been made yet.
LEMMA NextIsNew ==
  ASSUME CreatedInv, NEW n \in Nodes, NEW q \in Nodes \ {n}
  PROVE  LET sock == NextSocket(n, q)
         IN  /\ sock \in Connections \ created /\ sock[1] = n /\ sock[2] = q
             /\ created' = created \cup {sock} => CreatedInv'
  <1> DEFINE Pair(k) == {x \in created : x[1] = k[1] /\ x[2] = k[2]}
             sock == NextSocket(n, q)
             same == {x \in created : x[1] = n /\ x[2] = q}
  <1>1. IsFiniteSet(same) /\ Cardinality(same) \in Nat
    BY FS_Subset, FS_CardinalityType DEF CreatedInv
  <1>2. sock = <<n, q, 1 + Cardinality(same)>>
    BY DEF NextSocket
  <1>3. sock[1] = n /\ sock[2] = q /\ sock[3] = 1 + Cardinality(same)
    BY <1>2
  <1>4. sock \in Connections
    BY <1>1, <1>2, <1>3 DEF Connections
  <1>5. sock \notin created
    <2>1. SUFFICES ASSUME sock \in created PROVE FALSE
      OBVIOUS
    <2>2. sock[3] <= Cardinality({k \in created : k[1] = sock[1] /\ k[2] = sock[2]})
      BY <2>1 DEF CreatedInv
    <2>3. {k \in created : k[1] = sock[1] /\ k[2] = sock[2]} = same
      BY <1>3
    <2> QED
      BY <1>1, <1>3, <2>2, <2>3
  <1>6. ASSUME created' = created \cup {sock} PROVE CreatedInv'
    <2>1. created' \subseteq Connections
      BY <1>4, <1>6 DEF CreatedInv
    <2>2. IsFiniteSet(created')
      BY <1>6, FS_AddElement DEF CreatedInv
    <2>3. ASSUME NEW c \in created'
          PROVE  c[3] <= Cardinality({k \in created' : k[1] = c[1] /\ k[2] = c[2]})
      <3> DEFINE new == {k \in created' : k[1] = c[1] /\ k[2] = c[2]}
      <3>1. CASE c[1] = n /\ c[2] = q
        <4>1. new = same \cup {sock} /\ sock \notin same
          BY <1>3, <1>5, <1>6, <3>1
        <4>2. Cardinality(new) = Cardinality(same) + 1
          BY <1>1, <4>1, FS_AddElement
        <4>3. c \in created => c[3] <= Cardinality(same)
          BY <3>1 DEF CreatedInv
        <4>4. c \in created => c[3] \in Nat
          BY DEF CreatedInv, Connections
        <4> QED
          BY <1>1, <1>3, <1>6, <4>2, <4>3, <4>4
      <3>2. CASE ~(c[1] = n /\ c[2] = q)
        <4>1. c \in created
          BY <1>3, <1>6, <3>2
        <4>2. new = Pair(c)
          BY <1>3, <1>6, <3>2
        <4> QED
          BY <4>1, <4>2 DEF CreatedInv
      <3> QED
        BY <3>1, <3>2
    <2> QED
      BY <2>1, <2>2, <2>3 DEF CreatedInv
  <1> QED
    BY <1>3, <1>4, <1>5, <1>6

LEMMA CreateSocketInv ==
  ASSUME RInv, NEW n \in Nodes, NEW m, createSocket(n, m)
  PROVE  RInv'
  <1>0. PICK sock : sock = NextSocket(n, m.to)
    OBVIOUS
  <1>1. /\ Transmit(n, m) /\ m.to \notin Peers(n) /\ m.to \in up
        /\ created' = created \cup {sock} /\ backlog' = backlog \cup {sock}
        /\ wire' = [c \in created' |->
                      IF c = sock THEN [q \in Nodes |-> IF q = m.to THEN <<m>>
                                                        ELSE <<>>]
                      ELSE wire[c]]
        /\ UNCHANGED <<closed, reset>>
        /\ peerAddressToSocket' = [peerAddressToSocket EXCEPT ![n][m.to] = sock]
        /\ socketList' = [socketList EXCEPT ![n] = @ \cup {sock}]
    BY <1>0 DEF createSocket, Connected
  <1>2. /\ CallsInv' /\ TxInv' /\ RxInv' /\ ContentsInv' /\ LastInv'
        /\ UNCHANGED made
        /\ m \in Letters /\ m.from = n /\ m.to \in Nodes \ {n}
    BY <1>1, TransmitKept
  <1>3. /\ CreatedInv' /\ sock \notin created
        /\ sock[1] = n /\ sock[2] = m.to
    BY <1>0, <1>1, <1>2, NextIsNew DEF RInv
  <1>4. EndsInv'
    BY <1>1 DEF RInv, EndsInv
  <1>5. WireInv'
    <2>1. ASSUME NEW c \in created', NEW q \in Nodes
          PROVE  DOMAIN wire'[c] = Nodes /\ wire'[c][q] \in Seq(Incoming(q, c)')
      <3>1. CASE c # sock
        <4>1. c \in created /\ wire'[c] = wire[c]
          BY <1>1, <3>1
        <4>2. DOMAIN wire[c] = Nodes /\ wire[c][q] \in Seq(Incoming(q, c))
          BY <4>1 DEF RInv, WireInv
        <4>3. Incoming(q, c) \subseteq Incoming(q, c)'
          BY <1>1, <1>2, MoreLetters
        <4> QED
          BY <4>1, <4>2, <4>3, WiderSeq
      <3>2. CASE c = sock
        <4>1. /\ DOMAIN wire'[c] = Nodes
              /\ wire'[c][q] = IF q = m.to THEN <<m>> ELSE <<>>
          BY <1>1, <3>2
        <4>2. m \in Incoming(m.to, sock)
          BY <1>2, <1>3 DEF Incoming
        <4>3. m \in Incoming(m.to, sock)'
          BY <1>1, <1>2, <4>2, MoreLetters
        <4> QED
          BY <3>2, <4>1, <4>3
      <3> QED
        BY <3>1, <3>2
    <2>2. DOMAIN wire' = created'
      BY <1>1
    <2> QED
      BY <2>1, <2>2 DEF WireInv
  <1>6. TableInv'
    <2>1. TableInv
      BY DEF RInv
    <2>2. /\ DOMAIN peerAddressToSocket' = Nodes
          /\ \A p \in Nodes : DOMAIN peerAddressToSocket'[p] = Nodes
      BY <1>1, <2>1 DEF TableInv
    <2>3. \A p, q \in Nodes :
            peerAddressToSocket'[p][q] = IF p = n /\ q = m.to THEN sock
                                         ELSE peerAddressToSocket[p][q]
      BY <1>1, <1>2, <2>1 DEF TableInv
    <2>4. ASSUME NEW p \in Nodes, NEW q \in Nodes,
                 peerAddressToSocket'[p][q] # NoSocket
          PROVE  peerAddressToSocket'[p][q] \in Between(p, q)'
      <3>1. CASE p = n /\ q = m.to
        BY <1>1, <1>3, <2>3, <3>1 DEF Between
      <3>2. CASE ~(p = n /\ q = m.to)
        <4>1. /\ peerAddressToSocket'[p][q] = peerAddressToSocket[p][q]
              /\ q \in Peers(p)
          BY <2>3, <2>4, <3>2 DEF Peers
        <4>2. Between(p, q) \subseteq Between(p, q)'
          BY <1>1 DEF Between
        <4> QED
          BY <2>1, <4>1, <4>2 DEF TableInv
      <3> QED
        BY <3>1, <3>2
    <2> QED
      BY <2>2, <2>4 DEF TableInv, Peers
  <1>7. ListInv'
    BY <1>1, <1>3 DEF RInv, ListInv
  <1> QED
    BY <1>2, <1>3, <1>4, <1>5, <1>6, <1>7 DEF RInv

LEMMA TxThreadInv ==
  ASSUME RInv, NEW n \in Nodes, txThread(n)
  PROVE  RInv'
  BY SendOnSocketInv, VoidInv, CreateSocketInv DEF txThread

-----------------------------------------------------------------------------
(* The RX thread.                                                          *)

LEMMA ReadKept ==
  ASSUME RInv, NEW n \in Nodes, NEW c \in created, Read(n, c),
         UNCHANGED <<made, created>>
  PROVE  RxInv' /\ WireInv'
  <1>1. /\ wire[c][n] # <<>> /\ wire' = [wire EXCEPT ![c][n] = Tail(@)]
        /\ rxbuffer' = [rxbuffer EXCEPT ![n] =
                          Append(@, [msg |-> Head(wire[c][n]), sock |-> c])]
    BY DEF Read
  <1>2. wire[c][n] \in Seq(Incoming(n, c))
    BY DEF RInv, WireInv
  <1>3. /\ Head(wire[c][n]) \in Incoming(n, c)
        /\ Tail(wire[c][n]) \in Seq(Incoming(n, c))
    BY <1>1, <1>2, FirstOfSeq
  <1>4. WireInv'
    BY <1>1, <1>3, WireKept DEF RInv
  <1>5. [msg |-> Head(wire[c][n]), sock |-> c] \in Opened(n)
    BY <1>3 DEF Opened, Incoming
  <1>6. Append(rxbuffer[n], [msg |-> Head(wire[c][n]), sock |-> c])
          \in Seq(Opened(n)')
    <2>1. rxbuffer[n] \in Seq(Opened(n)')
      BY MoreLetters, WiderSeq DEF RInv, RxInv
    <2>2. [msg |-> Head(wire[c][n]), sock |-> c] \in Opened(n)'
      BY <1>5, MoreLetters
    <2> QED
      BY <2>1, <2>2
  <1> QED
    BY <1>1, <1>4, <1>6, RxKept DEF RInv

LEMMA ReadingInv ==
  ASSUME RInv, NEW n \in Nodes, NEW c \in created,
         \/ handleNewConnection(n, c) \/ handleExistingConnection(n, c)
         \/ readInVain(n, c)
  PROVE  RInv'
  <1>1. CASE handleNewConnection(n, c)
    <2>1. /\ backlog' = backlog \ {c}
          /\ accepted' = [accepted EXCEPT ![n] = c]
          /\ Close(n, Released(n, accepted[n], opened[n])) /\ Read(n, c)
          /\ UNCHANGED <<history, up, created, peerAddressToSocket, socketList,
                         opened, txbuffer, contents>>
      BY <1>1 DEF handleNewConnection
    <2>2. RxInv' /\ WireInv'
      BY <2>1, ReadKept
    <2>3. EndsInv'
      BY <2>1, ReleasedTypes, CloseKept DEF RInv
    <2>4. LastInv'
      BY <2>1 DEF RInv, LastInv
    <2> QED
      BY <2>1, <2>2, <2>3, <2>4, Untouched DEF RInv
  <1>2. CASE handleExistingConnection(n, c)
    <2>1. /\ Read(n, c)
          /\ UNCHANGED <<history, up, created, closed, reset, backlog, sockets,
                         txbuffer, contents>>
      BY <1>2 DEF handleExistingConnection
    <2> QED
      BY <2>1, ReadKept, Untouched DEF RInv
  <1>3. CASE readInVain(n, c)
    <2>1. /\ wire[c][n] # <<>>
          /\ wire' = [wire EXCEPT ![c][n] = Tail(@)]
          /\ UNCHANGED <<history, up, created, closed, reset, backlog, sockets,
                         rxbuffer, txbuffer, contents>>
      BY <1>3 DEF readInVain
    <2>2. Tail(wire[c][n]) \in Seq(Incoming(n, c))
      BY <2>1, FirstOfSeq DEF RInv, WireInv
    <2>3. WireInv'
      BY <2>1, <2>2, WireKept DEF RInv
    <2> QED
      BY <2>1, <2>3, Untouched DEF RInv
  <1> QED
    BY <1>1, <1>2, <1>3

\* The table with one entry taken out, or set to a connection of the right pair.
LEMMA TableKept ==
  ASSUME TableInv, UNCHANGED created, NEW n \in Nodes, NEW q \in Nodes,
         NEW c \in Between(n, q) \cup {NoSocket},
         peerAddressToSocket' = [peerAddressToSocket EXCEPT ![n][q] = c]
  PROVE  TableInv'
  <1>1. /\ DOMAIN peerAddressToSocket' = Nodes
        /\ \A p \in Nodes : DOMAIN peerAddressToSocket'[p] = Nodes
    BY DEF TableInv
  <1>2. \A p, r \in Nodes :
          peerAddressToSocket'[p][r] = IF p = n /\ r = q THEN c
                                       ELSE peerAddressToSocket[p][r]
    BY DEF TableInv
  <1>3. ASSUME NEW p \in Nodes, NEW r \in Nodes,
               peerAddressToSocket'[p][r] # NoSocket
        PROVE  peerAddressToSocket'[p][r] \in Between(p, r)'
    <2>1. Between(p, r)' = Between(p, r)
      BY DEF Between
    <2>2. CASE p = n /\ r = q
      BY <1>2, <1>3, <2>1, <2>2
    <2>3. CASE ~(p = n /\ r = q)
      <3>1. /\ peerAddressToSocket'[p][r] = peerAddressToSocket[p][r]
            /\ r \in Peers(p)
        BY <1>2, <1>3, <2>3 DEF Peers
      <3> QED
        BY <2>1, <3>1 DEF TableInv
    <2> QED
      BY <2>2, <2>3
  <1> QED
    BY <1>1, <1>3 DEF TableInv, Peers

LEMMA RemovalInv ==
  ASSUME RInv, NEW n \in Nodes, NEW c \in created,
         removeSocket(n, c) \/ removeResetSocket(n, c)
  PROVE  RInv'
  <1>1. /\ c \in socketList[n]
        /\ socketList' = [socketList EXCEPT ![n] = @ \ {c}] /\ Close(n, {c})
        /\ UNCHANGED <<history, up, created, backlog, wire, accepted, opened,
                       rxbuffer, txbuffer, contents>>
        /\ \/ UNCHANGED peerAddressToSocket
           \/ peerAddressToSocket' =
                [peerAddressToSocket EXCEPT ![n][Other(c, n)] = NoSocket]
    BY DEF removeSocket, removeResetSocket, EndOfStream
  <1>2. Other(c, n) \in Nodes
    BY DEF Other, RInv, CreatedInv, Connections
  <1>3. TableInv'
    <2>1. CASE UNCHANGED peerAddressToSocket
      BY <1>1, <2>1, Untouched DEF RInv
    <2>2. CASE peerAddressToSocket' =
                 [peerAddressToSocket EXCEPT ![n][Other(c, n)] = NoSocket]
      BY <1>1, <1>2, <2>2, TableKept DEF RInv
    <2> QED
      BY <1>1, <2>1, <2>2
  <1>4. ListInv'
    BY <1>1 DEF RInv, ListInv
  <1>5. EndsInv'
    BY <1>1, CloseKept DEF RInv
  <1> QED
    BY <1>1, <1>3, <1>4, <1>5, Untouched DEF RInv

LEMMA RxThreadInv ==
  ASSUME RInv, NEW n \in Nodes, rxThread(n)
  PROVE  RInv'
  BY ReadingInv, RemovalInv DEF rxThread

-----------------------------------------------------------------------------
(* The message thread.                                                     *)

LEMMA OpenKept ==
  ASSUME RInv, NEW n \in Nodes, rxbuffer[n] # <<>>, NEW kind, NEW e,
         e = Head(rxbuffer[n]), Open(n, kind, e)
  PROVE  /\ CallsInv' /\ CreatedInv' /\ EndsInv' /\ WireInv' /\ LastInv' /\ RxInv'
         /\ UNCHANGED <<made, setup, created>>
         /\ e \in Opened(n) /\ e.msg.kind = kind
         /\ e.msg \in Letters /\ e.msg.from \in Nodes \ {n} /\ e.msg.to = n
         /\ e.sock \in Between(n, e.msg.from) /\ e.sock \in created
         /\ n \in {e.sock[1], e.sock[2]}
  <1>1. /\ rxbuffer' = [rxbuffer EXCEPT ![n] = Tail(@)]
        /\ opened' = [opened EXCEPT ![n] = e.sock]
        /\ Close(n, Released(n, opened[n], accepted[n]))
        /\ UNCHANGED <<history, up, created, backlog, wire, accepted>>
        /\ e.msg.kind = kind
    BY DEF Open
  <1>2. e \in Opened(n) /\ Tail(rxbuffer[n]) \in Seq(Opened(n))
    BY FirstOfSeq DEF RInv, RxInv
  <1>3. RxInv'
    <2>1. Tail(rxbuffer[n]) \in Seq(Opened(n)')
      BY <1>1, <1>2, MoreLetters, WiderSeq
    <2> QED
      BY <1>1, <2>1, RxKept DEF RInv
  <1>4. EndsInv'
    BY <1>1, ReleasedTypes, CloseKept DEF RInv
  <1>5. /\ e.msg \in Letters /\ e.msg.from \in Nodes \ {n} /\ e.msg.to = n
        /\ e.sock \in Between(n, e.msg.from) /\ e.sock \in created
        /\ n \in {e.sock[1], e.sock[2]}
    BY <1>2, OpenedTypes DEF RInv
  <1>6. LastInv'
    BY <1>1, <1>5 DEF RInv, LastInv
  <1>7. CallsInv' /\ CreatedInv' /\ WireInv'
    BY <1>1, Untouched DEF RInv
  <1> QED
    BY <1>1, <1>2, <1>3, <1>4, <1>5, <1>6, <1>7

LEMMA AnswerInv ==
  ASSUME RInv, NEW n \in Nodes, rxbuffer[n] # <<>>, NEW kind, NEW e,
         e = Head(rxbuffer[n]), Open(n, kind, e),
         NEW s \in Seq(Outgoing(n)), Answer(n, s)
  PROVE  RInv'
  <1>1. /\ CallsInv' /\ CreatedInv' /\ EndsInv' /\ WireInv' /\ LastInv' /\ RxInv'
        /\ UNCHANGED <<made, created>>
    BY OpenKept
  <1>2. s \in Seq(Outgoing(n)')
    BY <1>1, MoreLetters, WiderSeq
  <1>3. TxInv'
    BY <1>1, <1>2, PutKept DEF RInv, Answer
  <1>4. TableInv' /\ ListInv' /\ ContentsInv'
    BY <1>1, Untouched DEF RInv, Answer
  <1> QED
    BY <1>1, <1>3, <1>4 DEF RInv

\* What the answers are made of.
LEMMA AnswerTypes ==
  ASSUME RInv, NEW n \in Nodes, NEW e \in Opened(n)
  PROVE  LET m == e.msg
         IN  /\ AcceptedMessage(n, m) \in Outgoing(n)
             /\ m.kind = "newPeer" =>
                  ConnectMessages(n, m.body) \in Seq(Outgoing(n))
             /\ Message("peerList", n, m.from, Peers(n) \ {m.from})
                  \in Outgoing(n)
             /\ m.kind = "peerList" =>
                  ToEach({q \in m.body : q \notin Peers(n)}, "connect", n, NoNode)
                    \in Seq(Outgoing(n))
             /\ ToEach(Peers(n) \ {m.from}, "newPeer", n, m.from)
                  \in Seq(Outgoing(n))
             /\ m.kind = "flood" =>
                  ToEach(Peers(n) \ {m.from}, "flood", n, m.body)
                    \in Seq(Outgoing(n))
  <1> DEFINE m == e.msg
  <1>1. /\ m \in Letters /\ m.to = n /\ m.from \in Nodes \ {n}
        /\ m.kind = "newPeer" => m.body \in Nodes \ {n}
        /\ m.kind = "peerList" => m.body \in SUBSET (Nodes \ {n})
        /\ m.kind \in {"data", "flood"} => m.body \in ToSet(made)
    BY OpenedTypes, LetterTypes DEF RInv
  <1> HIDE DEF m
  <1>2. Peers(n) \in SUBSET (Nodes \ {n})
    BY PeerTypes DEF RInv
  <1>3. AcceptedMessage(n, m) \in Outgoing(n)
    BY <1>1, MaySend DEF AcceptedMessage
  <1>4. m.kind = "newPeer" => ConnectMessages(n, m.body) \in Seq(Outgoing(n))
    BY <1>1, ConnectIsSent
  <1>5. Message("peerList", n, m.from, Peers(n) \ {m.from}) \in Outgoing(n)
    BY <1>1, <1>2, MaySend
  <1>6. m.kind = "peerList" =>
          ToEach({q \in m.body : q \notin Peers(n)}, "connect", n, NoNode)
            \in Seq(Outgoing(n))
    <2>1. SUFFICES ASSUME m.kind = "peerList"
                   PROVE  ToEach({q \in m.body : q \notin Peers(n)}, "connect", n,
                                 NoNode) \in Seq(Outgoing(n))
      OBVIOUS
    <2>2. {q \in m.body : q \notin Peers(n)} \in SUBSET Nodes
      BY <1>1, <2>1
    <2>3. \A q \in {q \in m.body : q \notin Peers(n)} :
            Message("connect", n, q, NoNode) \in Outgoing(n)
      BY <1>1, <2>1, MaySend
    <2> QED
      BY <2>2, <2>3, ToEachIsSent
  <1>7. ToEach(Peers(n) \ {m.from}, "newPeer", n, m.from) \in Seq(Outgoing(n))
    <2>1. \A q \in Peers(n) \ {m.from} :
            Message("newPeer", n, q, m.from) \in Outgoing(n)
      BY <1>1, <1>2, MaySend
    <2> QED
      BY <1>2, <2>1, ToEachIsSent
  <1>8. m.kind = "flood" => ToEach(Peers(n) \ {m.from}, "flood", n, m.body)
                              \in Seq(Outgoing(n))
    <2>1. m.kind = "flood" =>
            \A q \in Peers(n) \ {m.from} :
              Message("flood", n, q, m.body) \in Outgoing(n)
      BY <1>1, <1>2, MaySend
    <2> QED
      BY <1>2, <2>1, ToEachIsSent
  <1> QED
    BY <1>3, <1>4, <1>5, <1>6, <1>7, <1>8 DEF m

LEMMA OpenConnectNewInv ==
  ASSUME RInv, NEW n \in Nodes, rxbuffer[n] # <<>>, NEW e,
         e = Head(rxbuffer[n]), openConnectNew(n, e, e.msg)
  PROVE  RInv'
  <1> DEFINE m == e.msg
             told == IF setup.mesh
                     THEN ToEach(Peers(n) \ {m.from}, "newPeer", n, m.from)
                     ELSE <<>>
  <1>1. /\ Open(n, "connect", e)
        /\ peerAddressToSocket' =
             [peerAddressToSocket EXCEPT ![n][m.from] = e.sock]
        /\ socketList' = [socketList EXCEPT ![n] = @ \cup {e.sock}]
        /\ put(n, Append(told, AcceptedMessage(n, m)))
        /\ UNCHANGED contents
    BY DEF openConnectNew
  <1>2. /\ CallsInv' /\ CreatedInv' /\ EndsInv' /\ WireInv' /\ LastInv' /\ RxInv'
        /\ UNCHANGED <<made, created>> /\ e \in Opened(n)
        /\ m.from \in Nodes \ {n} /\ e.sock \in Between(n, m.from)
        /\ e.sock \in created /\ n \in {e.sock[1], e.sock[2]}
    BY <1>1, OpenKept
  <1>3. told \in Seq(Outgoing(n)) /\ AcceptedMessage(n, m) \in Outgoing(n)
    <2>1. /\ ToEach(Peers(n) \ {m.from}, "newPeer", n, m.from) \in Seq(Outgoing(n))
          /\ AcceptedMessage(n, m) \in Outgoing(n)
      BY <1>2, AnswerTypes
    <2>2. <<>> \in Seq(Outgoing(n))
      OBVIOUS
    <2> QED
      BY <2>1, <2>2, Zenon
  <1> HIDE DEF m, told
  <1>4. Append(told, AcceptedMessage(n, m)) \in Seq(Outgoing(n)')
    BY <1>2, <1>3, MoreLetters, WiderSeq, AppendToSet
  <1>5. TxInv'
    BY <1>1, <1>2, <1>4, PutKept DEF RInv
  <1>6. TableInv'
    BY <1>1, <1>2, TableKept DEF RInv
  <1>7. ListInv'
    BY <1>1, <1>2 DEF RInv, ListInv
  <1>8. ContentsInv'
    BY <1>1, <1>2, Untouched DEF RInv
  <1> QED
    BY <1>2, <1>5, <1>6, <1>7, <1>8 DEF RInv

LEMMA OpenDataInv ==
  ASSUME RInv, NEW n \in Nodes, rxbuffer[n] # <<>>, NEW e,
         e = Head(rxbuffer[n]),
         openData(n, e, e.msg) \/ openFlood(n, e, e.msg)
  PROVE  RInv'
  <1> DEFINE m == e.msg
  <1>1. /\ \E kind \in {"data", "flood"} : Open(n, kind, e)
        /\ databuffer' = [databuffer EXCEPT ![n] = Append(@, m.body)]
        /\ UNCHANGED <<peerAddressToSocket, socketList>>
    BY DEF openData, openFlood
  <1>2. /\ CallsInv' /\ CreatedInv' /\ EndsInv' /\ WireInv' /\ LastInv' /\ RxInv'
        /\ UNCHANGED <<made, created>> /\ e \in Opened(n)
        /\ m \in Letters /\ m.kind \in {"data", "flood"}
    <2>1. ASSUME NEW kind, Open(n, kind, e)
          PROVE  /\ CallsInv' /\ CreatedInv' /\ EndsInv' /\ WireInv' /\ LastInv'
                 /\ RxInv' /\ UNCHANGED <<made, created>>
                 /\ e \in Opened(n) /\ m \in Letters
      BY <2>1, OpenKept
    <2>2. m.kind \in {"data", "flood"}
      BY <1>1 DEF Open
    <2> QED
      BY <1>1, <2>1, <2>2
  <1>3. m.body \in ToSet(made)
    BY <1>2, LetterTypes
  <1> HIDE DEF m
  <1>4. ContentsInv
    BY DEF RInv
  <1>5. databuffer' \in [Nodes -> Seq(ToSet(made))]
    <2>1. Append(databuffer[n], m.body) \in Seq(ToSet(made))
      BY <1>3, <1>4 DEF ContentsInv
    <2> QED
      BY <1>1, <1>4, <2>1 DEF ContentsInv
  <1>6. TableInv' /\ ListInv'
    BY <1>1, <1>2, Untouched DEF RInv
  <1>7. CASE openData(n, e, e.msg)
    <2>1. UNCHANGED <<txbuffer, hasSeenMessage>>
      BY <1>7 DEF openData
    <2>2. ContentsInv'
      BY <1>2, <1>4, <1>5, <2>1 DEF ContentsInv
    <2>3. TxInv'
      BY <1>2, <2>1, Untouched DEF RInv
    <2> QED
      BY <1>2, <1>6, <2>2, <2>3 DEF RInv
  <1>8. CASE openFlood(n, e, e.msg)
    <2> DEFINE s == IF m.from \in Peers(n)
                    THEN ToEach(Peers(n) \ {m.from}, "flood", n, m.body) ELSE <<>>
    <2>1. /\ hasSeenMessage' = [hasSeenMessage EXCEPT ![n] = @ \cup {m.body}]
          /\ put(n, s) /\ Open(n, "flood", e)
      BY <1>8 DEF openFlood, m
    <2>2. ContentsInv'
      BY <1>2, <1>3, <1>4, <1>5, <2>1 DEF ContentsInv
    <2>3. s \in Seq(Outgoing(n))
      <3>1. m.kind = "flood"
        BY <2>1 DEF Open, m
      <3>2. ToEach(Peers(n) \ {m.from}, "flood", n, m.body) \in Seq(Outgoing(n))
        BY <1>2, <3>1, AnswerTypes DEF m
      <3>3. <<>> \in Seq(Outgoing(n))
        OBVIOUS
      <3> QED
        BY <3>2, <3>3, Zenon
    <2> HIDE DEF s
    <2>4. s \in Seq(Outgoing(n)')
      BY <1>2, <2>3, MoreLetters, WiderSeq
    <2>5. TxInv'
      BY <1>2, <2>1, <2>4, PutKept DEF RInv
    <2> QED
      BY <1>2, <1>6, <2>2, <2>5 DEF RInv
  <1> QED
    BY <1>7, <1>8

LEMMA MsgThreadInv ==
  ASSUME RInv, NEW n \in Nodes, msgThread(n)
  PROVE  RInv'
  <1> DEFINE e == Head(rxbuffer[n])
             m == e.msg
  <1>1. rxbuffer[n] # <<>>
    BY DEF msgThread
  <1>2. \/ openConnectNew(n, e, m) \/ openConnectKnown(n, e, m)
        \/ openAcceptedConnect(n, e, m) \/ openNewPeerUpdate(n, e, m)
        \/ openGetPeerList(n, e, m) \/ openSendPeerList(n, e, m)
        \/ openData(n, e, m) \/ openFlood(n, e, m) \/ openFloodSeen(n, e, m)
    BY DEF msgThread
  <1>3. e \in Opened(n)
    BY <1>1, FirstOfSeq DEF RInv, RxInv
  <1>4. CASE openConnectNew(n, e, m)
    BY <1>1, <1>4, OpenConnectNewInv
  <1>5. CASE openData(n, e, m) \/ openFlood(n, e, m)
    BY <1>1, <1>5, OpenDataInv
  <1>6. CASE \/ openConnectKnown(n, e, m) \/ openAcceptedConnect(n, e, m)
             \/ openNewPeerUpdate(n, e, m) \/ openGetPeerList(n, e, m)
             \/ openSendPeerList(n, e, m) \/ openFloodSeen(n, e, m)
    <2>1. PICK kind, s : /\ Open(n, kind, e) /\ Answer(n, s)
                         /\ s \in Seq(Outgoing(n))
      <3>1. CASE openConnectKnown(n, e, m)
        <4>1. AcceptedMessage(n, m) \in Outgoing(n)
          BY <1>3, AnswerTypes
        <4>2. <<AcceptedMessage(n, m)>> \in Seq(Outgoing(n))
          BY <4>1
        <4> QED
          BY <3>1, <4>2 DEF openConnectKnown
      <3>2. CASE openAcceptedConnect(n, e, m) \/ openFloodSeen(n, e, m)
        <4>1. <<>> \in Seq(Outgoing(n))
          OBVIOUS
        <4> QED
          BY <3>2, <4>1 DEF openAcceptedConnect, openFloodSeen
      <3>3. CASE openNewPeerUpdate(n, e, m)
        BY <1>3, <3>3, AnswerTypes DEF openNewPeerUpdate, Open
      <3>4. CASE openGetPeerList(n, e, m)
        <4> DEFINE x == Message("peerList", n, m.from, Peers(n) \ {m.from})
        <4>1. x \in Outgoing(n)
          BY <1>3, AnswerTypes
        <4>2. /\ Open(n, "getPeerList", e) /\ Answer(n, <<x>>)
          BY <3>4 DEF openGetPeerList
        <4> HIDE DEF x
        <4>3. <<x>> \in Seq(Outgoing(n))
          BY <4>1
        <4> QED
          BY <4>2, <4>3
      <3>5. CASE openSendPeerList(n, e, m)
        BY <1>3, <3>5, AnswerTypes DEF openSendPeerList, Open
      <3> QED
        BY <1>6, <3>1, <3>2, <3>3, <3>4, <3>5
    <2> QED
      BY <1>1, <2>1, AnswerInv
  <1> QED
    BY <1>2, <1>4, <1>5, <1>6

-----------------------------------------------------------------------------

LEMMA StartInv ==
  ASSUME RInv, NEW n \in Nodes, start(n)
  PROVE  RInv'
  <1>1. CallsInv'
    BY DEF RInv, CallsInv, start
  <1> QED
    BY <1>1, Untouched DEF RInv, start

LEMMA StructureNext ==
  ASSUME RInv, [Next]_vars
  PROVE  RInv'
  <1>1. CASE UNCHANGED vars
    BY <1>1, Untouched DEF RInv, vars
  <1>2. CASE \E c \in setup.calls : connect(c) \/ getPeerList(c) \/ send(c)
                                      \/ broadcast(c) \/ stop(c)
    BY <1>2, CallInv, StopInv
  <1>3. CASE \E n \in Nodes : start(n) \/ txThread(n) \/ rxThread(n)
                                \/ msgThread(n)
    BY <1>3, StartInv, TxThreadInv, RxThreadInv, MsgThreadInv
  <1> QED
    BY <1>1, <1>2, <1>3 DEF Next

\* The structure of the tables, buffers and connections stays, whatever is done.
LEMMA Structure ==
  Spec => []RInv
  <1> QED
    BY StructureInit, StructureNext, PTL DEF Spec

\* Types: a socket in a table is one that was made, between the two nodes of the
\* entry, and what a node has seen or received was sent, for any routers and any
\* calls (peer_router.py 303-316 and 430-443, messages.py 29-71 and 193-215).
THEOREM TypeCorrect ==
  Spec => []TypeOK
  <1>1. RInv => TypeOK
    <2> SUFFICES ASSUME RInv PROVE TypeOK
      OBVIOUS
    <2>1. setup \in Setups /\ up \subseteq Nodes /\ ToSet(made) \subseteq setup.calls
      BY InToSet DEF RInv, CallsInv
    <2>2. /\ created \subseteq Connections /\ backlog \subseteq created
          /\ reset \subseteq created /\ closed \subseteq created \X Nodes
      BY DEF RInv, CreatedInv, EndsInv
    <2>3. ASSUME NEW n \in Nodes
          PROVE  /\ \A q \in Peers(n) :
                      peerAddressToSocket[n][q] \in Between(n, q)
                 /\ socketList[n] \subseteq created
                 /\ {accepted[n], opened[n]} \subseteq created \cup {NoSocket}
                 /\ hasSeenMessage[n] \subseteq ToSet(made)
                 /\ ToSet(databuffer[n]) \subseteq ToSet(made)
      <3>1. databuffer[n] \in Seq(ToSet(made))
        BY DEF RInv, ContentsInv
      <3>2. ToSet(databuffer[n]) \subseteq ToSet(made)
        BY <3>1, InToSet
      <3> QED
        BY <3>2 DEF RInv, TableInv, ListInv, LastInv, ContentsInv
    <2> QED
      BY <2>1, <2>2, <2>3 DEF TypeOK
  <1> QED
    BY <1>1, Structure, PTL

-----------------------------------------------------------------------------
(* The list and the tables.                                                *)

LEMMA EndTypes ==
  ASSUME CreatedInv, NEW c \in created
  PROVE  /\ c[1] \in Nodes /\ c[2] \in Nodes /\ c[1] # c[2] /\ c # NoSocket
         /\ Other(c, c[1]) = c[2] /\ Other(c, c[2]) = c[1]
         /\ \A n : Other(c, n) \in Nodes
  BY RouterAssumption DEF CreatedInv, Connections, Other

LEMMA CloseFacts ==
  ASSUME NEW n, NEW cs, Close(n, cs)
  PROVE  \A k, p : IsClosed(k, p)' <=> IsClosed(k, p) \/ (p = n /\ k \in cs)
  BY DEF Close, IsClosed

\* One socket is put on the list.
LEMMA ListFacts ==
  ASSUME ListInv, NEW n \in Nodes, NEW c,
         socketList' = [socketList EXCEPT ![n] = @ \cup {c}]
  PROVE  \A p \in Nodes : \A k :
           k \in socketList'[p] <=> k \in socketList[p] \/ (p = n /\ k = c)
  BY DEF ListInv

\* A connection that is closed because nothing refers to it is referred to
\* nowhere.
LEMMA ReleasedFacts ==
  ASSUME CreatedInv, LastInv, TableInv, NEW n \in Nodes, NEW last, NEW other,
         NEW c \in Released(n, last, other) \cap created
  PROVE  /\ c = last /\ c \notin socketList[n] /\ ~Unopened(n, c)
         /\ \A q \in Nodes : peerAddressToSocket[n][q] # c
  <1>1. c # NoSocket
    BY EndTypes
  <1> QED
    BY <1>1 DEF Released, Unopened, Peers

LEMMA ReadFacts ==
  ASSUME RxInv, WireInv, NEW n \in Nodes, NEW c \in created, Read(n, c)
  PROVE  /\ \A p \in Nodes, k \in created' :
              Unopened(p, k)' <=> Unopened(p, k) \/ (p = n /\ k = c)
         /\ wire[c][n] # <<>>
         /\ \A k \in created, p \in Nodes :
              wire'[k][p] = IF k = c /\ p = n THEN Tail(wire[k][p]) ELSE wire[k][p]
  <1> DEFINE r == [msg |-> Head(wire[c][n]), sock |-> c]
  <1>1. /\ wire[c][n] # <<>> /\ wire' = [wire EXCEPT ![c][n] = Tail(@)]
        /\ rxbuffer' = [rxbuffer EXCEPT ![n] = Append(@, r)]
    BY DEF Read
  <1>2. rxbuffer[n] \in Seq(Opened(n)) /\ r \in Opened(n)
    <2>1. Head(wire[c][n]) \in Incoming(n, c)
      BY <1>1, FirstOfSeq DEF WireInv
    <2> QED
      BY <2>1 DEF RxInv, Opened, Incoming
  <1>3. r.sock = c
    OBVIOUS
  <1> HIDE DEF r
  <1>4. ToSet(Append(rxbuffer[n], r)) = ToSet(rxbuffer[n]) \cup {r}
    BY <1>2, AppendToSet
  <1>5. ASSUME NEW p \in Nodes, NEW k
        PROVE  Unopened(p, k)' <=> Unopened(p, k) \/ (p = n /\ k = c)
    <2>1. CASE p = n
      <3>1. ToSet(rxbuffer'[p]) = ToSet(rxbuffer[p]) \cup {r}
        BY <1>1, <1>4, <2>1 DEF RxInv
      <3> QED
        BY <1>3, <2>1, <3>1 DEF Unopened
    <2>2. CASE p # n
      <3>1. rxbuffer'[p] = rxbuffer[p]
        BY <1>1, <2>2 DEF RxInv
      <3> QED
        BY <2>2, <3>1 DEF Unopened
    <2> QED
      BY <2>1, <2>2
  <1>6. \A k \in created, p \in Nodes :
          wire'[k][p] = IF k = c /\ p = n THEN Tail(wire[k][p]) ELSE wire[k][p]
    BY <1>1 DEF WireInv
  <1> QED
    BY <1>1, <1>5, <1>6

LEMMA OpenFacts ==
  ASSUME RInv, NEW n \in Nodes, rxbuffer[n] # <<>>, NEW kind, NEW e,
         e = Head(rxbuffer[n]), Open(n, kind, e)
  PROVE  /\ e \in ToSet(rxbuffer[n]) /\ Unopened(n, e.sock)
         /\ \A p \in Nodes : \A k : Unopened(p, k)' => Unopened(p, k)
         /\ \A p \in Nodes : opened'[p] = IF p = n THEN e.sock ELSE opened[p]
         /\ \A k, p : IsClosed(k, p)' <=>
              \/ IsClosed(k, p)
              \/ p = n /\ k \in Released(n, opened[n], accepted[n])
         /\ UNCHANGED <<setup, made, up, created, backlog, wire, accepted>>
  <1>1. /\ rxbuffer' = [rxbuffer EXCEPT ![n] = Tail(@)]
        /\ opened' = [opened EXCEPT ![n] = e.sock]
        /\ Close(n, Released(n, opened[n], accepted[n]))
        /\ UNCHANGED <<history, up, created, backlog, wire, accepted>>
    BY DEF Open
  <1>2. rxbuffer[n] \in Seq(Opened(n)) /\ DOMAIN rxbuffer = Nodes
    BY DEF RInv, RxInv
  <1>3. ToSet(rxbuffer[n]) = {e} \cup ToSet(Tail(rxbuffer[n]))
    BY <1>2, FirstOfSeq
  <1>4. e \in ToSet(rxbuffer[n]) /\ Unopened(n, e.sock)
    BY <1>3 DEF Unopened
  <1>5. ASSUME NEW p \in Nodes, NEW k, Unopened(p, k)'
        PROVE  Unopened(p, k)
    <2>1. CASE p = n
      <3>1. ToSet(rxbuffer'[p]) \subseteq ToSet(rxbuffer[p])
        BY <1>1, <1>2, <1>3, <2>1
      <3> QED
        BY <1>5, <3>1 DEF Unopened
    <2>2. CASE p # n
      <3>1. rxbuffer'[p] = rxbuffer[p]
        BY <1>1, <1>2, <2>2
      <3> QED
        BY <1>5, <3>1 DEF Unopened
    <2> QED
      BY <2>1, <2>2
  <1>6. \A p \in Nodes : opened'[p] = IF p = n THEN e.sock ELSE opened[p]
    BY <1>1 DEF RInv, LastInv
  <1>7. \A k, p : IsClosed(k, p)' <=>
          \/ IsClosed(k, p)
          \/ p = n /\ k \in Released(n, opened[n], accepted[n])
    BY <1>1, CloseFacts
  <1> QED
    BY <1>1, <1>4, <1>5, <1>6, <1>7

\* What the opening of a message closes is another connection than its own.
LEMMA OpenReleases ==
  ASSUME RInv, NEW n \in Nodes, rxbuffer[n] # <<>>,
         NEW k \in Released(n, opened[n], accepted[n])
  PROVE  /\ k \in created /\ k = opened[n] /\ k \notin socketList[n]
         /\ ~Unopened(n, k) /\ k # Head(rxbuffer[n]).sock
         /\ \A q \in Nodes : peerAddressToSocket[n][q] # k
  <1>1. k \in created
    BY ReleasedTypes DEF RInv
  <1>2. /\ k = opened[n] /\ k \notin socketList[n] /\ ~Unopened(n, k)
        /\ \A q \in Nodes : peerAddressToSocket[n][q] # k
    BY <1>1, ReleasedFacts DEF RInv
  <1>3. Head(rxbuffer[n]) \in ToSet(rxbuffer[n])
    BY FirstOfSeq DEF RInv, RxInv
  <1> QED
    BY <1>1, <1>2, <1>3 DEF Unopened

\* If connections are closed, and none is entered or left.
LEMMA TablesSame ==
  ASSUME TablesMatch, UNCHANGED <<created, socketList, peerAddressToSocket>>,
         \A c \in created, n \in Nodes : IsClosed(c, n) => IsClosed(c, n)'
  PROVE  TablesMatch'
  BY DEF TablesMatch

LEMMA MatchInit ==
  Init => MInv
  BY DEF Init, MInv, TablesMatch, BacklogInv, CalmInv

LEMMA MatchSame ==
  ASSUME MInv, NobodyStops' => NobodyStops,
         UNCHANGED <<created, closed, backlog, wire, sockets, rxbuffer>>
  PROVE  MInv'
  <1>1. TablesMatch'
    BY DEF MInv, TablesMatch, IsClosed
  <1>2. BacklogInv'
    BY DEF MInv, BacklogInv, Unopened
  <1>3. CalmInv'
    BY DEF MInv, CalmInv, Calm, IsClosed, Unopened
  <1> QED
    BY <1>1, <1>2, <1>3 DEF MInv

\* As long as the calls made are the same, nobody stops that did not.
LEMMA CalmStays ==
  ASSUME UNCHANGED made
  PROVE  NobodyStops' => NobodyStops
  BY DEF NobodyStops, Stops

LEMMA MatchCall ==
  ASSUME RInv, MInv, NEW c \in setup.calls,
         connect(c) \/ getPeerList(c) \/ send(c) \/ broadcast(c)
  PROVE  MInv' /\ (NobodyStops' => NobodyStops)
  <1>1. PICK op, whom : Make(c, op, whom)
    BY DEF connect, getPeerList, send, broadcast
  <1>2. UNCHANGED <<up, created, closed, backlog, wire, sockets, rxbuffer>>
    BY DEF connect, getPeerList, send, broadcast, Queue
  <1>3. ToSet(made)' = ToSet(made) \cup {c}
    BY <1>1, <1>2, MakeKept DEF RInv, CallsInv
  <1>4. NobodyStops' => NobodyStops
    BY <1>3 DEF NobodyStops, Stops
  <1> QED
    BY <1>2, <1>4, MatchSame

LEMMA MatchStop ==
  ASSUME RInv, MInv, NEW c \in setup.calls, stop(c)
  PROVE  MInv' /\ ~NobodyStops'
  <1> DEFINE n == c.by
             mine == {s \in created : n \in {s[1], s[2]} /\ ~IsClosed(s, n)}
  <1>1. /\ Make(c, "stop", {}) /\ up' = up \ {n} /\ Close(n, mine)
        /\ backlog' = {s \in backlog : s[2] # n}
        /\ peerAddressToSocket' =
             [peerAddressToSocket EXCEPT ![n] = [q \in Nodes |-> NoSocket]]
        /\ socketList' = [socketList EXCEPT ![n] = {}]
        /\ accepted' = [accepted EXCEPT ![n] = NoSocket]
        /\ opened' = [opened EXCEPT ![n] = NoSocket]
        /\ rxbuffer' = [rxbuffer EXCEPT ![n] = <<>>]
        /\ UNCHANGED created
    BY DEF stop
  <1>2. ToSet(made)' = ToSet(made) \cup {c} /\ n \in Nodes /\ c.op = "stop"
    BY <1>1, MakeKept DEF RInv, CallsInv
  <1>3. ~NobodyStops'
    BY <1>2 DEF NobodyStops, Stops
  <1>4. \A k, p : IsClosed(k, p)' <=> IsClosed(k, p) \/ (p = n /\ k \in mine)
    BY <1>1, CloseFacts
  <1>5. /\ \A p, q \in Nodes :
             peerAddressToSocket'[p][q] = IF p = n THEN NoSocket
                                          ELSE peerAddressToSocket[p][q]
        /\ \A p \in Nodes :
             /\ socketList'[p] = IF p = n THEN {} ELSE socketList[p]
             /\ accepted'[p] = IF p = n THEN NoSocket ELSE accepted[p]
             /\ opened'[p] = IF p = n THEN NoSocket ELSE opened[p]
             /\ rxbuffer'[p] = IF p = n THEN <<>> ELSE rxbuffer[p]
    BY <1>1, <1>2 DEF RInv, TableInv, ListInv, LastInv, RxInv
  <1>6. TablesMatch'
    <2>1. ASSUME NEW p \in Nodes, NEW k \in created, ~IsClosed(k, p)'
          PROVE  k \in socketList'[p] <=> peerAddressToSocket'[p][Other(k, p)] = k
      <3>1. k # NoSocket /\ Other(k, p) \in Nodes
        BY EndTypes DEF RInv
      <3>2. CASE p = n
        BY <1>5, <3>1, <3>2
      <3>3. CASE p # n
        BY <1>4, <1>5, <2>1, <3>1, <3>3 DEF MInv, TablesMatch
      <3> QED
        BY <3>2, <3>3
    <2> QED
      BY <1>1, <2>1 DEF TablesMatch, Other
  <1>7. BacklogInv'
    <2>1. ASSUME NEW k \in backlog'
          PROVE  /\ k \notin socketList'[k[2]] /\ ~Unopened(k[2], k)'
                 /\ k \notin {accepted'[k[2]], opened'[k[2]]}
                 /\ peerAddressToSocket'[k[2]][k[1]] # k
      <3>1. k \in backlog /\ k[2] # n
        BY <1>1
      <3>2. k \in created /\ k[1] \in Nodes /\ k[2] \in Nodes
        BY <3>1, EndTypes DEF RInv, EndsInv
      <3>3. ~Unopened(k[2], k)'
        BY <1>5, <3>1, <3>2 DEF MInv, BacklogInv, Unopened
      <3> QED
        BY <1>5, <3>1, <3>2, <3>3 DEF MInv, BacklogInv
    <2> QED
      BY <2>1 DEF BacklogInv
  <1> QED
    BY <1>3, <1>6, <1>7 DEF MInv, CalmInv

LEMMA MatchSend ==
  ASSUME RInv, MInv, NEW n \in Nodes, NEW m, sendOnSocket(n, m)
  PROVE  MInv'
  <1>0. PICK c : c = peerAddressToSocket[n][m.to]
    OBVIOUS
  <1>1. /\ Transmit(n, m) /\ m.to \in Peers(n) /\ ~IsClosed(c, n)
        /\ wire' = [wire EXCEPT ![c][m.to] = Append(@, m)]
        /\ UNCHANGED <<peerAddressToSocket, socketList, created, closed, reset,
                       backlog, accepted, opened, rxbuffer, made>>
    BY <1>0 DEF sendOnSocket, Transmit
  <1>2. c \in created /\ {c[1], c[2]} = {n, m.to}
    BY <1>0, <1>1 DEF RInv, TableInv, Between
  <1>3. c[1] # c[2]
    BY <1>2, EndTypes DEF RInv
  <1>4. Other(c, n) = m.to /\ c \in socketList[n]
    <2>1. Other(c, n) = m.to
      BY <1>2, <1>3 DEF Other
    <2> QED
      BY <1>0, <1>1, <1>2, <2>1 DEF MInv, TablesMatch
  <1>5. \A k \in created, p \in Nodes :
          wire'[k][p] = IF k = c /\ p = m.to THEN Append(wire[k][p], m)
                        ELSE wire[k][p]
    BY <1>1, <1>2 DEF RInv, WireInv
  <1>6. TablesMatch' /\ BacklogInv'
    BY <1>1 DEF MInv, TablesMatch, IsClosed, BacklogInv, Unopened
  <1>7. CalmInv'
    <2>1. ASSUME NobodyStops', NEW k \in created
          PROVE  Calm(k)'
      <3>1. Calm(k)
        BY <1>1, <2>1, CalmStays DEF MInv, CalmInv
      <3>2. k[1] \in Nodes
        BY EndTypes DEF RInv
      <3>3. k \notin socketList[k[2]] => wire'[k][k[1]] = wire[k][k[1]]
        <4>1. k = c /\ k[1] = m.to => k[2] = n
          BY <1>2, <1>3
        <4> QED
          BY <1>4, <1>5, <3>2, <4>1
      <3> QED
        BY <1>1, <3>1, <3>3 DEF Calm, IsClosed, Unopened
    <2> QED
      BY <1>1, <2>1 DEF CalmInv
  <1> QED
    BY <1>6, <1>7 DEF MInv

LEMMA MatchCreate ==
  ASSUME RInv, MInv, NEW n \in Nodes, NEW m, createSocket(n, m)
  PROVE  MInv'
  <1>0. PICK sock : sock = NextSocket(n, m.to)
    OBVIOUS
  <1>1. /\ Transmit(n, m) /\ m.to \notin Peers(n)
        /\ created' = created \cup {sock} /\ backlog' = backlog \cup {sock}
        /\ wire' = [c \in created' |->
                      IF c = sock THEN [q \in Nodes |-> IF q = m.to THEN <<m>>
                                                        ELSE <<>>]
                      ELSE wire[c]]
        /\ UNCHANGED <<closed, accepted, opened, rxbuffer, made>>
        /\ peerAddressToSocket' = [peerAddressToSocket EXCEPT ![n][m.to] = sock]
        /\ socketList' = [socketList EXCEPT ![n] = @ \cup {sock}]
    BY <1>0 DEF createSocket, Connected, Transmit
  <1>2. m.to \in Nodes \ {n}
    BY <1>1, TransmitKept
  <1>3. sock \notin created /\ sock[1] = n /\ sock[2] = m.to /\ sock # NoSocket
    BY <1>0, <1>2, NextIsNew, RouterAssumption DEF RInv
  <1>4. /\ peerAddressToSocket'[n][m.to] = sock
        /\ \A p, r \in Nodes :
             p # n \/ r # m.to =>
               peerAddressToSocket'[p][r] = peerAddressToSocket[p][r]
    <2>1. TableInv
      BY DEF RInv
    <2> QED
      BY <1>1, <1>2, <2>1 DEF TableInv
  <1>5. \A p \in Nodes : \A k :
          k \in socketList'[p] <=> k \in socketList[p] \/ (p = n /\ k = sock)
    BY <1>1, ListFacts DEF RInv
  <1>6. peerAddressToSocket[n][m.to] = NoSocket
    BY <1>1, <1>2 DEF Peers
  \* The new connection is nowhere yet.
  <1>7. /\ \A p : ~IsClosed(sock, p)
        /\ \A p \in Nodes : /\ sock \notin socketList[p] /\ ~Unopened(p, sock)
                            /\ sock \notin {accepted[p], opened[p]}
                            /\ \A q \in Nodes : peerAddressToSocket[p][q] # sock
    <2>1. \A p : ~IsClosed(sock, p)
      BY <1>3 DEF RInv, EndsInv, IsClosed
    <2>2. ASSUME NEW p \in Nodes
          PROVE  /\ sock \notin socketList[p] /\ ~Unopened(p, sock)
                 /\ sock \notin {accepted[p], opened[p]}
                 /\ \A q \in Nodes : peerAddressToSocket[p][q] # sock
      <3>1. sock \notin socketList[p]
        BY <1>3 DEF RInv, ListInv
      <3>2. sock \notin {accepted[p], opened[p]}
        BY <1>3 DEF RInv, LastInv
      <3>3. ~Unopened(p, sock)
        <4>1. \A r \in ToSet(rxbuffer[p]) : r \in Opened(p)
          BY InToSet DEF RInv, RxInv
        <4> QED
          BY <1>3, <4>1 DEF Unopened, Opened
      <3>4. \A q \in Nodes : peerAddressToSocket[p][q] # sock
        BY <1>3 DEF RInv, TableInv, Peers, Between
      <3> QED
        BY <3>1, <3>2, <3>3, <3>4
    <2> QED
      BY <2>1, <2>2
  <1>8. /\ \A k, p : IsClosed(k, p)' = IsClosed(k, p)
        /\ \A k, p : Unopened(p, k)' = Unopened(p, k)
    BY <1>1 DEF IsClosed, Unopened
  <1>9. TablesMatch'
    <2>1. ASSUME NEW p \in Nodes, NEW k \in created', ~IsClosed(k, p)
          PROVE  k \in socketList'[p] <=> peerAddressToSocket'[p][Other(k, p)] = k
      <3>1. CASE k = sock
        <4>1. CASE p = n
          <5>1. Other(k, p) = m.to
            BY <1>3, <3>1, <4>1 DEF Other
          <5> QED
            BY <1>2, <1>4, <1>5, <3>1, <4>1, <5>1
        <4>2. CASE p # n
          <5>1. Other(k, p) \in Nodes
            BY <1>2, <1>3, <3>1 DEF Other
          <5>2. peerAddressToSocket'[p][Other(k, p)] # sock
            BY <1>4, <1>7, <4>2, <5>1
          <5> QED
            BY <1>5, <1>7, <3>1, <4>2, <5>2
        <4> QED
          BY <4>1, <4>2
      <3>2. CASE k # sock
        <4>1. k \in created
          BY <1>1, <3>2
        <4>2. k # NoSocket /\ Other(k, p) \in Nodes
          BY <4>1, EndTypes DEF RInv
        <4>3. k \in socketList[p] <=> peerAddressToSocket[p][Other(k, p)] = k
          BY <2>1, <4>1 DEF MInv, TablesMatch
        <4>4. peerAddressToSocket'[p][Other(k, p)] = k <=>
                peerAddressToSocket[p][Other(k, p)] = k
          <5>1. CASE p = n /\ Other(k, p) = m.to
            BY <1>4, <1>6, <3>2, <4>2, <5>1
          <5>2. CASE p # n \/ Other(k, p) # m.to
            BY <1>4, <4>2, <5>2
          <5> QED
            BY <5>1, <5>2
        <4> QED
          BY <1>5, <3>2, <4>3, <4>4
      <3> QED
        BY <3>1, <3>2
    <2> QED
      BY <1>8, <2>1 DEF TablesMatch, Other
  <1>10. BacklogInv'
    <2>1. ASSUME NEW k \in backlog'
          PROVE  /\ k \notin socketList'[k[2]] /\ ~Unopened(k[2], k)
                 /\ k \notin {accepted[k[2]], opened[k[2]]}
                 /\ peerAddressToSocket'[k[2]][k[1]] # k
      <3>1. CASE k = sock
        <4>1. peerAddressToSocket'[m.to][n] # sock
          BY <1>2, <1>4, <1>7
        <4> QED
          BY <1>2, <1>3, <1>5, <1>7, <3>1, <4>1
      <3>2. CASE k # sock
        <4>1. k \in backlog
          BY <1>1, <3>2
        <4>2. k[1] \in Nodes /\ k[2] \in Nodes
          BY <4>1, EndTypes DEF RInv, EndsInv
        <4>3. /\ k \notin socketList[k[2]] /\ ~Unopened(k[2], k)
              /\ k \notin {accepted[k[2]], opened[k[2]]}
              /\ peerAddressToSocket[k[2]][k[1]] # k
          BY <4>1 DEF MInv, BacklogInv
        <4>4. peerAddressToSocket'[k[2]][k[1]] # k
          BY <1>4, <3>2, <4>2, <4>3
        <4> QED
          BY <1>5, <3>2, <4>2, <4>3, <4>4
      <3> QED
        BY <3>1, <3>2
    <2> QED
      BY <1>1, <1>8, <2>1 DEF BacklogInv
  <1>11. CalmInv'
    <2>1. ASSUME NobodyStops', NEW k \in created'
          PROVE  Calm(k)'
      <3>1. CASE k = sock
        <4>1. sock \in socketList'[n]
          BY <1>5
        <4>2. wire'[sock] = [q \in Nodes |-> IF q = m.to THEN <<m>> ELSE <<>>]
          BY <1>1
        <4>3. wire'[sock][n] = <<>>
          BY <1>2, <4>2
        <4> QED
          BY <1>3, <1>7, <1>8, <3>1, <4>1, <4>3 DEF Calm
      <3>2. CASE k # sock
        <4>1. k \in created
          BY <1>1, <3>2
        <4>2. Calm(k) /\ k[1] \in Nodes /\ k[2] \in Nodes
          BY <1>1, <2>1, <4>1, CalmStays, EndTypes DEF MInv, CalmInv, RInv
        <4>3. wire'[k] = wire[k]
          BY <1>1, <2>1, <3>2
        <4>4. /\ \A p \in Nodes : k \in socketList'[p] <=> k \in socketList[p]
              /\ peerAddressToSocket'[k[2]][k[1]] = k =>
                   peerAddressToSocket[k[2]][k[1]] = k
              /\ k \in backlog' <=> k \in backlog
          BY <1>1, <1>4, <1>5, <3>2, <4>2
        <4> QED
          BY <1>8, <4>2, <4>3, <4>4 DEF Calm
      <3> QED
        BY <3>1, <3>2
    <2> QED
      BY <2>1 DEF CalmInv
  <1> QED
    BY <1>9, <1>10, <1>11 DEF MInv

LEMMA MatchTxThread ==
  ASSUME RInv, MInv, NEW n \in Nodes, txThread(n)
  PROVE  MInv'
  <1> DEFINE m == Head(txbuffer[n])
  <1>1. CASE sendIntoTheVoid(n, m) \/ refuse(n, m)
    <2>1. /\ UNCHANGED <<created, closed, backlog, wire, sockets, rxbuffer>>
          /\ UNCHANGED made
      BY <1>1 DEF sendIntoTheVoid, refuse, Transmit
    <2> QED
      BY <2>1, CalmStays, MatchSame
  <1>2. CASE sendOnSocket(n, m)
    BY <1>2, MatchSend
  <1>3. CASE createSocket(n, m)
    BY <1>3, MatchCreate
  <1> QED
    BY <1>1, <1>2, <1>3 DEF txThread

\* The RX thread takes something off a connection that it has on its list.
LEMMA MatchRead ==
  ASSUME RInv, MInv, NEW n \in Nodes, NEW c \in created,
         handleExistingConnection(n, c) \/ readInVain(n, c)
  PROVE  MInv'
  <1>1. /\ c \in socketList[n] /\ wire[c][n] # <<>>
        /\ UNCHANGED <<made, up, created, closed, backlog, sockets>>
    BY DEF handleExistingConnection, readInVain, Read
  <1>2. /\ \A k \in created, p \in Nodes :
             wire[k][p] = <<>> => wire'[k][p] = <<>>
        /\ \A k \in created, p \in Nodes :
             Unopened(p, k)' => Unopened(p, k) \/ (p = n /\ k = c)
    <2>1. CASE handleExistingConnection(n, c)
      <3>1. Read(n, c)
        BY <2>1 DEF handleExistingConnection
      <3> QED
        BY <1>1, <3>1, ReadFacts DEF RInv
    <2>2. CASE readInVain(n, c)
      <3>1. wire' = [wire EXCEPT ![c][n] = Tail(@)] /\ UNCHANGED rxbuffer
        BY <2>2 DEF readInVain
      <3> QED
        BY <1>1, <3>1 DEF RInv, WireInv, Unopened
    <2> QED
      BY <2>1, <2>2
  <1>3. TablesMatch'
    BY <1>1 DEF MInv, TablesMatch, IsClosed
  <1>4. BacklogInv'
    <2>1. ASSUME NEW k \in backlog
          PROVE  ~Unopened(k[2], k)'
      <3>1. k \in created /\ k[2] \in Nodes
        BY EndTypes DEF RInv, EndsInv
      <3> QED
        BY <1>1, <1>2, <3>1 DEF MInv, BacklogInv
    <2> QED
      BY <1>1, <2>1 DEF MInv, BacklogInv
  <1>5. CalmInv'
    <2>1. ASSUME NobodyStops', NEW k \in created
          PROVE  Calm(k)'
      <3>1. Calm(k) /\ k[1] \in Nodes /\ k[2] \in Nodes /\ k[1] # k[2]
        BY <1>1, <2>1, CalmStays, EndTypes DEF MInv, CalmInv, RInv
      <3>2. \A p : IsClosed(k, p)' = IsClosed(k, p)
        BY <1>1 DEF IsClosed
      <3>3. IsClosed(k, k[2]) => ~Unopened(k[2], k)'
        BY <1>1, <1>2, <3>1 DEF Calm
      <3>4. k \notin socketList[k[2]] =>
              wire'[k][k[1]] = <<>> /\ ~Unopened(k[1], k)'
        BY <1>1, <1>2, <3>1 DEF Calm
      <3> QED
        BY <1>1, <3>1, <3>2, <3>3, <3>4 DEF Calm
    <2> QED
      BY <1>1, <2>1 DEF CalmInv
  <1> QED
    BY <1>3, <1>4, <1>5 DEF MInv

LEMMA MatchAccept ==
  ASSUME RInv, MInv, NEW n \in Nodes, NEW c \in created, handleNewConnection(n, c)
  PROVE  MInv'
  <1> DEFINE cs == Released(n, accepted[n], opened[n])
  <1>1. /\ c \in backlog /\ c[2] = n /\ backlog' = backlog \ {c}
        /\ accepted' = [accepted EXCEPT ![n] = c]
        /\ Close(n, cs) /\ Read(n, c)
        /\ UNCHANGED <<made, up, created, peerAddressToSocket, socketList, opened>>
    BY DEF handleNewConnection
  <1>2. /\ \A k \in created, p \in Nodes :
             Unopened(p, k)' <=> Unopened(p, k) \/ (p = n /\ k = c)
        /\ \A k \in created, p \in Nodes :
             wire'[k][p] = IF k = c /\ p = n THEN Tail(wire[k][p]) ELSE wire[k][p]
    BY <1>1, ReadFacts DEF RInv
  <1>3. \A k, p : IsClosed(k, p)' <=> IsClosed(k, p) \/ (p = n /\ k \in cs)
    BY <1>1, CloseFacts
  <1>4. ASSUME NEW k \in cs
        PROVE  /\ k \in created /\ k = accepted[n] /\ k \notin socketList[n]
               /\ ~Unopened(n, k)
               /\ \A q \in Nodes : peerAddressToSocket[n][q] # k
    <2>1. k \in created
      BY ReleasedTypes DEF RInv
    <2> QED
      BY <2>1, ReleasedFacts DEF RInv
  <1> HIDE DEF cs
  <1>5. \A p \in Nodes : accepted'[p] = IF p = n THEN c ELSE accepted[p]
    BY <1>1 DEF RInv, LastInv
  <1>6. TablesMatch'
    BY <1>1, <1>3, TablesSame DEF MInv
  <1>7. BacklogInv'
    <2>1. ASSUME NEW k \in backlog, k # c
          PROVE  /\ k \notin socketList[k[2]] /\ ~Unopened(k[2], k)'
                 /\ k \notin {accepted'[k[2]], opened[k[2]]}
                 /\ peerAddressToSocket[k[2]][k[1]] # k
      <3>1. k \in created /\ k[2] \in Nodes
        BY EndTypes DEF RInv, EndsInv
      <3> QED
        BY <1>2, <1>5, <2>1, <3>1 DEF MInv, BacklogInv
    <2> QED
      BY <1>1, <2>1 DEF BacklogInv
  <1>8. CalmInv'
    <2>1. ASSUME NobodyStops', NEW k \in created
          PROVE  Calm(k)'
      <3>1. Calm(k) /\ k[1] \in Nodes /\ k[2] \in Nodes /\ k[1] # k[2]
        BY <1>1, <2>1, CalmStays, EndTypes DEF MInv, CalmInv, RInv
      <3>2. IsClosed(k, k[1])' <=> IsClosed(k, k[1])
        BY <1>3, <1>4, <3>1 DEF Calm
      <3>3. IsClosed(k, k[1]) => IsClosed(k, k[2])'
        BY <1>3, <3>1 DEF Calm
      <3>4. IsClosed(k, k[2])' =>
              /\ k \notin socketList[k[2]] \cup backlog /\ ~Unopened(k[2], k)
              /\ peerAddressToSocket[k[2]][k[1]] # k
        <4>1. CASE IsClosed(k, k[2])
          BY <3>1, <4>1 DEF Calm
        <4>2. CASE k[2] = n /\ k \in cs
          BY <1>4, <3>1, <4>2 DEF MInv, BacklogInv
        <4> QED
          BY <1>3, <4>1, <4>2
      <3>5. IsClosed(k, k[2])' => ~Unopened(k[2], k)'
        BY <1>1, <1>2, <3>1, <3>4
      <3>6. k \notin socketList[k[2]] =>
              wire'[k][k[1]] = <<>> /\ ~Unopened(k[1], k)'
        BY <1>1, <1>2, <3>1 DEF Calm
      <3> QED
        BY <1>1, <3>1, <3>2, <3>3, <3>4, <3>5, <3>6 DEF Calm
    <2> QED
      BY <1>1, <2>1 DEF CalmInv
  <1> QED
    BY <1>6, <1>7, <1>8 DEF MInv

LEMMA MatchRemoval ==
  ASSUME RInv, MInv, NEW n \in Nodes, NEW c \in created,
         removeSocket(n, c) \/ removeResetSocket(n, c)
  PROVE  MInv'
  <1> DEFINE q == Other(c, n)
  <1>1. /\ Selects(n) /\ c \in socketList[n] /\ wire[c][n] = <<>>
        /\ IsClosed(c, q)
        /\ socketList' = [socketList EXCEPT ![n] = @ \ {c}] /\ Close(n, {c})
        /\ UNCHANGED <<made, up, created, backlog, wire, accepted, opened,
                       rxbuffer>>
        /\ \/ UNCHANGED peerAddressToSocket
           \/ peerAddressToSocket' = [peerAddressToSocket EXCEPT ![n][q] = NoSocket]
    BY DEF removeSocket, removeResetSocket, EndOfStream
  <1>2. /\ ~IsClosed(c, n) /\ n \in {c[1], c[2]} /\ q \in Nodes
        /\ peerAddressToSocket[n][q] = c
    BY <1>1, EndTypes DEF Selects, RInv, ListInv, MInv, TablesMatch
  <1>3. \A k, p : IsClosed(k, p)' <=> IsClosed(k, p) \/ (p = n /\ k = c)
    BY <1>1, CloseFacts
  <1>4. \A p \in Nodes :
          socketList'[p] = IF p = n THEN socketList[p] \ {c} ELSE socketList[p]
    BY <1>1 DEF RInv, ListInv
  <1>5. \A p, r \in Nodes :
          \/ peerAddressToSocket'[p][r] = peerAddressToSocket[p][r]
          \/ p = n /\ r = q /\ peerAddressToSocket'[p][r] = NoSocket
    BY <1>1, <1>2 DEF RInv, TableInv
  <1>6. \A k, p : Unopened(p, k)' = Unopened(p, k)
    BY <1>1 DEF Unopened
  <1> HIDE DEF q
  <1>7. TablesMatch'
    <2>1. ASSUME NEW p \in Nodes, NEW k \in created, ~IsClosed(k, p)'
          PROVE  k \in socketList'[p] <=> peerAddressToSocket'[p][Other(k, p)] = k
      <3>1. k # NoSocket /\ Other(k, p) \in Nodes
        BY EndTypes DEF RInv
      <3>2. ~IsClosed(k, p) /\ ~(p = n /\ k = c)
        BY <1>3, <2>1
      <3>3. k \in socketList[p] <=> peerAddressToSocket[p][Other(k, p)] = k
        BY <3>2 DEF MInv, TablesMatch
      <3> QED
        BY <1>2, <1>4, <1>5, <3>1, <3>2, <3>3
    <2> QED
      BY <1>1, <2>1 DEF TablesMatch, Other
  <1>8. BacklogInv'
    <2>1. ASSUME NEW k \in backlog
          PROVE  /\ k \notin socketList'[k[2]]
                 /\ peerAddressToSocket'[k[2]][k[1]] # k
      <3>1. k \in created /\ k[1] \in Nodes /\ k[2] \in Nodes /\ k # NoSocket
        BY EndTypes DEF RInv, EndsInv
      <3>2. /\ k \notin socketList[k[2]]
            /\ peerAddressToSocket[k[2]][k[1]] # k
        BY DEF MInv, BacklogInv
      <3>3. peerAddressToSocket'[k[2]][k[1]] # k
        BY <1>5, <3>1, <3>2
      <3> QED
        BY <1>4, <3>1, <3>2, <3>3
    <2> QED
      BY <1>1, <1>6, <2>1 DEF MInv, BacklogInv
  <1>9. CalmInv'
    <2>1. ASSUME NobodyStops', NEW k \in created
          PROVE  Calm(k)'
      <3>1. /\ Calm(k) /\ k[1] \in Nodes /\ k[2] \in Nodes /\ k[1] # k[2]
            /\ Calm(c) /\ k # NoSocket
        BY <1>1, <2>1, CalmStays, EndTypes DEF MInv, CalmInv, RInv
      \* It is the one who created the connection that removes it now.
      <3>2. n = c[1] /\ q = c[2]
        BY <1>1, <1>2, <3>1 DEF Calm, Other, q
      <3>3. k \in socketList'[k[1]] <=> ~IsClosed(k, k[1])'
        BY <1>3, <1>4, <3>1 DEF Calm
      <3>4. IsClosed(k, k[1])' => IsClosed(k, k[2])'
        BY <1>1, <1>3, <3>1, <3>2 DEF Calm
      <3>5. IsClosed(k, k[2])' <=> IsClosed(k, k[2])
        BY <1>3, <3>1, <3>2
      <3>6. k \in socketList'[k[2]] <=> k \in socketList[k[2]]
        BY <1>4, <3>1, <3>2
      <3>7. peerAddressToSocket'[k[2]][k[1]] = k =>
              peerAddressToSocket[k[2]][k[1]] = k
        BY <1>5, <3>1
      <3> QED
        BY <1>1, <1>6, <3>1, <3>3, <3>4, <3>5, <3>6, <3>7 DEF Calm
    <2> QED
      BY <1>1, <2>1 DEF CalmInv
  <1> QED
    BY <1>7, <1>8, <1>9 DEF MInv

LEMMA MatchRxThread ==
  ASSUME RInv, MInv, NEW n \in Nodes, rxThread(n)
  PROVE  MInv'
  BY MatchRead, MatchAccept, MatchRemoval DEF rxThread

LEMMA MatchConnect ==
  ASSUME RInv, MInv, NEW n \in Nodes, rxbuffer[n] # <<>>, NEW e,
         e = Head(rxbuffer[n]), openConnectNew(n, e, e.msg)
  PROVE  MInv'
  <1> DEFINE q == e.msg.from
             cs == Released(n, opened[n], accepted[n])
  <1>1. /\ Open(n, "connect", e) /\ Unconnected(n, q)
        /\ peerAddressToSocket' = [peerAddressToSocket EXCEPT ![n][q] = e.sock]
        /\ socketList' = [socketList EXCEPT ![n] = @ \cup {e.sock}]
    BY DEF openConnectNew
  <1>2. /\ q \in Nodes \ {n} /\ e.sock \in created /\ UNCHANGED made
        /\ e.sock \in Between(n, q)
    BY <1>1, OpenKept
  <1>3. /\ Unopened(n, e.sock)
        /\ \A p \in Nodes : \A k : Unopened(p, k)' => Unopened(p, k)
        /\ \A p \in Nodes : opened'[p] = IF p = n THEN e.sock ELSE opened[p]
        /\ \A k, p : IsClosed(k, p)' <=> IsClosed(k, p) \/ (p = n /\ k \in cs)
        /\ UNCHANGED <<created, backlog, wire, accepted>>
    BY <1>1, OpenFacts, SMTT(20)
  <1>10. \A k \in cs : /\ k \in created /\ k = opened[n] /\ k \notin socketList[n]
                      /\ ~Unopened(n, k) /\ k # e.sock
                      /\ \A r \in Nodes : peerAddressToSocket[n][r] # k
    BY OpenReleases
  <1>4. /\ \A p \in Nodes : \A k :
             k \in socketList'[p] <=> k \in socketList[p] \/ (p = n /\ k = e.sock)
        /\ peerAddressToSocket'[n][q] = e.sock
        /\ \A p, r \in Nodes :
             p # n \/ r # q =>
               peerAddressToSocket'[p][r] = peerAddressToSocket[p][r]
    <2>1. TableInv /\ ListInv
      BY DEF RInv
    <2>2. \A p \in Nodes : \A k :
            k \in socketList'[p] <=> k \in socketList[p] \/ (p = n /\ k = e.sock)
      BY <1>1, <2>1, ListFacts
    <2> QED
      BY <1>1, <1>2, <2>1, <2>2 DEF TableInv
  <1>5. PICK s : s = e.sock
    OBVIOUS
  <1>6. Other(s, n) = q /\ s # NoSocket
    BY <1>2, <1>5, EndTypes DEF RInv, Other, Between
  <1> HIDE DEF cs, q
  <1>7. TablesMatch'
    <2>1. ASSUME NEW p \in Nodes, NEW k \in created, ~IsClosed(k, p)
          PROVE  k \in socketList'[p] <=> peerAddressToSocket'[p][Other(k, p)] = k
      <3>1. k # NoSocket /\ Other(k, p) \in Nodes
        BY EndTypes DEF RInv
      <3>2. k \in socketList[p] <=> peerAddressToSocket[p][Other(k, p)] = k
        BY <2>1 DEF MInv, TablesMatch
      <3>3. CASE p # n
        BY <1>4, <3>1, <3>2, <3>3
      <3>4. CASE p = n /\ k = s
        BY <1>2, <1>4, <1>5, <1>6, <3>4
      <3>5. CASE p = n /\ k # s
        <4>1. CASE Other(k, p) # q
          BY <1>4, <1>5, <3>1, <3>2, <3>5, <4>1
        <4>2. CASE Other(k, p) = q
          <5>1. peerAddressToSocket[n][q] # k
            BY <1>1, <1>2, <2>1, <3>1, <3>5, <4>2 DEF Unconnected, Peers
          <5> QED
            BY <1>2, <1>4, <1>5, <3>2, <3>5, <4>2, <5>1
        <4> QED
          BY <4>1, <4>2
      <3> QED
        BY <3>3, <3>4, <3>5
    <2> QED
      BY <1>3, <2>1 DEF TablesMatch, Other
  <1>8. BacklogInv'
    <2>1. ASSUME NEW k \in backlog
          PROVE  /\ k \notin socketList'[k[2]] /\ ~Unopened(k[2], k)'
                 /\ k \notin {accepted[k[2]], opened'[k[2]]}
                 /\ peerAddressToSocket'[k[2]][k[1]] # k
      <3>1. k \in created /\ k[1] \in Nodes /\ k[2] \in Nodes
        BY EndTypes DEF RInv, EndsInv
      <3>2. /\ k \notin socketList[k[2]] /\ ~Unopened(k[2], k)
            /\ k \notin {accepted[k[2]], opened[k[2]]}
            /\ peerAddressToSocket[k[2]][k[1]] # k
        BY DEF MInv, BacklogInv
      <3>3. k[2] = n => k # s
        BY <1>3, <1>5, <3>2
      <3> QED
        BY <1>3, <1>4, <1>5, <3>1, <3>2, <3>3
    <2> QED
      BY <1>3, <2>1 DEF BacklogInv
  <1>9. CalmInv'
    <2>1. ASSUME NobodyStops', NEW k \in created
          PROVE  Calm(k)'
      <3>1. Calm(k) /\ k[1] \in Nodes /\ k[2] \in Nodes /\ k[1] # k[2]
        BY <1>2, <2>1, CalmStays, EndTypes DEF MInv, CalmInv, RInv
      <3>2. ~Unopened(k[1], k) => (k[1] = n => k # s)
        BY <1>3, <1>5
      <3>3. k \in socketList'[k[1]] <=> ~IsClosed(k, k[1])'
        <4>1. IsClosed(k, k[1])' <=> IsClosed(k, k[1])
          BY <1>3, <1>10, <3>1 DEF Calm
        <4>2. CASE k[1] = n /\ k = s
          BY <1>3, <1>4, <1>5, <3>1, <4>1, <4>2 DEF Calm
        <4>3. CASE ~(k[1] = n /\ k = s)
          BY <1>4, <1>5, <3>1, <4>1, <4>3 DEF Calm
        <4> QED
          BY <4>2, <4>3
      <3>4. IsClosed(k, k[1])' => IsClosed(k, k[2])'
        BY <1>3, <1>10, <3>1 DEF Calm
      <3>5. IsClosed(k, k[2])' =>
              /\ k \notin socketList[k[2]] \cup backlog /\ ~Unopened(k[2], k)
              /\ peerAddressToSocket[k[2]][k[1]] # k
        <4>1. CASE IsClosed(k, k[2])
          BY <3>1, <4>1 DEF Calm
        <4>2. CASE k[2] = n /\ k \in cs
          BY <1>3, <1>10, <3>1, <4>2 DEF MInv, BacklogInv
        <4> QED
          BY <1>3, <4>1, <4>2
      <3>6. IsClosed(k, k[2])' =>
              /\ k \notin socketList'[k[2]] /\ ~Unopened(k[2], k)'
              /\ peerAddressToSocket'[k[2]][k[1]] # k
        <4>1. IsClosed(k, k[2])' => ~(k[2] = n /\ k = s)
          BY <1>3, <1>5, <3>5
        <4> QED
          BY <1>3, <1>4, <1>5, <3>1, <3>5, <4>1
      <3>7. k \notin socketList'[k[2]] =>
              wire[k][k[1]] = <<>> /\ ~Unopened(k[1], k)'
        BY <1>3, <1>4, <3>1 DEF Calm
      <3> QED
        BY <1>3, <3>3, <3>4, <3>5, <3>6, <3>7 DEF Calm
    <2> QED
      BY <1>3, <2>1 DEF CalmInv
  <1> QED
    BY <1>7, <1>8, <1>9 DEF MInv

LEMMA MatchOpen ==
  ASSUME RInv, MInv, NEW n \in Nodes, rxbuffer[n] # <<>>, NEW kind, NEW e,
         e = Head(rxbuffer[n]), Open(n, kind, e),
         UNCHANGED <<peerAddressToSocket, socketList>>
  PROVE  MInv'
  <1> DEFINE cs == Released(n, opened[n], accepted[n])
  <1>1. /\ Unopened(n, e.sock)
        /\ \A p \in Nodes : \A k : Unopened(p, k)' => Unopened(p, k)
        /\ \A p \in Nodes : opened'[p] = IF p = n THEN e.sock ELSE opened[p]
        /\ \A k, p : IsClosed(k, p)' <=> IsClosed(k, p) \/ (p = n /\ k \in cs)
        /\ UNCHANGED <<made, created, backlog, wire, accepted>>
    <2>1. Open(n, kind, e)
      OBVIOUS
    <2> QED
      BY <2>1, OpenFacts, SMTT(20)
  <1>5. \A k \in cs : /\ k \in created /\ k = opened[n] /\ k \notin socketList[n]
                      /\ ~Unopened(n, k)
                      /\ \A r \in Nodes : peerAddressToSocket[n][r] # k
    BY OpenReleases
  <1> HIDE DEF cs
  <1>2. TablesMatch'
    BY <1>1, TablesSame DEF MInv
  <1>3. BacklogInv'
    <2>1. ASSUME NEW k \in backlog
          PROVE  ~Unopened(k[2], k)' /\ k \notin {accepted[k[2]], opened'[k[2]]}
      <3>1. k[2] \in Nodes
        BY EndTypes DEF RInv, EndsInv
      <3> QED
        BY <1>1, <3>1 DEF MInv, BacklogInv
    <2> QED
      BY <1>1, <2>1 DEF MInv, BacklogInv
  <1>4. CalmInv'
    <2>1. ASSUME NobodyStops', NEW k \in created
          PROVE  Calm(k)'
      <3>1. Calm(k) /\ k[1] \in Nodes /\ k[2] \in Nodes
        BY <1>1, <2>1, CalmStays, EndTypes DEF MInv, CalmInv, RInv
      <3>2. IsClosed(k, k[1])' <=> IsClosed(k, k[1])
        BY <1>1, <1>5, <3>1 DEF Calm
      <3>3. IsClosed(k, k[1])' => IsClosed(k, k[2])'
        BY <1>1, <1>5, <3>1, <3>2 DEF Calm
      <3>4. IsClosed(k, k[2])' =>
              /\ k \notin socketList[k[2]] \cup backlog /\ ~Unopened(k[2], k)
              /\ peerAddressToSocket[k[2]][k[1]] # k
        <4>1. CASE IsClosed(k, k[2])
          BY <3>1, <4>1 DEF Calm
        <4>2. CASE k[2] = n /\ k \in cs
          BY <1>1, <1>5, <3>1, <4>2 DEF MInv, BacklogInv
        <4> QED
          BY <1>1, <4>1, <4>2
      <3> QED
        BY <1>1, <3>1, <3>2, <3>3, <3>4 DEF Calm
    <2> QED
      BY <1>1, <2>1 DEF CalmInv
  <1> QED
    BY <1>2, <1>3, <1>4 DEF MInv

LEMMA MatchMsgThread ==
  ASSUME RInv, MInv, NEW n \in Nodes, msgThread(n)
  PROVE  MInv'
  <1> DEFINE e == Head(rxbuffer[n])
             m == e.msg
  <1>1. rxbuffer[n] # <<>>
    BY DEF msgThread
  <1>2. CASE openConnectNew(n, e, m)
    BY <1>1, <1>2, MatchConnect
  <1>3. CASE ~openConnectNew(n, e, m)
    <2>1. \E kind : Open(n, kind, e)
      BY <1>3 DEF msgThread, openConnectKnown, openAcceptedConnect,
           openNewPeerUpdate, openGetPeerList, openSendPeerList, openData,
           openFlood, openFloodSeen
    <2>2. UNCHANGED <<peerAddressToSocket, socketList>>
      BY <1>3 DEF msgThread, openConnectKnown, openAcceptedConnect,
           openNewPeerUpdate, openGetPeerList, openSendPeerList, openData,
           openFlood, openFloodSeen, Answer
    <2> QED
      BY <1>1, <2>1, <2>2, MatchOpen
  <1> QED
    BY <1>2, <1>3

LEMMA MatchNext ==
  ASSUME RInv, MInv, [Next]_vars
  PROVE  MInv'
  <1>1. CASE UNCHANGED vars
    BY <1>1, CalmStays, MatchSame DEF vars
  <1>2. CASE \E c \in setup.calls : connect(c) \/ getPeerList(c) \/ send(c)
                                      \/ broadcast(c) \/ stop(c)
    BY <1>2, MatchCall, MatchStop
  <1>3. CASE \E n \in Nodes : start(n) \/ txThread(n) \/ rxThread(n)
                                \/ msgThread(n)
    <2>1. ASSUME NEW n \in Nodes, start(n) PROVE MInv'
      BY <2>1, CalmStays, MatchSame DEF start
    <2> QED
      BY <1>3, <2>1, MatchTxThread, MatchRxThread, MatchMsgThread
  <1> QED
    BY <1>1, <1>2, <1>3 DEF Next

LEMMA Matches ==
  Spec => [](RInv /\ MInv)
  <1>1. Init => RInv /\ MInv
    BY StructureInit, MatchInit
  <1>2. RInv /\ MInv /\ [Next]_vars => RInv' /\ MInv'
    BY StructureNext, MatchNext
  <1> QED
    BY <1>1, <1>2, PTL DEF Spec

\* The list of sockets and the table of peers do not come apart: of the open
\* connections a router reads those that it keeps for its peers and no others,
\* and as long as nobody stops it reads, for any routers and any calls
\* (peer_router.py 310-316 and 430-443, messages.py 35-44).
THEOREM ReadsWhatItKeeps ==
  Spec => []SocketsMatch
  <1>1. RInv /\ MInv => SocketsMatch
    <2> SUFFICES ASSUME RInv, MInv PROVE SocketsMatch
      OBVIOUS
    <2>1. ASSUME NobodyStops, NEW n \in Nodes, NEW c \in socketList[n]
          PROVE  ~IsClosed(c, n)
      <3>1. c \in created /\ n \in {c[1], c[2]}
        BY DEF RInv, ListInv
      <3> QED
        BY <2>1, <3>1 DEF MInv, CalmInv, Calm
    <2> QED
      BY <2>1 DEF SocketsMatch, Selects, MInv, TablesMatch
  <1> QED
    BY <1>1, Matches, PTL

-----------------------------------------------------------------------------
(* Who is told first.                                                      *)

LEMMA AnnouncedParts ==
  ASSUME NEW S, NEW s \in Seq(S), NEW q
  PROVE  /\ Announced(<<>>, q)
         /\ (\A i \in DOMAIN s : s[i].to # q) => Announced(s, q)
         /\ (\A i \in DOMAIN s : s[i].kind = "connect") => Announced(s, q)
         /\ \A t \in Seq(S) :
              Announced(s, q) /\ Announced(t, q) => Announced(s \o t, q)
         /\ s # <<>> /\ Announced(s, q) =>
              IF Head(s).to = q THEN Head(s).kind = "connect"
              ELSE Announced(Tail(s), q)
  <1>1. Len(s) \in Nat /\ DOMAIN s = 1..Len(s)
    OBVIOUS
  <1>2. Announced(<<>>, q)
    BY DEF Announced
  <1>3. (\A i \in DOMAIN s : s[i].to # q) => Announced(s, q)
    BY DEF Announced
  <1>4. (\A i \in DOMAIN s : s[i].kind = "connect") => Announced(s, q)
    <2>1. ASSUME \A i \in DOMAIN s : s[i].kind = "connect", NEW i \in DOMAIN s,
                 s[i].to = q
          PROVE  \E j \in 1..i : s[j].to = q /\ s[j].kind = "connect"
      <3>1. i \in 1..i
        BY <1>1
      <3> QED
        BY <2>1, <3>1
    <2> QED
      BY <2>1 DEF Announced
  <1>5. ASSUME NEW t \in Seq(S), Announced(s, q), Announced(t, q)
        PROVE  Announced(s \o t, q)
    <2>1. /\ s \o t \in Seq(S) /\ Len(t) \in Nat /\ DOMAIN t = 1..Len(t)
          /\ DOMAIN (s \o t) = 1..(Len(s) + Len(t))
          /\ \A i \in 1..Len(s) : (s \o t)[i] = s[i]
          /\ \A i \in 1..Len(t) : (s \o t)[Len(s) + i] = t[i]
      BY ConcatProperties
    <2> DEFINE u == s \o t
    <2> HIDE DEF u
    <2>2. ASSUME NEW i \in DOMAIN u, u[i].to = q
          PROVE  \E j \in 1..i : u[j].to = q /\ u[j].kind = "connect"
      <3>1. CASE i <= Len(s)
        <4>1. i \in 1..Len(s) /\ u[i] = s[i]
          BY <1>1, <2>1, <3>1 DEF u
        <4>2. PICK j \in 1..i : s[j].to = q /\ s[j].kind = "connect"
          BY <1>1, <1>5, <2>2, <4>1 DEF Announced
        <4>3. j \in 1..Len(s)
          BY <1>1, <4>1
        <4> QED
          BY <2>1, <4>2, <4>3 DEF u
      <3>2. CASE i > Len(s)
        <4>1. PICK k \in 1..Len(t) : i = Len(s) + k /\ u[i] = t[k]
          <5>1. i - Len(s) \in 1..Len(t) /\ i = Len(s) + (i - Len(s))
            BY <1>1, <2>1, <3>2 DEF u
          <5> QED
            BY <2>1, <5>1 DEF u
        <4>2. PICK j \in 1..k : t[j].to = q /\ t[j].kind = "connect"
          BY <1>5, <2>1, <2>2, <4>1 DEF Announced
        <4>3. j \in 1..Len(t) /\ Len(s) + j \in 1..i
          BY <1>1, <2>1, <4>1
        <4>4. u[Len(s) + j] = t[j]
          BY <2>1, <4>3 DEF u
        <4> QED
          BY <4>2, <4>3, <4>4
      <3> QED
        BY <1>1, <2>1, <3>1, <3>2 DEF u
    <2> QED
      BY <2>2 DEF Announced, u
  <1>6. ASSUME s # <<>>, Announced(s, q)
        PROVE  IF Head(s).to = q THEN Head(s).kind = "connect"
               ELSE Announced(Tail(s), q)
    <2>1. /\ Len(s) >= 1 /\ Head(s) = s[1]
          /\ DOMAIN Tail(s) = 1..(Len(s) - 1)
          /\ \A i \in 1..(Len(s) - 1) : Tail(s)[i] = s[i + 1]
      BY <1>1, <1>6, EmptySeq
    <2>2. CASE s[1].to = q
      <3>1. PICK j \in 1..1 : s[j].to = q /\ s[j].kind = "connect"
        BY <1>1, <1>6, <2>1, <2>2 DEF Announced
      <3> QED
        BY <2>1, <2>2, <3>1
    <2>3. CASE s[1].to # q
      <3> DEFINE u == Tail(s)
      <3> HIDE DEF u
      <3>1. ASSUME NEW i \in 1..(Len(s) - 1), u[i].to = q
            PROVE  \E j \in 1..i : u[j].to = q /\ u[j].kind = "connect"
        <4>1. i + 1 \in 1..Len(s) /\ s[i + 1].to = q
          BY <1>1, <2>1, <3>1 DEF u
        <4>2. PICK j \in 1..(i + 1) : s[j].to = q /\ s[j].kind = "connect"
          BY <1>1, <1>6, <4>1 DEF Announced
        <4>3. j # 1
          BY <2>3, <4>2
        <4>4. j - 1 \in 1..i /\ j - 1 \in 1..(Len(s) - 1) /\ (j - 1) + 1 = j
          BY <1>1, <4>2, <4>3
        <4>5. u[j - 1] = s[j]
          BY <2>1, <4>4 DEF u
        <4> QED
          BY <4>2, <4>4, <4>5
      <3> QED
        BY <2>1, <2>3, <3>1 DEF Announced, u
    <2> QED
      BY <2>2, <2>3
  <1> QED
    BY <1>2, <1>3, <1>4, <1>5, <1>6

\* What n puts on its buffer is announced to whom it has no connection with.
Proper(n, s) ==
  /\ \E S : s \in Seq(S)
  /\ \A q \in Nodes \ {n} : Between(n, q) = {} => Announced(s, q)

LEMMA OneMore ==
  ASSUME NEW c, NEW m
  PROVE  /\ DOMAIN Append(<<c>>, m) = {1, 2}
         /\ Append(<<c>>, m)[1] = c /\ Append(<<c>>, m)[2] = m
         /\ DOMAIN Append(<<>>, m) = {1} /\ Append(<<>>, m)[1] = m
  <1>1. <<c>> \in Seq({c, m}) /\ <<>> \in Seq({c, m})
    OBVIOUS
  <1>2. /\ Append(<<c>>, m) \in Seq({c, m}) /\ Len(Append(<<c>>, m)) = 2
        /\ Append(<<c>>, m)[1] = c /\ Append(<<c>>, m)[2] = m
    BY <1>1, AppendProperties
  <1>3. /\ Append(<<>>, m) \in Seq({c, m}) /\ Len(Append(<<>>, m)) = 1
        /\ Append(<<>>, m)[1] = m
    BY <1>1, AppendProperties
  <1> QED
    BY <1>2, <1>3

LEMMA ProperConnect ==
  ASSUME RInv, NEW n \in Nodes, NEW q \in Nodes \ {n}
  PROVE  /\ Proper(n, ConnectMessages(n, q))
         /\ \A m : m.to = q => Proper(n, Append(ConnectMessages(n, q), m))
  <1>1. \A p \in Nodes : Between(n, p) = {} => p \notin Peers(n)
    BY PeerTypes DEF RInv
  <1> DEFINE c == Message("connect", n, q, NoNode)
  <1>2. c.to = q /\ c.kind = "connect"
    BY DEF Message
  <1> HIDE DEF c
  <1>3. ConnectMessages(n, q) = IF q \in Peers(n) THEN <<>> ELSE <<c>>
    BY DEF ConnectMessages, c
  <1>4. ASSUME NEW p \in Nodes \ {n}, Between(n, p) = {}
        PROVE  /\ Announced(ConnectMessages(n, q), p)
               /\ \A m : m.to = q =>
                    Announced(Append(ConnectMessages(n, q), m), p)
    <2>1. CASE p = q
      <3>1. ConnectMessages(n, q) = <<c>>
        BY <1>1, <1>3, <1>4, <2>1
      <3>2. Announced(<<c>>, p)
        BY <1>2, <2>1 DEF Announced
      <3>3. ASSUME NEW m, m.to = q
            PROVE  Announced(Append(<<c>>, m), p)
        <4>1. 1 \in 1..1 /\ 1 \in 1..2
          OBVIOUS
        <4> QED
          BY <1>2, <2>1, <4>1, OneMore DEF Announced
      <3> QED
        BY <3>1, <3>2, <3>3
    <2>2. CASE p # q
      <3>1. /\ Announced(<<>>, p) /\ Announced(<<c>>, p)
        BY <1>2, <2>2 DEF Announced
      <3>2. ASSUME NEW m, m.to = q
            PROVE  /\ Announced(Append(<<>>, m), p)
                   /\ Announced(Append(<<c>>, m), p)
        BY <1>2, <2>2, <3>2, OneMore DEF Announced
      <3> QED
        BY <1>3, <3>1, <3>2
    <2> QED
      BY <2>1, <2>2
  <1>5. /\ ConnectMessages(n, q) \in Seq({c})
        /\ \A m : Append(ConnectMessages(n, q), m) \in Seq({c, m})
    <2>1. <<>> \in Seq({c}) /\ <<c>> \in Seq({c})
      OBVIOUS
    <2>2. ASSUME NEW m
          PROVE  Append(<<>>, m) \in Seq({c, m}) /\ Append(<<c>>, m) \in Seq({c, m})
      <3>1. <<>> \in Seq({c, m}) /\ <<c>> \in Seq({c, m})
        OBVIOUS
      <3> QED
        BY <3>1, AppendProperties
    <2> QED
      BY <1>3, <2>1, <2>2
  <1> QED
    BY <1>4, <1>5 DEF Proper

\* Peers, and those whose message is answered, are connected.
LEMMA ProperAnswer ==
  ASSUME RInv, NEW n \in Nodes
  PROVE  /\ Proper(n, <<>>)
         /\ \A q \in Nodes \ {n} : \A m :
              Between(n, q) # {} /\ m.to = q => Proper(n, <<m>>)
         /\ \A P \in SUBSET Peers(n) : \A kind, body :
              Proper(n, ToEach(P, kind, n, body))
         /\ \A P \in SUBSET Nodes : \A body :
              Proper(n, ToEach(P, "connect", n, body))
  <1>1. Proper(n, <<>>)
    <2>1. <<>> \in Seq({})
      OBVIOUS
    <2> QED
      BY <2>1 DEF Proper, Announced
  <1>2. ASSUME NEW q \in Nodes \ {n}, NEW m, Between(n, q) # {}, m.to = q
        PROVE  Proper(n, <<m>>)
    <2>1. <<m>> \in Seq({m})
      OBVIOUS
    <2>2. ASSUME NEW p \in Nodes \ {n}, Between(n, p) = {}
          PROVE  Announced(<<m>>, p)
      <3>1. m.to # p
        BY <1>2, <2>2
      <3>2. \A i \in DOMAIN <<m>> : <<m>>[i].to # p
        BY <3>1
      <3> QED
        BY <3>2 DEF Announced
    <2>3. \E S : <<m>> \in Seq(S)
      BY <2>1
    <2> QED
      BY <2>2, <2>3 DEF Proper
  <1>3. ASSUME NEW P \in SUBSET Nodes, NEW kind, NEW body
        PROVE  \E k, S :
                 /\ k \in Nat /\ DOMAIN ToEach(P, kind, n, body) = 1..k
                 /\ ToEach(P, kind, n, body) \in Seq(S)
                 /\ \A i \in 1..k :
                      /\ ToEach(P, kind, n, body)[i].to \in P
                      /\ ToEach(P, kind, n, body)[i].kind = kind
    <2> DEFINE s == ToEach(P, kind, n, body)
               S == {Message(kind, n, q, body) : q \in P}
    <2>1. IsFiniteSet(P)
      BY FS_Subset, RouterAssumption
    <2>2. /\ SetToSeq(P) \in Seq(P) /\ DOMAIN SetToSeq(P) = 1..Cardinality(P)
          /\ Cardinality(P) \in Nat
      BY <2>1, OrderedSet
    <2>3. \A i \in 1..Cardinality(P) : SetToSeq(P)[i] \in P
      BY <2>2
    <2>4. /\ DOMAIN s = 1..Cardinality(P)
          /\ \A i \in 1..Cardinality(P) :
               s[i].to \in P /\ s[i].kind = kind /\ s[i] \in S
      BY <2>2, <2>3 DEF ToEach, Message
    <2>5. s = [i \in 1..Cardinality(P) |-> s[i]]
      BY <2>2 DEF ToEach
    <2> HIDE DEF s, S
    <2>6. s \in [1..Cardinality(P) -> S]
      BY <2>4, <2>5
    <2>7. s \in Seq(S)
      BY <2>2, <2>6
    <2> QED
      BY <2>2, <2>4, <2>7 DEF s
  <1>4. ASSUME NEW P \in SUBSET Peers(n), NEW kind, NEW body
        PROVE  Proper(n, ToEach(P, kind, n, body))
    <2>1. P \in SUBSET Nodes
      BY DEF Peers
    <2>2. \A q \in Nodes : Between(n, q) = {} => q \notin P
      BY PeerTypes DEF RInv
    <2>3. PICK k, S :
            /\ k \in Nat /\ DOMAIN ToEach(P, kind, n, body) = 1..k
            /\ ToEach(P, kind, n, body) \in Seq(S)
            /\ \A i \in 1..k : ToEach(P, kind, n, body)[i].to \in P
      BY <1>3, <2>1
    <2> QED
      BY <2>2, <2>3 DEF Proper, Announced
  <1>5. ASSUME NEW P \in SUBSET Nodes, NEW body
        PROVE  Proper(n, ToEach(P, "connect", n, body))
    <2> DEFINE s == ToEach(P, "connect", n, body)
    <2>1. PICK k, S : /\ k \in Nat /\ DOMAIN s = 1..k /\ s \in Seq(S)
                      /\ \A i \in 1..k : s[i].kind = "connect"
      BY <1>3
    <2> HIDE DEF s
    <2>2. \A i \in 1..k : i \in 1..i
      OBVIOUS
    <2>3. \A q : Announced(s, q)
      BY <2>1, <2>2 DEF Announced
    <2> QED
      BY <2>1, <2>3 DEF Proper, s
  <1> QED
    BY <1>1, <1>2, <1>4, <1>5

\* Something proper is put on the buffer, and nothing is created.
LEMMA AnnouncePut ==
  ASSUME RInv, AnnounceInv, NEW n \in Nodes, NEW s, put(n, s), Proper(n, s),
         UNCHANGED created
  PROVE  AnnounceInv'
  <1>1. txbuffer'[n] = txbuffer[n] \o s
        /\ \A p \in Nodes \ {n} : txbuffer'[p] = txbuffer[p]
    BY DEF put, RInv, TxInv
  <1>2. \A p, q : Between(p, q)' = Between(p, q)
    BY DEF Between
  <1>3. ASSUME NEW p \in Nodes, NEW q \in Nodes \ {p}, Between(p, q) = {}
        PROVE  Announced(txbuffer'[p], q)
    <2>1. Announced(txbuffer[p], q)
      BY <1>3 DEF AnnounceInv
    <2>2. CASE p # n
      BY <1>1, <2>1, <2>2
    <2>3. CASE p = n
      <3>1. Announced(s, q)
        BY <1>3, <2>3 DEF Proper
      <3>2. PICK S : txbuffer[n] \in Seq(S) /\ s \in Seq(S)
        <4>1. PICK T : s \in Seq(T)
          BY DEF Proper
        <4>2. txbuffer[n] \in Seq(Outgoing(n) \cup T)
          BY WiderSeq DEF RInv, TxInv
        <4>3. s \in Seq(Outgoing(n) \cup T)
          BY <4>1, WiderSeq
        <4> QED
          BY <4>2, <4>3
      <3>3. Announced(txbuffer[n] \o s, q)
        BY <2>1, <2>3, <3>1, <3>2, AnnouncedParts
      <3> QED
        BY <1>1, <2>3, <3>3
    <2> QED
      BY <2>2, <2>3
  <1> QED
    BY <1>2, <1>3 DEF AnnounceInv, Announced

\* What Announces(c, q) depends on.
LEMMA AnnouncesStays ==
  ASSUME NEW c, NEW q, Announces(c, q),
         c \in backlog /\ wire[c][q] # <<>> /\ Head(wire[c][q]).kind = "connect"
           => Announces(c, q)',
         \A r \in ToSet(rxbuffer[q]) :
           r.sock = c /\ r.msg.kind = "connect" => Announces(c, q)',
         c \in socketList[q] => Announces(c, q)'
  PROVE  Announces(c, q)'
  BY DEF Announces

\* Nothing is created and no socket changes: what was announced still is.
LEMMA AloneSame ==
  ASSUME AloneInv, UNCHANGED <<created, peerAddressToSocket>>,
         \A c \in created : Announces(c, c[2]) => Announces(c, c[2])'
  PROVE  AloneInv'
  <1>1. \A p, q : Between(p, q)' = Between(p, q)
    BY DEF Between
  <1> QED
    BY <1>1 DEF AloneInv

LEMMA FirstInit ==
  Init => FirstInv
  BY DEF Init, FirstInv, AnnounceInv, AloneInv, Announced

LEMMA FirstSame ==
  ASSUME FirstInv, NobodyStops' => NobodyStops,
         UNCHANGED <<setup, created, backlog, wire, sockets, rxbuffer, txbuffer>>,
         up \subseteq up', up' \subseteq Nodes
  PROVE  FirstInv'
  <1>1. ASSUME setup.late = {}, NobodyStops'
        PROVE  (up = Nodes /\ AnnounceInv /\ AloneInv)'
    <2>1. up = Nodes /\ AnnounceInv /\ AloneInv
      BY <1>1 DEF FirstInv
    <2>2. AnnounceInv'
      BY <2>1 DEF AnnounceInv, Between, Announced
    <2>3. AloneInv'
      BY <2>1, AloneSame DEF Announces
    <2> QED
      BY <2>1, <2>2, <2>3
  <1> QED
    BY <1>1 DEF FirstInv

LEMMA FirstCall ==
  ASSUME RInv, MInv, FirstInv, NEW c \in setup.calls,
         connect(c) \/ getPeerList(c) \/ send(c) \/ broadcast(c)
  PROVE  FirstInv'
  <1> DEFINE n == c.by
             q == c.to
  <1>1. /\ \E op, whom : Make(c, op, whom)
        /\ UNCHANGED <<up, created, backlog, wire, sockets, rxbuffer>>
    BY DEF connect, getPeerList, send, broadcast, Queue
  <1>2. /\ n \in Nodes /\ UNCHANGED setup
        /\ c.op \in {"connect", "getPeerList", "send"} => q \in Nodes \ {n}
    BY <1>1, CallTypes DEF RInv, Make
  <1>3. NobodyStops' => NobodyStops
    BY MatchCall
  <1>4. PICK s : put(n, s) /\ Proper(n, s)
    <2>1. CASE connect(c)
      <3>1. c.op = "connect" /\ put(n, ConnectMessages(n, q))
        BY <2>1 DEF connect, Make, Queue
      <3> QED
        BY <1>2, <3>1, ProperConnect
    <2>2. CASE getPeerList(c)
      <3> DEFINE m == Message("getPeerList", n, q, NoNode)
      <3>1. c.op = "getPeerList" /\ put(n, Append(ConnectMessages(n, q), m))
        BY <2>2 DEF getPeerList, Make, Queue
      <3>2. m.to = q
        BY DEF Message
      <3> QED
        BY <1>2, <3>1, <3>2, ProperConnect
    <2>3. CASE send(c)
      <3> DEFINE m == Message("data", n, q, c)
      <3>1. c.op = "send" /\ put(n, Append(ConnectMessages(n, q), m))
        BY <2>3 DEF send, Make, Queue
      <3>2. m.to = q
        BY DEF Message
      <3> QED
        BY <1>2, <3>1, <3>2, ProperConnect
    <2>4. CASE broadcast(c)
      <3>1. \E kind : put(n, ToEach(Peers(n), kind, n, c))
        BY <2>4 DEF broadcast
      <3> QED
        BY <1>2, <3>1, ProperAnswer
    <2> QED
      BY <2>1, <2>2, <2>3, <2>4
  <1>5. ASSUME setup.late = {}, NobodyStops'
        PROVE  (up = Nodes /\ AnnounceInv /\ AloneInv)'
    <2>1. up = Nodes /\ AnnounceInv /\ AloneInv
      BY <1>3, <1>5 DEF FirstInv
    <2>2. AloneInv'
      BY <1>1, <2>1, AloneSame DEF Announces
    <2>3. AnnounceInv'
      BY <1>1, <1>2, <1>4, <2>1, AnnouncePut
    <2> QED
      BY <1>1, <2>1, <2>2, <2>3
  <1> QED
    BY <1>2, <1>5 DEF FirstInv


\* The answer to a message goes to someone n has a connection with.
LEMMA ProperAppend ==
  ASSUME NEW n \in Nodes, NEW s, Proper(n, s), NEW m, Proper(n, <<m>>)
  PROVE  Proper(n, Append(s, m))
  <1>1. PICK S : s \in Seq(S)
    BY DEF Proper
  <1> DEFINE T == S \cup {m}
  <1>2. s \in Seq(T) /\ <<m>> \in Seq(T) /\ m \in T
    <2>1. s \in Seq(T)
      BY <1>1, WiderSeq
    <2> QED
      BY <2>1
  <1> HIDE DEF T
  <1>3. Append(s, m) = s \o <<m>> /\ Append(s, m) \in Seq(T)
    BY <1>2, AppendIsConcat, AppendProperties
  <1>4. ASSUME NEW q \in Nodes \ {n}, Between(n, q) = {}
        PROVE  Announced(Append(s, m), q)
    <2>1. Announced(s, q) /\ Announced(<<m>>, q)
      BY <1>4 DEF Proper
    <2> DEFINE t == <<m>>
    <2>2. t \in Seq(T) /\ Announced(t, q) /\ Append(s, m) = s \o t
      BY <1>2, <1>3, <2>1
    <2> HIDE DEF t
    <2> QED
      BY <1>2, <2>1, <2>2, AnnouncedParts
  <1> QED
    BY <1>3, <1>4 DEF Proper

\* The oldest message leaves the buffer, and its addressee is connected now.
LEMMA AnnounceTail ==
  ASSUME RInv, AnnounceInv, NEW n \in Nodes, NEW m, Transmit(n, m),
         created \subseteq created', Between(n, m.to)' # {}
  PROVE  AnnounceInv'
  <1>1. /\ txbuffer[n] # <<>> /\ m = Head(txbuffer[n])
        /\ txbuffer' = [txbuffer EXCEPT ![n] = Tail(@)]
    BY DEF Transmit
  <1>2. /\ txbuffer'[n] = Tail(txbuffer[n])
        /\ \A p \in Nodes \ {n} : txbuffer'[p] = txbuffer[p]
    BY <1>1 DEF RInv, TxInv
  <1>3. ASSUME NEW p \in Nodes, NEW q \in Nodes \ {p}, Between(p, q)' = {}
        PROVE  Announced(txbuffer'[p], q)
    <2>1. Between(p, q) = {}
      BY <1>3 DEF Between
    <2>2. Announced(txbuffer[p], q)
      BY <2>1 DEF AnnounceInv
    <2>3. CASE p # n
      BY <1>2, <2>2, <2>3
    <2>4. CASE p = n
      <3>1. m.to # q
        BY <1>3, <2>4
      <3>2. txbuffer[n] \in Seq(Outgoing(n))
        BY DEF RInv, TxInv
      <3>3. Announced(Tail(txbuffer[n]), q)
        BY <1>1, <2>2, <2>4, <3>1, <3>2, AnnouncedParts
      <3> QED
        BY <1>2, <2>4, <3>3
    <2> QED
      BY <2>3, <2>4
  <1> QED
    BY <1>3 DEF AnnounceInv, Announced

LEMMA AloneSend ==
  ASSUME RInv, AloneInv, NEW n \in Nodes, NEW m, sendOnSocket(n, m)
  PROVE  AloneInv'
  <1>0. PICK c : c = peerAddressToSocket[n][m.to]
    OBVIOUS
  <1>1. /\ wire' = [wire EXCEPT ![c][m.to] = Append(@, m)]
        /\ UNCHANGED <<peerAddressToSocket, socketList, created, backlog, rxbuffer>>
    BY <1>0 DEF sendOnSocket, Transmit
  <1>2. ASSUME NEW k \in created, Announces(k, k[2])
        PROVE  Announces(k, k[2])'
    <2>1. ASSUME wire[k][k[2]] # <<>>
          PROVE  wire'[k][k[2]] # <<>> /\ Head(wire'[k][k[2]]) = Head(wire[k][k[2]])
      <3>1. k[2] \in Nodes
        BY EndTypes DEF RInv
      <3>2. /\ wire[k][k[2]] \in Seq(Incoming(k[2], k))
            /\ \/ wire'[k][k[2]] = wire[k][k[2]]
               \/ wire'[k][k[2]] = Append(wire[k][k[2]], m)
        BY <1>1, <3>1 DEF RInv, WireInv
      <3> QED
        BY <2>1, <3>2, AppendProperties, HeadTailAppend
    <2> QED
      BY <1>1, <1>2, <2>1 DEF Announces
  <1> QED
    BY <1>1, <1>2, AloneSame

\* The first message to someone that n knows nothing of is a ConnectMessage, and
\* the connection it is sent on is the only one of the two.
LEMMA AloneCreate ==
  ASSUME RInv, AnnounceInv, AloneInv, NEW n \in Nodes, NEW m, createSocket(n, m)
  PROVE  AloneInv' /\ Between(n, m.to)' # {}
  <1>0. PICK sock : sock = NextSocket(n, m.to)
    OBVIOUS
  <1>1. /\ Transmit(n, m) /\ m.to \notin Peers(n)
        /\ created' = created \cup {sock} /\ backlog' = backlog \cup {sock}
        /\ wire' = [c \in created' |->
                      IF c = sock THEN [q \in Nodes |-> IF q = m.to THEN <<m>>
                                                        ELSE <<>>]
                      ELSE wire[c]]
        /\ UNCHANGED rxbuffer
        /\ peerAddressToSocket' = [peerAddressToSocket EXCEPT ![n][m.to] = sock]
        /\ socketList' = [socketList EXCEPT ![n] = @ \cup {sock}]
    BY <1>0 DEF createSocket, Connected, Transmit
  <1>2. m.to \in Nodes \ {n}
    BY <1>1, TransmitKept
  <1>3. sock \notin created /\ sock[1] = n /\ sock[2] = m.to
    BY <1>0, <1>2, NextIsNew DEF RInv
  <1>4. /\ peerAddressToSocket'[n][m.to] = sock
        /\ \A p, r \in Nodes :
             p # n \/ r # m.to =>
               peerAddressToSocket'[p][r] = peerAddressToSocket[p][r]
    <2>1. TableInv
      BY DEF RInv
    <2> QED
      BY <1>1, <1>2, <2>1 DEF TableInv
  <1>5. \A p, q : Between(p, q)' =
          Between(p, q) \cup (IF {p, q} = {n, m.to} THEN {sock} ELSE {})
    BY <1>1, <1>3 DEF Between
  \* What n alone created before, it would have in the table.
  <1>6. ASSUME NEW k \in created, k[1] = n, k[2] = m.to,
               \A j \in Between(n, m.to)' : j[1] = n
        PROVE  FALSE
    <2>1. \A j \in Between(k[1], k[2]) : j[1] = k[1]
      BY <1>5, <1>6
    <2>2. peerAddressToSocket[n][m.to] = k /\ k # NoSocket
      BY <1>6, <2>1, EndTypes DEF AloneInv, RInv
    <2> QED
      BY <1>1, <1>2, <2>2 DEF Peers
  <1>7. ASSUME NEW c \in created', \A k \in Between(c[1], c[2])' : k[1] = c[1]
        PROVE  /\ Between(c[1], c[2])' = {c}
               /\ peerAddressToSocket'[c[1]][c[2]] = c
               /\ Announces(c, c[2])'
    <2>1. CASE c = sock
      <3>1. Between(n, m.to) = {}
        <4>1. ASSUME NEW k \in Between(n, m.to)
              PROVE  FALSE
          <5>1. k \in created /\ k[1] = n /\ {k[1], k[2]} = {n, m.to}
            BY <1>3, <1>5, <1>7, <2>1, <4>1 DEF Between
          <5>2. k[2] = m.to
            BY <1>2, <5>1
          <5> QED
            BY <1>3, <1>6, <1>7, <2>1, <5>1, <5>2
        <4> QED
          BY <4>1
      <3>2. m.kind = "connect"
        <4>1. Announced(txbuffer[n], m.to)
          BY <1>2, <3>1 DEF AnnounceInv
        <4>2. /\ txbuffer[n] \in Seq(Outgoing(n)) /\ txbuffer[n] # <<>>
              /\ m = Head(txbuffer[n])
          BY <1>1 DEF RInv, TxInv, Transmit
        <4> QED
          BY <4>1, <4>2, AnnouncedParts
      <3>3. wire'[sock][m.to] = <<m>> /\ sock \in backlog'
        BY <1>1, <1>2
      <3>4. <<m>> # <<>> /\ Head(<<m>>) = m
        OBVIOUS
      <3>5. Announces(c, c[2])'
        BY <1>3, <2>1, <3>2, <3>3, <3>4 DEF Announces
      <3> QED
        BY <1>3, <1>4, <1>5, <2>1, <3>1, <3>5
    <2>2. CASE c # sock
      <3>1. c \in created /\ c[1] \in Nodes /\ c[2] \in Nodes /\ c[1] # c[2]
        BY <1>1, <2>2, EndTypes DEF RInv
      <3>2. {c[1], c[2]} # {n, m.to}
        <4>1. SUFFICES ASSUME {c[1], c[2]} = {n, m.to} PROVE FALSE
          OBVIOUS
        <4>2. sock \in Between(c[1], c[2])'
          BY <1>5, <4>1
        <4>3. c[1] = n /\ c[2] = m.to
          BY <1>2, <1>3, <1>7, <4>1, <4>2
        <4> QED
          BY <1>6, <1>7, <3>1, <4>3
      <3>3. Between(c[1], c[2])' = Between(c[1], c[2])
        BY <1>5, <3>2
      <3>4. /\ Between(c[1], c[2]) = {c}
            /\ peerAddressToSocket[c[1]][c[2]] = c
            /\ Announces(c, c[2])
        BY <1>7, <3>1, <3>3 DEF AloneInv
      <3>5. peerAddressToSocket'[c[1]][c[2]] = c
        BY <1>4, <3>1, <3>2, <3>4
      <3>6. wire'[c] = wire[c] /\ socketList[c[2]] \subseteq socketList'[c[2]]
        BY <1>1, <2>2, <3>1 DEF RInv, ListInv
      <3>7. Announces(c, c[2])'
        BY <1>1, <3>4, <3>6 DEF Announces
      <3> QED
        BY <3>3, <3>4, <3>5, <3>7
    <2> QED
      BY <2>1, <2>2
  <1>8. sock \in Between(n, m.to)'
    BY <1>5
  <1> QED
    BY <1>7, <1>8 DEF AloneInv

LEMMA FirstTxThread ==
  ASSUME RInv, AnnounceInv, AloneInv, up = Nodes, NEW n \in Nodes, txThread(n)
  PROVE  AnnounceInv' /\ AloneInv'
  <1>0. PICK m : m = Head(txbuffer[n])
    OBVIOUS
  <1>1. CASE createSocket(n, m)
    <2>1. Transmit(n, m) /\ created \subseteq created'
      BY <1>1 DEF createSocket, Connected
    <2> QED
      BY <1>1, <2>1, AloneCreate, AnnounceTail
  <1>2. CASE sendOnSocket(n, m) \/ sendIntoTheVoid(n, m) \/ refuse(n, m)
    <2>1. Transmit(n, m) /\ UNCHANGED created
      BY <1>2 DEF sendOnSocket, sendIntoTheVoid, refuse
    <2>2. m.to \in Nodes \ {n}
      BY <2>1, TransmitKept
    <2>3. m.to \in Peers(n)
      BY <1>2, <2>2 DEF sendOnSocket, sendIntoTheVoid, refuse
    <2>4. Between(n, m.to) # {}
      BY <2>2, <2>3, PeerTypes DEF RInv
    <2>5. Between(n, m.to)' # {}
      BY <2>1, <2>4 DEF Between
    <2>6. AnnounceInv'
      BY <2>1, <2>5, AnnounceTail
    <2>7. AloneInv'
      <3>1. CASE sendOnSocket(n, m)
        BY <3>1, AloneSend
      <3>2. CASE sendIntoTheVoid(n, m) \/ refuse(n, m)
        <4>1. UNCHANGED <<peerAddressToSocket, socketList, created, backlog, wire,
                          rxbuffer>>
          BY <3>2 DEF sendIntoTheVoid, refuse, Transmit
        <4> QED
          BY <4>1, AloneSame DEF Announces
      <3> QED
        BY <1>2, <3>1, <3>2
    <2> QED
      BY <2>6, <2>7
  <1> QED
    BY <1>0, <1>1, <1>2 DEF txThread

-----------------------------------------------------------------------------
(* Who is told first: the RX thread.                                       *)

\* What is read is put behind what was read before.
LEMMA ReadKeeps ==
  ASSUME RInv, NEW n \in Nodes, NEW c \in created, Read(n, c)
  PROVE  /\ \A p \in Nodes : ToSet(rxbuffer[p]) \subseteq ToSet(rxbuffer'[p])
         /\ [msg |-> Head(wire[c][n]), sock |-> c] \in ToSet(rxbuffer'[n])
  <1>1. PICK r : r = [msg |-> Head(wire[c][n]), sock |-> c]
    OBVIOUS
  <1>2. /\ wire[c][n] # <<>>
        /\ rxbuffer' = [rxbuffer EXCEPT ![n] = Append(@, r)]
    BY <1>1 DEF Read
  <1>3. r \in Opened(n)
    <2>1. Head(wire[c][n]) \in Incoming(n, c)
      BY <1>2, FirstOfSeq DEF RInv, WireInv
    <2> QED
      BY <1>1, <2>1 DEF Opened, Incoming
  <1>4. rxbuffer[n] \in Seq(Opened(n)) /\ DOMAIN rxbuffer = Nodes
    BY DEF RInv, RxInv
  <1>5. ToSet(Append(rxbuffer[n], r)) = ToSet(rxbuffer[n]) \cup {r}
    BY <1>3, <1>4, AppendToSet
  <1>6. \A p \in Nodes :
          rxbuffer'[p] = IF p = n THEN Append(rxbuffer[n], r) ELSE rxbuffer[p]
    BY <1>2, <1>4
  <1> QED
    BY <1>1, <1>5, <1>6

LEMMA AloneRead ==
  ASSUME RInv, AloneInv, NEW n \in Nodes, NEW c \in created,
         \/ handleNewConnection(n, c) \/ handleExistingConnection(n, c)
         \/ readInVain(n, c)
  PROVE  AloneInv'
  <1>1. UNCHANGED <<created, peerAddressToSocket, socketList>>
    BY DEF handleNewConnection, handleExistingConnection, readInVain
  <1>2. wire' = [wire EXCEPT ![c][n] = Tail(@)]
    BY DEF handleNewConnection, handleExistingConnection, readInVain, Read
  <1>3. \A p \in Nodes : ToSet(rxbuffer[p]) \subseteq ToSet(rxbuffer'[p])
    <2>1. Read(n, c) \/ UNCHANGED rxbuffer
      BY DEF handleNewConnection, handleExistingConnection, readInVain
    <2> QED
      BY <2>1, ReadKeeps
  <1>4. ASSUME NEW k \in created, Announces(k, k[2])
        PROVE  Announces(k, k[2])'
    <2>1. k[2] \in Nodes
      BY EndTypes DEF RInv
    <2>2. CASE k \in socketList[k[2]]
      BY <1>1, <2>2 DEF Announces
    <2>3. CASE \E r \in ToSet(rxbuffer[k[2]]) : r.sock = k /\ r.msg.kind = "connect"
      BY <1>3, <2>1, <2>3 DEF Announces
    <2>4. CASE /\ k \in backlog /\ wire[k][k[2]] # <<>>
               /\ Head(wire[k][k[2]]).kind = "connect"
               /\ k \notin socketList[k[2]]
      <3>1. CASE k = c /\ n = k[2]
        <4>1. handleNewConnection(n, c)
          BY <2>4, <3>1 DEF handleExistingConnection, readInVain
        <4>2. [msg |-> Head(wire[c][n]), sock |-> c] \in ToSet(rxbuffer'[n])
          BY <4>1, ReadKeeps DEF handleNewConnection
        <4> QED
          BY <2>4, <3>1, <4>2 DEF Announces
      <3>2. CASE ~(k = c /\ n = k[2])
        <4>1. wire'[k][k[2]] = wire[k][k[2]]
          BY <1>2, <2>1, <3>2 DEF RInv, WireInv
        <4>2. CASE k # c
          <5>1. k \in backlog'
            BY <2>4, <4>2 DEF handleNewConnection, handleExistingConnection,
               readInVain
          <5> QED
            BY <2>4, <4>1, <5>1 DEF Announces
        <4>3. CASE k = c
          <5>1. k \in backlog'
            BY <2>4, <3>2, <4>3 DEF handleNewConnection,
               handleExistingConnection, readInVain
          <5> QED
            BY <2>4, <4>1, <5>1 DEF Announces
        <4> QED
          BY <4>2, <4>3
      <3> QED
        BY <3>1, <3>2
    <2> QED
      BY <1>4, <2>2, <2>3, <2>4 DEF Announces
  <1> QED
    BY <1>1, <1>4, AloneSame

\* As long as nobody stops, the one that alone creates connections does not find
\* them closed.
LEMMA AloneRemoval ==
  ASSUME RInv, CalmInv, NobodyStops, AloneInv, NEW n \in Nodes, NEW c \in created,
         removeSocket(n, c) \/ removeResetSocket(n, c)
  PROVE  AloneInv'
  <1>1. /\ Selects(n) /\ c \in socketList[n] /\ IsClosed(c, Other(c, n))
        /\ socketList' = [socketList EXCEPT ![n] = @ \ {c}]
        /\ UNCHANGED <<created, backlog, wire, rxbuffer>>
        /\ \/ UNCHANGED peerAddressToSocket
           \/ peerAddressToSocket' =
                [peerAddressToSocket EXCEPT ![n][Other(c, n)] = NoSocket]
    BY DEF removeSocket, removeResetSocket, EndOfStream
  <1>2. Calm(c) /\ c[1] \in Nodes /\ c[2] \in Nodes /\ c[1] # c[2]
    BY EndTypes DEF CalmInv, RInv
  <1>3. n \in {c[1], c[2]} /\ ~IsClosed(c, n)
    BY <1>1 DEF RInv, ListInv, Selects
  <1>4. n = c[1] /\ Other(c, n) = c[2]
    BY <1>1, <1>2, <1>3 DEF Calm, Other
  <1>5. ~Announces(c, c[2])
    BY <1>1, <1>2, <1>4 DEF Calm, Announces, Unopened
  <1>6. \A p \in Nodes :
          socketList'[p] = IF p = n THEN socketList[p] \ {c} ELSE socketList[p]
    BY <1>1 DEF RInv, ListInv
  <1>7. \A p, q \in Nodes :
          p # n \/ q # c[2] =>
            peerAddressToSocket'[p][q] = peerAddressToSocket[p][q]
    BY <1>1, <1>2, <1>4 DEF RInv, TableInv
  <1>8. \A p, q : Between(p, q)' = Between(p, q)
    BY <1>1 DEF Between
  <1>9. ASSUME NEW k \in created, \A j \in Between(k[1], k[2]) : j[1] = k[1]
        PROVE  /\ Between(k[1], k[2]) = {k}
               /\ peerAddressToSocket'[k[1]][k[2]] = k
               /\ Announces(k, k[2])'
    <2>1. /\ Between(k[1], k[2]) = {k}
          /\ peerAddressToSocket[k[1]][k[2]] = k
          /\ Announces(k, k[2])
      BY <1>9 DEF AloneInv
    <2>2. k # c
      BY <1>5, <2>1
    <2>3. k[1] \in Nodes /\ k[2] \in Nodes
      BY EndTypes DEF RInv
    <2>4. ~(k[1] = n /\ k[2] = c[2])
      <3>1. SUFFICES ASSUME k[1] = n, k[2] = c[2] PROVE FALSE
        OBVIOUS
      <3>2. c \in Between(k[1], k[2])
        BY <1>4, <3>1 DEF Between
      <3> QED
        BY <2>1, <2>2, <3>2
    <2>5. k \in socketList[k[2]] => k \in socketList'[k[2]]
      BY <1>6, <2>2, <2>3
    <2>6. Announces(k, k[2])'
      BY <1>1, <2>1, <2>5 DEF Announces
    <2> QED
      BY <1>7, <2>1, <2>3, <2>4, <2>6
  <1> QED
    BY <1>1, <1>8, <1>9 DEF AloneInv

LEMMA FirstRxThread ==
  ASSUME RInv, CalmInv, NobodyStops, AnnounceInv, AloneInv, NEW n \in Nodes,
         rxThread(n)
  PROVE  AnnounceInv' /\ AloneInv'
  <1>1. UNCHANGED <<created, txbuffer>>
    BY DEF rxThread, handleNewConnection, handleExistingConnection, readInVain,
       removeSocket, removeResetSocket, EndOfStream
  <1>2. AnnounceInv'
    BY <1>1 DEF AnnounceInv, Between, Announced
  <1>3. AloneInv'
    BY AloneRead, AloneRemoval DEF rxThread
  <1> QED
    BY <1>2, <1>3

-----------------------------------------------------------------------------
(* Who is told first: the message thread.                                  *)

\* Nothing but the message that is opened goes.
LEMMA OpenKeeps ==
  ASSUME RInv, NEW n \in Nodes, rxbuffer[n] # <<>>,
         rxbuffer' = [rxbuffer EXCEPT ![n] = Tail(@)],
         NEW p \in Nodes, NEW r \in ToSet(rxbuffer[p])
  PROVE  r \in ToSet(rxbuffer'[p]) \/ (p = n /\ r = Head(rxbuffer[n]))
  <1>1. rxbuffer[n] \in Seq(Opened(n)) /\ DOMAIN rxbuffer = Nodes
    BY DEF RInv, RxInv
  <1>2. ToSet(rxbuffer[n]) = {Head(rxbuffer[n])} \cup ToSet(Tail(rxbuffer[n]))
    BY <1>1, FirstOfSeq
  <1>3. rxbuffer'[p] = IF p = n THEN Tail(rxbuffer[p]) ELSE rxbuffer[p]
    BY <1>1
  <1> QED
    BY <1>2, <1>3

\* A connection that is the only one of two nodes is the one a ConnectMessage
\* comes on.
LEMMA AloneConnect ==
  ASSUME RInv, AloneInv, NEW n \in Nodes, rxbuffer[n] # <<>>, NEW e,
         e = Head(rxbuffer[n]), openConnectNew(n, e, e.msg)
  PROVE  AloneInv'
  <1>0. PICK q : q = e.msg.from
    OBVIOUS
  <1>1. /\ Open(n, "connect", e)
        /\ peerAddressToSocket' = [peerAddressToSocket EXCEPT ![n][q] = e.sock]
        /\ socketList' = [socketList EXCEPT ![n] = @ \cup {e.sock}]
    BY <1>0 DEF openConnectNew
  <1>2. q \in Nodes \ {n} /\ e.sock \in Between(n, q)
    BY <1>0, <1>1, OpenKept
  <1>3. UNCHANGED <<created, backlog, wire>>
    BY <1>1 DEF Open
  <1>4. \A p \in Nodes : \A r \in ToSet(rxbuffer[p]) :
          r \in ToSet(rxbuffer'[p]) \/ (p = n /\ r = e)
    <2>1. ASSUME NEW p \in Nodes, NEW r \in ToSet(rxbuffer[p])
          PROVE  r \in ToSet(rxbuffer'[p]) \/ (p = n /\ r = e)
      <3>1. rxbuffer' = [rxbuffer EXCEPT ![n] = Tail(@)]
        BY <1>1 DEF Open
      <3> QED
        BY <2>1, <3>1, OpenKeeps
    <2> QED
      BY <2>1
  <1>5. \A p \in Nodes : \A k :
          k \in socketList'[p] <=> k \in socketList[p] \/ (p = n /\ k = e.sock)
    BY <1>1, ListFacts DEF RInv
  <1>6. /\ peerAddressToSocket'[n][q] = e.sock
        /\ \A p, r \in Nodes :
             p # n \/ r # q =>
               peerAddressToSocket'[p][r] = peerAddressToSocket[p][r]
    <2>1. TableInv
      BY DEF RInv
    <2> QED
      BY <1>1, <1>2, <2>1 DEF TableInv
  <1>7. \A p, r : Between(p, r)' = Between(p, r)
    BY <1>3 DEF Between
  <1>8. ASSUME NEW k \in created, \A j \in Between(k[1], k[2]) : j[1] = k[1]
        PROVE  /\ Between(k[1], k[2]) = {k}
               /\ peerAddressToSocket'[k[1]][k[2]] = k
               /\ Announces(k, k[2])'
    <2>1. /\ Between(k[1], k[2]) = {k}
          /\ peerAddressToSocket[k[1]][k[2]] = k
          /\ Announces(k, k[2])
      BY <1>8 DEF AloneInv
    <2>2. k[1] \in Nodes /\ k[2] \in Nodes
      BY EndTypes DEF RInv
    <2>3. k[1] = n /\ k[2] = q => e.sock = k
      BY <1>2, <2>1
    <2>4. peerAddressToSocket'[k[1]][k[2]] = k
      BY <1>6, <2>1, <2>2, <2>3
    <2>5. Announces(k, k[2])'
      <3>1. ASSUME NEW r \in ToSet(rxbuffer[k[2]]), r.sock = k,
                   r.msg.kind = "connect"
            PROVE  Announces(k, k[2])'
        <4>1. CASE r \in ToSet(rxbuffer'[k[2]])
          BY <3>1, <4>1 DEF Announces
        <4>2. CASE k[2] = n /\ r = e
          BY <1>2, <1>5, <3>1, <4>2 DEF Announces
        <4> QED
          BY <1>4, <2>2, <3>1, <4>1, <4>2
      <3>2. k \in socketList[k[2]] => Announces(k, k[2])'
        BY <1>5, <2>2 DEF Announces
      <3>3. k \in backlog /\ wire[k][k[2]] # <<>>
              /\ Head(wire[k][k[2]]).kind = "connect" => Announces(k, k[2])'
        BY <1>3 DEF Announces
      <3> QED
        BY <2>1, <3>1, <3>2, <3>3 DEF Announces
    <2> QED
      BY <2>1, <2>4, <2>5
  <1> QED
    BY <1>3, <1>7, <1>8 DEF AloneInv

\* The peer a node keeps another connection for is not alone in creating them.
LEMMA AloneOpen ==
  ASSUME RInv, TablesMatch, AloneInv, NEW n \in Nodes, rxbuffer[n] # <<>>,
         NEW kind, NEW e, e = Head(rxbuffer[n]), Open(n, kind, e),
         kind = "connect" => ~Unconnected(n, e.msg.from),
         UNCHANGED <<peerAddressToSocket, socketList>>
  PROVE  AloneInv'
  <1>0. Open(n, kind, e)
    OBVIOUS
  <1>1. e.msg.from \in Nodes \ {n} /\ e.sock \in Between(n, e.msg.from)
    BY <1>0, OpenKept
  <1>2. UNCHANGED <<created, backlog, wire>> /\ e.msg.kind = kind
    BY <1>0 DEF Open
  <1>3. \A p \in Nodes : \A r \in ToSet(rxbuffer[p]) :
          r \in ToSet(rxbuffer'[p]) \/ (p = n /\ r = e)
    <2>1. ASSUME NEW p \in Nodes, NEW r \in ToSet(rxbuffer[p])
          PROVE  r \in ToSet(rxbuffer'[p]) \/ (p = n /\ r = e)
      <3>1. rxbuffer' = [rxbuffer EXCEPT ![n] = Tail(@)]
        BY <1>0 DEF Open
      <3> QED
        BY <2>1, <3>1, OpenKeeps
    <2> QED
      BY <2>1
  <1>4. ASSUME NEW k \in created, \A j \in Between(k[1], k[2]) : j[1] = k[1]
        PROVE  Announces(k, k[2])'
    <2>1. Between(k[1], k[2]) = {k} /\ Announces(k, k[2])
      BY <1>4 DEF AloneInv
    <2>2. k[1] \in Nodes /\ k[2] \in Nodes /\ k[1] # k[2] /\ Other(k, k[2]) = k[1]
      BY EndTypes DEF RInv
    <2>3. ASSUME NEW r \in ToSet(rxbuffer[k[2]]), r.sock = k, r.msg.kind = "connect"
          PROVE  Announces(k, k[2])'
      <3>1. CASE r \in ToSet(rxbuffer'[k[2]])
        BY <2>3, <3>1 DEF Announces
      <3>2. CASE k[2] = n /\ r = e
        <4>1. ~Unconnected(n, e.msg.from)
          BY <1>2, <2>3, <3>2
        <4>2. e.msg.from = k[1]
          BY <1>1, <2>2, <2>3, <3>2 DEF Between
        <4>3. peerAddressToSocket[n][k[1]] \in Between(n, k[1])
          BY <4>1, <4>2 DEF Unconnected, RInv, TableInv
        <4>4. Between(n, k[1]) = {k}
          BY <2>1, <3>2 DEF Between
        <4>5. peerAddressToSocket[n][k[1]] = k /\ ~IsClosed(k, n)
          BY <4>1, <4>2, <4>3, <4>4 DEF Unconnected
        <4>6. k \in socketList[n]
          BY <2>2, <3>2, <4>5 DEF TablesMatch
        <4> QED
          BY <3>2, <4>6 DEF Announces
      <3> QED
        BY <1>3, <2>2, <2>3, <3>1, <3>2
    <2> QED
      BY <1>2, <2>1, <2>3 DEF Announces
  <1>5. \A p, r : Between(p, r)' = Between(p, r)
    BY <1>2 DEF Between
  <1> QED
    BY <1>2, <1>4, <1>5 DEF AloneInv

LEMMA FirstMsgThread ==
  ASSUME RInv, TablesMatch, AnnounceInv, AloneInv, NEW n \in Nodes, msgThread(n)
  PROVE  AnnounceInv' /\ AloneInv'
  <1>0. PICK e : e = Head(rxbuffer[n])
    OBVIOUS
  <1>1. PICK m : m = e.msg
    OBVIOUS
  <1>2. rxbuffer[n] # <<>>
    BY DEF msgThread
  <1>3. e \in Opened(n)
    BY <1>0, <1>2, FirstOfSeq DEF RInv, RxInv
  <1>4. /\ m.from \in Nodes \ {n} /\ Between(n, m.from) # {}
        /\ m.kind = "newPeer" => m.body \in Nodes \ {n}
        /\ m.kind = "peerList" => m.body \in SUBSET Nodes
    <2>1. m \in Letters /\ m.to = n /\ m.from \in Nodes \ {n}
          /\ e.sock \in Between(n, m.from)
      BY <1>1, <1>3, OpenedTypes DEF RInv
    <2>2. /\ m.kind = "newPeer" => m.body \in Nodes \ {n}
          /\ m.kind = "peerList" => m.body \in SUBSET Nodes
      BY <2>1, LetterTypes
    <2> QED
      BY <2>1, <2>2
  <1>5. ASSUME NEW t, t.to = m.from
        PROVE  Proper(n, <<t>>)
    BY <1>4, <1>5, ProperAnswer
  <1>6. CASE openConnectNew(n, e, m)
    <2>1. UNCHANGED created
      BY <1>6 DEF openConnectNew, Open
    <2> DEFINE s == IF setup.mesh
                    THEN ToEach(Peers(n) \ {m.from}, "newPeer", n, m.from)
                    ELSE <<>>
               t == AcceptedMessage(n, m)
    <2>2. put(n, Append(s, t)) /\ t.to = m.from
      BY <1>6 DEF openConnectNew, AcceptedMessage, Message
    <2>3. Proper(n, s)
      BY ProperAnswer
    <2> HIDE DEF s, t
    <2>4. Proper(n, Append(s, t))
      BY <1>5, <2>2, <2>3, ProperAppend
    <2>5. AnnounceInv'
      BY <2>1, <2>2, <2>4, AnnouncePut
    <2>6. AloneInv'
      BY <1>0, <1>1, <1>2, <1>6, AloneConnect
    <2> QED
      BY <2>5, <2>6
  <1>7. CASE openConnectKnown(n, e, m)
    <2> DEFINE s == <<AcceptedMessage(n, m)>>
    <2>1. /\ Open(n, "connect", e) /\ ~Unconnected(n, m.from) /\ put(n, s)
          /\ UNCHANGED <<created, peerAddressToSocket, socketList>>
      BY <1>7 DEF openConnectKnown, Answer, Open
    <2>2. Proper(n, s)
      BY <1>5 DEF AcceptedMessage, Message
    <2> HIDE DEF s
    <2>3. AnnounceInv'
      BY <2>1, <2>2, AnnouncePut
    <2>4. AloneInv'
      BY <1>0, <1>1, <1>2, <2>1, AloneOpen
    <2> QED
      BY <2>3, <2>4
  \* The other messages, and what is put on the buffer.
  <1>8. ASSUME ~openConnectNew(n, e, m), ~openConnectKnown(n, e, m)
        PROVE  /\ UNCHANGED <<created, peerAddressToSocket, socketList>>
               /\ \E kind : Open(n, kind, e) /\ kind # "connect"
               /\ UNCHANGED txbuffer \/ \E s : put(n, s) /\ Proper(n, s)
    <2>1. CASE openAcceptedConnect(n, e, m) \/ openFloodSeen(n, e, m)
      <3>1. Proper(n, <<>>)
        BY ProperAnswer
      <3>2. put(n, <<>>) /\ UNCHANGED <<created, peerAddressToSocket, socketList>>
        BY <2>1 DEF openAcceptedConnect, openFloodSeen, Answer, Open
      <3>3. Open(n, "accepted", e) \/ Open(n, "flood", e)
        BY <2>1 DEF openAcceptedConnect, openFloodSeen
      <3> QED
        BY <3>1, <3>2, <3>3
    <2>2. CASE openNewPeerUpdate(n, e, m)
      <3>1. /\ Open(n, "newPeer", e) /\ put(n, ConnectMessages(n, m.body))
            /\ UNCHANGED <<created, peerAddressToSocket, socketList>>
        BY <2>2 DEF openNewPeerUpdate, Answer, Open
      <3>2. m.kind = "newPeer"
        BY <1>1, <3>1 DEF Open
      <3>3. Proper(n, ConnectMessages(n, m.body))
        BY <1>4, <3>2, ProperConnect
      <3> QED
        BY <3>1, <3>3
    <2>3. CASE openGetPeerList(n, e, m)
      <3> DEFINE s == <<Message("peerList", n, m.from, Peers(n) \ {m.from})>>
      <3>1. /\ Open(n, "getPeerList", e) /\ put(n, s)
            /\ UNCHANGED <<created, peerAddressToSocket, socketList>>
        BY <2>3 DEF openGetPeerList, Answer, Open
      <3>2. Proper(n, s)
        BY <1>5 DEF Message
      <3> HIDE DEF s
      <3> QED
        BY <3>1, <3>2
    <2>4. CASE openSendPeerList(n, e, m)
      <3> DEFINE P == {q \in m.body : q \notin Peers(n)}
                 s == ToEach(P, "connect", n, NoNode)
      <3>1. /\ Open(n, "peerList", e) /\ put(n, s)
            /\ UNCHANGED <<created, peerAddressToSocket, socketList>>
        BY <2>4 DEF openSendPeerList, Answer, Open
      <3>2. P \in SUBSET Nodes
        BY <1>1, <1>4, <3>1 DEF Open
      <3> HIDE DEF P
      <3>3. Proper(n, s)
        BY <3>2, ProperAnswer
      <3> HIDE DEF s
      <3> QED
        BY <3>1, <3>3
    <2>5. CASE openData(n, e, m)
      <3>1. /\ Open(n, "data", e)
            /\ UNCHANGED <<created, peerAddressToSocket, socketList, txbuffer>>
        BY <2>5 DEF openData, Open
      <3> QED
        BY <3>1
    <2>6. CASE openFlood(n, e, m)
      <3> DEFINE s == IF m.from \in Peers(n)
                      THEN ToEach(Peers(n) \ {m.from}, "flood", n, m.body)
                      ELSE <<>>
      <3>1. /\ Open(n, "flood", e) /\ put(n, s)
            /\ UNCHANGED <<created, peerAddressToSocket, socketList>>
        BY <2>6 DEF openFlood, Open
      <3>2. Proper(n, s)
        BY ProperAnswer
      <3> HIDE DEF s
      <3> QED
        BY <3>1, <3>2
    <2> QED
      BY <1>0, <1>1, <1>8, <2>1, <2>2, <2>3, <2>4, <2>5, <2>6 DEF msgThread
  <1>9. ASSUME ~openConnectNew(n, e, m), ~openConnectKnown(n, e, m)
        PROVE  AnnounceInv' /\ AloneInv'
    <2>1. PICK kind : Open(n, kind, e) /\ kind # "connect"
      BY <1>8, <1>9
    <2>2. UNCHANGED <<created, peerAddressToSocket, socketList>>
      BY <1>8, <1>9
    <2>3. AloneInv'
      BY <1>0, <1>2, <2>1, <2>2, AloneOpen
    <2>4. CASE UNCHANGED txbuffer
      BY <2>2, <2>3, <2>4 DEF AnnounceInv, Between, Announced
    <2>5. CASE \E s : put(n, s) /\ Proper(n, s)
      BY <2>2, <2>3, <2>5, AnnouncePut
    <2> QED
      BY <1>8, <1>9, <2>4, <2>5
  <1> QED
    BY <1>6, <1>7, <1>9

LEMMA FirstNext ==
  ASSUME RInv, MInv, FirstInv, [Next]_vars
  PROVE  FirstInv'
  <1>1. CASE UNCHANGED vars
    BY <1>1, CalmStays, FirstSame DEF vars, RInv, CallsInv
  <1>2. CASE \E c \in setup.calls : connect(c) \/ getPeerList(c) \/ send(c)
                                      \/ broadcast(c)
    BY <1>2, FirstCall
  <1>3. CASE \E c \in setup.calls : stop(c)
    BY <1>3, MatchStop DEF FirstInv
  <1>4. CASE \E n \in Nodes : start(n)
    <2>1. PICK n \in Nodes : start(n)
      BY <1>4
    <2>2. /\ UNCHANGED <<setup, made, created, backlog, wire, sockets, rxbuffer,
                         txbuffer>>
          /\ up \subseteq up' /\ up' \subseteq Nodes
      BY <2>1 DEF start, RInv, CallsInv
    <2> QED
      BY <2>2, CalmStays, FirstSame
  <1>5. CASE \E n \in Nodes : txThread(n) \/ rxThread(n) \/ msgThread(n)
    <2>1. PICK n \in Nodes : txThread(n) \/ rxThread(n) \/ msgThread(n)
      BY <1>5
    <2>2. UNCHANGED <<setup, made, up>>
      <3>1. CASE txThread(n)
        BY <3>1 DEF txThread, sendOnSocket, sendIntoTheVoid, createSocket, refuse,
           Connected, Transmit
      <3>2. CASE rxThread(n)
        BY <3>2 DEF rxThread, handleNewConnection, handleExistingConnection,
           readInVain, removeSocket, removeResetSocket, EndOfStream
      <3>3. CASE msgThread(n)
        BY <3>3 DEF msgThread, openConnectNew, openConnectKnown,
           openAcceptedConnect, openNewPeerUpdate, openGetPeerList,
           openSendPeerList, openData, openFlood, openFloodSeen, Open
      <3> QED
        BY <2>1, <3>1, <3>2, <3>3
    <2>3. ASSUME setup.late = {}, NobodyStops'
          PROVE  (up = Nodes /\ AnnounceInv /\ AloneInv)'
      <3>1. NobodyStops
        BY <2>2, <2>3, CalmStays
      <3>2. up = Nodes /\ AnnounceInv /\ AloneInv /\ CalmInv /\ TablesMatch
        BY <2>3, <3>1 DEF FirstInv, MInv
      <3> QED
        BY <2>1, <2>2, <3>1, <3>2, FirstTxThread, FirstRxThread, FirstMsgThread
    <2> QED
      BY <2>2, <2>3 DEF FirstInv
  <1> QED
    BY <1>1, <1>2, <1>3, <1>4, <1>5 DEF Next

LEMMA First ==
  Spec => [](RInv /\ FirstInv)
  <1>1. Init => RInv /\ MInv /\ FirstInv
    BY StructureInit, MatchInit, FirstInit
  <1>2. RInv /\ MInv /\ FirstInv /\ [Next]_vars => RInv' /\ MInv' /\ FirstInv'
    BY StructureNext, MatchNext, FirstNext
  <1> QED
    BY <1>1, <1>2, PTL DEF Spec

\* A message waits for ever on a connection that its receiver will not read only
\* if the two created connections to each other: as long as all routers are there
\* from the start and none stops, no other order of calls, connections and
\* messages makes one deaf to a peer (messages.py 35-65).
THEOREM OnlyTheCrossedAreDeaf ==
  Spec => []DeafOnlyIfCrossed
  <1>1. RInv /\ FirstInv => DeafOnlyIfCrossed
    <2> SUFFICES ASSUME RInv, FirstInv, setup.late = {}, NobodyStops,
                        NEW c \in created, NEW n \in Nodes,
                        wire[c][n] # <<>>, c \notin socketList[n] \cup backlog,
                        \A r \in ToSet(rxbuffer[n]) : r.sock # c
                 PROVE  \E k \in created : k[1] = n /\ k[2] = Other(c, n)
      BY DEF DeafOnlyIfCrossed
    <2>1. AloneInv
      BY DEF FirstInv
    <2>2. n \in {c[1], c[2]}
      <3>1. wire[c][n] \in Seq(Incoming(n, c))
        BY DEF RInv, WireInv
      <3>2. Head(wire[c][n]) \in Incoming(n, c)
        BY <3>1, FirstOfSeq
      <3> QED
        BY <3>2 DEF Incoming
    <2>3. CASE n = c[1]
      BY <2>3 DEF Other
    <2>4. CASE n = c[2] /\ n # c[1]
      <3>1. ~Announces(c, c[2])
        BY <2>4 DEF Announces
      <3>2. PICK k \in Between(c[1], c[2]) : k[1] # c[1]
        BY <2>1, <3>1 DEF AloneInv
      <3>3. k \in created /\ k[1] # k[2] /\ {k[1], k[2]} = {c[1], c[2]}
        BY <3>2, EndTypes DEF RInv, Between
      <3> QED
        BY <2>4, <3>2, <3>3 DEF Other
    <2> QED
      BY <2>2, <2>3, <2>4
  <1> QED
    BY <1>1, First, PTL
=============================================================================
