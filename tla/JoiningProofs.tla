---------------------------- MODULE JoiningProofs ----------------------------
(***************************************************************************)
(* Proofs about the joining of a network, for any network, any calls and   *)
(* any number of blocks.  Everything under way, in whatever queue or        *)
(* thread, is bounded by the chain of the miner: a chain is no longer and  *)
(* a block is one of its blocks.  And a chain that comes from a node that  *)
(* has one from the start is not empty, wherever it is: so the thread that *)
(* a chain is notified to has one, in its queue or taken from there.       *)
(***************************************************************************)
EXTENDS Joining, SequenceTheorems, WellFoundedInduction, TLAPS

USE DEF user, router, handler, queues, node

-----------------------------------------------------------------------------
(* Sequences.                                                              *)

LEMMA WiderSeq ==
  ASSUME NEW S, NEW T, S \subseteq T, NEW s \in Seq(S)
  PROVE  s \in Seq(T)
  OBVIOUS

LEMMA FirstOfSeq ==
  ASSUME NEW S, NEW s \in Seq(S), s # <<>>
  PROVE  /\ Head(s) \in S /\ Tail(s) \in Seq(S) /\ Head(s) \in ToSet(s)
         /\ \A x \in ToSet(s) : x = Head(s) \/ x \in ToSet(Tail(s))
  <1>1. Len(s) \in Nat \ {0} /\ DOMAIN s = 1..Len(s)
    BY EmptySeq
  <1>2. Head(s) = s[1] /\ Head(s) \in S /\ Tail(s) \in Seq(S)
        /\ Len(Tail(s)) = Len(s) - 1
        /\ \A i \in 1..(Len(s) - 1) : Tail(s)[i] = s[i + 1]
    BY <1>1
  <1>3. ASSUME NEW x \in ToSet(s), x # Head(s)
        PROVE  x \in ToSet(Tail(s))
    <2>1. PICK i \in 1..Len(s) : x = s[i]
      BY <1>1 DEF ToSet
    <2>2. i - 1 \in 1..(Len(s) - 1) /\ Tail(s)[i - 1] = x
      BY <1>1, <1>2, <1>3, <2>1
    <2>3. DOMAIN Tail(s) = 1..(Len(s) - 1)
      BY <1>1, <1>2
    <2> QED
      BY <2>2, <2>3 DEF ToSet
  <1> QED
    BY <1>1, <1>2, <1>3 DEF ToSet

LEMMA AppendToSet ==
  ASSUME NEW S, NEW s \in Seq(S), NEW x \in S
  PROVE  Append(s, x) \in Seq(S) /\ ToSet(Append(s, x)) = ToSet(s) \cup {x}
  <1>1. Append(s, x) \in Seq(S) /\ Len(Append(s, x)) = Len(s) + 1
        /\ Len(s) \in Nat /\ DOMAIN s = 1..Len(s)
        /\ DOMAIN Append(s, x) = 1..(Len(s) + 1)
        /\ Append(s, x)[Len(s) + 1] = x
        /\ \A i \in 1..Len(s) : Append(s, x)[i] = s[i]
    BY AppendProperties
  <1>2. 1..(Len(s) + 1) = 1..Len(s) \cup {Len(s) + 1}
    BY <1>1
  <1> QED
    BY <1>1, <1>2 DEF ToSet

-----------------------------------------------------------------------------
(* What a node may send, and what it does to the wire.                     *)

OnWire(w) ==
  /\ DOMAIN w = Nodes
  /\ \A n \in Nodes : /\ DOMAIN w[n] = Nodes
                      /\ \A q \in Nodes : w[n][q] \in Seq(Sendable(n))

\* The setup is one of those that are given.
LEMMA SetupTypes ==
  ASSUME SetupInv
  PROVE  /\ setup.members \subseteq Nodes /\ setup.miner \in setup.members
         /\ setup.calls \in Seq([by : Nodes, to : Nodes])
         /\ \A i \in DOMAIN setup.calls :
              setup.calls[i].by \in Nodes /\ setup.calls[i].to \in Nodes
  <1>1. /\ setup.members \subseteq Nodes /\ setup.miner \in setup.members
        /\ setup.calls \in Seq([by : Nodes, to : Nodes])
    <2>1. setup \in Setups
      BY DEF SetupInv
    <2> QED
      BY <2>1, JoiningAssumption
  <1>2. \A i \in DOMAIN setup.calls : setup.calls[i] \in [by : Nodes, to : Nodes]
    <2>1. DOMAIN setup.calls = 1..Len(setup.calls)
      BY <1>1
    <2> QED
      BY <1>1, <2>1, ElementOfSeq
  <1> QED
    BY <1>1, <1>2

\* A signal is never wrong, and neither is a block or a chain of the right size.
LEMMA MaySend ==
  ASSUME NEW q \in Nodes, NEW v \in Nat, chain[setup.miner] \in Nat,
         v <= chain[setup.miner]
  PROVE  /\ Message("connect", 0) \in Sendable(q)
         /\ Message("accepted", 0) \in Sendable(q)
         /\ Message("request", 0) \in Sendable(q)
         /\ v > 0 \/ q \notin setup.members => Message("chain", v) \in Sendable(q)
         /\ v \in 1..(chain[setup.miner] - 1) => Message("block", v) \in Sendable(q)
  BY DEF Message, Sendable, Kinds

LEMMA SentOnWire ==
  ASSUME NEW w, OnWire(w), NEW n \in Nodes, NEW to, NEW m \in Sendable(n)
  PROVE  OnWire(Sent(w, n, to, m))
  <1> DEFINE v == Sent(w, n, to, m)
  <1>1. /\ DOMAIN v = Nodes /\ \A p \in Nodes : DOMAIN v[p] = Nodes
        /\ \A p, q \in Nodes :
             v[p][q] = IF p = n /\ q \in to THEN Append(w[p][q], m) ELSE w[p][q]
    BY DEF OnWire, Sent
  <1>2. \A p, q \in Nodes : v[p][q] \in Seq(Sendable(p))
    <2>1. \A p, q \in Nodes : w[p][q] \in Seq(Sendable(p))
      BY DEF OnWire
    <2>2. \A q \in Nodes : Append(w[n][q], m) \in Seq(Sendable(n))
      BY <2>1
    <2> HIDE DEF v
    <2>3. ASSUME NEW p \in Nodes, NEW q \in Nodes
          PROVE  v[p][q] \in Seq(Sendable(p))
      <3>1. CASE p = n /\ q \in to
        BY <1>1, <2>2, <3>1
      <3>2. CASE ~(p = n /\ q \in to)
        BY <1>1, <2>1, <3>2
      <3> QED
        BY <3>1, <3>2
    <2> QED
      BY <2>3
  <1> QED
    BY <1>1, <1>2 DEF OnWire

LEMMA TakenOnWire ==
  ASSUME NEW w, OnWire(w), NEW q \in Nodes, NEW n \in Nodes, w[q][n] # <<>>
  PROVE  OnWire(Taken(w, q, n)) /\ Head(w[q][n]) \in Sendable(q)
  <1> DEFINE v == Taken(w, q, n)
  <1>1. w[q][n] \in Seq(Sendable(q))
    BY DEF OnWire
  <1>2. Head(w[q][n]) \in Sendable(q) /\ Tail(w[q][n]) \in Seq(Sendable(q))
    BY <1>1, FirstOfSeq
  <1>3. /\ DOMAIN v = Nodes /\ \A p \in Nodes : DOMAIN v[p] = Nodes
        /\ \A p, r \in Nodes :
             v[p][r] = IF p = q /\ r = n THEN Tail(w[p][r]) ELSE w[p][r]
    BY DEF OnWire, Taken
  <1> QED
    BY <1>2, <1>3 DEF OnWire

LEMMA SendsOnWire ==
  ASSUME ChainInv, SetupInv, NEW w, OnWire(w), NEW n \in Nodes, NEW q \in Nodes
  PROVE  /\ OnWire(Connects(w, n, q))
         /\ \A m \in Sendable(n) : OnWire(Sends(w, n, q, m))
  <1>1. chain[setup.miner] \in Nat
    BY SetupTypes DEF ChainInv
  <1>2. Message("connect", 0) \in Sendable(n)
    BY <1>1, MaySend
  <1>3. OnWire(Connects(w, n, q))
    BY <1>2, SentOnWire DEF Connects
  <1> QED
    BY <1>3, SentOnWire DEF Sends

-----------------------------------------------------------------------------
(* Steps that leave the chains alone.                                      *)

\* What can be sent depends on the chain of the miner only, and what is under
\* way stays good when it grows.
LEMMA SendableGrows ==
  ASSUME SetupInv, UNCHANGED setup, chain[setup.miner] \in Nat,
         chain'[setup.miner] \in Nat,
         chain[setup.miner] <= chain'[setup.miner]
  PROVE  /\ \A q \in Nodes : Sendable(q) \subseteq Sendable(q)'
         /\ Letters \subseteq Letters'
  <1>1. 0..chain[setup.miner] \subseteq 0..chain'[setup.miner]
        /\ 1..(chain[setup.miner] - 1) \subseteq 1..(chain'[setup.miner] - 1)
    OBVIOUS
  <1>2. ASSUME NEW q
        PROVE  Sendable(q) \subseteq Sendable(q)'
    BY <1>1 DEF Sendable
  <1>3. Letters \subseteq Letters'
    BY <1>1, <1>2 DEF Letters
  <1> QED
    BY <1>2, <1>3

LEMMA SameSendable ==
  ASSUME UNCHANGED <<setup, chain>>
  PROVE  /\ \A q \in Nodes : Sendable(q)' = Sendable(q)
         /\ Letters' = Letters
  BY DEF Sendable, Letters

\* A step of the router, or of a call, up to the buffer for the data handler.
LEMMA RouterStep ==
  ASSUME JInv, OnWire(wire'), PeersInv', stage' \in [DOMAIN setup.calls -> Stages],
         UNCHANGED <<setup, answered, handler, queues, turn, reply, chain,
                     orphanBlocks>>,
         broadcasting' => broadcasting
  PROVE  JInv'
  <1> USE DEF JInv
  <1>1. SetupInv' /\ ChainInv'
    BY DEF SetupInv, ChainInv
  <1>2. WireInv'
    BY SameSendable DEF OnWire, WireInv
  <1>3. QueueInv'
    BY SameSendable DEF QueueInv
  <1>4. ReplyInv' /\ LetterInv' /\ AnswerIsHere'
    BY SameSendable DEF ReplyInv, LetterInv, AnswerIsHere, HasChain
  <1> QED
    BY <1>1, <1>2, <1>3, <1>4

\* The calls of connectToNode and the notice that a peer has accepted.
LEMMA CallStep ==
  ASSUME JInv, UNCHANGED <<setup, answered, peers, newPeerQueue, hasSeenMessage,
                           handler, queues, node>>,
         stage' \in [DOMAIN setup.calls -> Stages], OnWire(wire')
  PROVE  JInv'
  <1>1. PeersInv'
    BY DEF JInv, PeersInv
  <1> QED
    BY <1>1, RouterStep

LEMMA ConnectToNodeInv ==
  ASSUME JInv, NEW i \in DOMAIN setup.calls, connect(i) \/ connectToNode(i)
  PROVE  JInv'
  <1> DEFINE n == setup.calls[i].by
  <1> DEFINE q == setup.calls[i].to
  <1> USE DEF JInv
  <1>1. n \in Nodes /\ q \in Nodes /\ OnWire(wire)
        /\ chain[setup.miner] \in Nat
    BY SetupTypes DEF ChainInv, WireInv, OnWire
  <1>2. OnWire(Connects(wire, n, q))
        /\ OnWire(Sends(wire, n, q, Message("request", 0)))
    BY <1>1, MaySend, SendsOnWire
  <1>3. stage' \in [DOMAIN setup.calls -> Stages]
    BY DEF connect, connectToNode, waitForAccept, acceptTimeout, sendRequest,
           waitOnData, dataTimeout, Stage, SetupInv, Stages
  <1>4. OnWire(wire')
    BY <1>1, <1>2
       DEF connect, connectToNode, waitForAccept, acceptTimeout, sendRequest,
           waitOnData, dataTimeout
  <1> QED
    BY <1>3, <1>4, CallStep
       DEF connect, connectToNode, waitForAccept, acceptTimeout, sendRequest,
           waitOnData, dataTimeout

LEMMA CreateSocketInv ==
  ASSUME JInv, NEW n \in Nodes, createSocket(n)
  PROVE  JInv'
  <1> USE DEF JInv
  <1>1. PICK q \in Nodes : peers' = [peers EXCEPT ![n] = @ \cup {q}]
    BY DEF createSocket
  <1>2. PeersInv'
    <2>1. \A p \in Nodes : peers[p] \subseteq peers'[p]
      BY <1>1 DEF PeersInv
    <2>2. peers' \in [Nodes -> SUBSET Nodes] /\ UNCHANGED newPeerQueue
      BY <1>1 DEF PeersInv, createSocket
    <2> QED
      BY <2>1, <2>2, WiderSeq DEF PeersInv
  <1>3. OnWire(wire')
    BY DEF createSocket, WireInv, OnWire
  <1> QED
    BY <1>2, <1>3, RouterStep DEF createSocket, SetupInv

\* What is opened was on the wire.
LEMMA OpensLetter ==
  ASSUME JInv, NEW n \in Nodes, NEW q \in Nodes, NEW kind, Arrives(n, q, kind)
  PROVE  /\ OnWire(Taken(wire, q, n)) /\ Head(wire[q][n]) \in Sendable(q)
         /\ Letter(q, Head(wire[q][n])) \in Letters
  <1>1. OnWire(wire) /\ wire[q][n] # <<>>
    BY DEF JInv, WireInv, OnWire, Arrives
  <1>2. OnWire(Taken(wire, q, n)) /\ Head(wire[q][n]) \in Sendable(q)
    BY <1>1, TakenOnWire
  <1>3. ASSUME NEW m \in Sendable(q)
        PROVE  Letter(q, m) \in Letters
    BY DEF Letter, Letters, Sendable
  <1> QED
    BY <1>2, <1>3

LEMMA OpenConnectInv ==
  ASSUME JInv, NEW n \in Nodes, NEW q \in Nodes, openConnect(n, q)
  PROVE  JInv'
  <1> USE DEF JInv
  <1>1. OnWire(Taken(wire, q, n))
    BY OpensLetter DEF openConnect
  <1>2. Message("accepted", 0) \in Sendable(n)
    BY SetupTypes, MaySend DEF ChainInv
  <1>3. OnWire(wire')
    BY <1>1, <1>2, SentOnWire DEF openConnect
  <1>4. peers' = [peers EXCEPT ![n] = @ \cup {q}]
        /\ newPeerQueue' = IF q \in peers[n] THEN newPeerQueue
                           ELSE [newPeerQueue EXCEPT ![n] = Append(@, q)]
    BY DEF openConnect
  <1>5. PeersInv'
    <2>1. /\ peers' \in [Nodes -> SUBSET Nodes] /\ q \in peers'[n]
          /\ \A p \in Nodes : peers[p] \subseteq peers'[p]
      BY <1>4 DEF PeersInv
    <2>2. \A p \in Nodes : newPeerQueue[p] \in Seq(peers'[p])
      BY <2>1, WiderSeq DEF PeersInv
    <2>3. Append(newPeerQueue[n], q) \in Seq(peers'[n])
      BY <2>1, <2>2
    <2> QED
      BY <1>4, <2>1, <2>2, <2>3 DEF PeersInv
  <1> QED
    BY <1>3, <1>5, RouterStep DEF openConnect, SetupInv

LEMMA OpenAcceptedInv ==
  ASSUME JInv, NEW n \in Nodes, NEW q \in Nodes, openAccepted(n, q)
  PROVE  JInv'
  <1>1. OnWire(wire')
    BY OpensLetter DEF openAccepted
  <1>2. stage' \in [DOMAIN setup.calls -> Stages]
    BY DEF openAccepted, JInv, SetupInv, Stages
  <1> QED
    BY <1>1, <1>2, CallStep DEF openAccepted

\* A step that puts what is opened in the buffer for the data handler.
LEMMA BufferStep ==
  ASSUME JInv, NEW n \in Nodes, NEW l \in Letters, OnWire(wire'),
         databuffer' \in {databuffer, [databuffer EXCEPT ![n] = Append(@, l)]},
         UNCHANGED <<setup, user, peers, newPeerQueue, letter, queues, node>>
  PROVE  JInv'
  <1> USE DEF JInv
  <1>1. SetupInv' /\ PeersInv' /\ ChainInv'
    BY DEF SetupInv, PeersInv, ChainInv
  <1>2. WireInv'
    BY SameSendable DEF OnWire, WireInv
  <1>3. DOMAIN databuffer' = Nodes
        /\ \A p \in Nodes : databuffer'[p] \in Seq(Letters)
    <2>1. DOMAIN databuffer = Nodes
          /\ \A p \in Nodes : databuffer[p] \in Seq(Letters)
      BY DEF QueueInv
    <2>2. Append(databuffer[n], l) \in Seq(Letters)
      BY <2>1
    <2> QED
      BY <2>1, <2>2
  <1>4. QueueInv'
    BY <1>3, SameSendable DEF QueueInv
  <1>5. ReplyInv' /\ LetterInv' /\ AnswerIsHere'
    BY SameSendable DEF ReplyInv, LetterInv, AnswerIsHere, HasChain
  <1> QED
    BY <1>1, <1>2, <1>4, <1>5

LEMMA OpenDataInv ==
  ASSUME JInv, NEW n \in Nodes, NEW q \in Nodes, openData(n, q)
  PROVE  JInv'
  <1>1. PICK kind : Arrives(n, q, kind)
    BY DEF openData
  <1> DEFINE l == Letter(q, Head(wire[q][n]))
  <1>2. OnWire(Taken(wire, q, n)) /\ l \in Letters
    BY <1>1, OpensLetter
  <1>3. /\ wire' = Taken(wire, q, n)
        /\ databuffer' = [databuffer EXCEPT ![n] = Append(@, l)]
        /\ UNCHANGED <<setup, user, peers, newPeerQueue, letter, queues, node>>
    BY DEF openData
  <1> HIDE DEF l
  <1> QED
    BY <1>2, <1>3, BufferStep

LEMMA OpenBroadcastInv ==
  ASSUME JInv, NEW n \in Nodes, NEW q \in Nodes, openBroadcast(n, q)
  PROVE  JInv'
  <1> DEFINE m == Head(wire[q][n])
  <1> DEFINE l == Letter(q, m)
  <1>1. Arrives(n, q, "block")
    BY DEF openBroadcast
  <1>2. OnWire(Taken(wire, q, n)) /\ m \in Sendable(q) /\ l \in Letters
    BY <1>1, OpensLetter
  <1>3. m \in Sendable(n)
    BY <1>1, <1>2 DEF Arrives, Sendable
  <1>4. OnWire(Sent(Taken(wire, q, n), n, peers[n] \ {q}, m))
    BY <1>2, <1>3, SentOnWire
  <1>5. /\ wire' \in {Taken(wire, q, n),
                      Sent(Taken(wire, q, n), n, peers[n] \ {q}, m)}
        /\ databuffer' \in {databuffer, [databuffer EXCEPT ![n] = Append(@, l)]}
        /\ UNCHANGED <<setup, user, peers, newPeerQueue, letter, queues, node>>
    BY DEF openBroadcast
  <1> HIDE DEF l, m
  <1> QED
    BY <1>2, <1>4, <1>5, BufferStep

LEMMA PeerWatcherInv ==
  ASSUME JInv, NEW n \in Nodes, peerWatcherThread(n)
  PROVE  JInv'
  <1> USE DEF JInv
  <1> DEFINE q == Head(newPeerQueue[n])
  <1>1. /\ newPeerQueue[n] # <<>> /\ newPeerQueue[n] \in Seq(peers[n])
        /\ newPeerQueue' = [newPeerQueue EXCEPT ![n] = Tail(@)]
        /\ UNCHANGED peers
    BY DEF peerWatcherThread, PeersInv
  <1>2. q \in Nodes /\ Tail(newPeerQueue[n]) \in Seq(peers[n])
    BY <1>1, FirstOfSeq DEF PeersInv
  <1>3. PeersInv'
    BY <1>1, <1>2 DEF PeersInv
  <1>4. OnWire(wire) /\ Message("request", 0) \in Sendable(n)
    BY SetupTypes, MaySend DEF ChainInv, WireInv, OnWire
  <1>5. OnWire(wire')
    <2>1. wire' = Sends(wire, n, q, Message("request", 0))
      BY DEF peerWatcherThread
    <2> QED
      BY <1>2, <1>4, <2>1, SendsOnWire
  <1> QED
    BY <1>3, <1>5, RouterStep DEF peerWatcherThread, SetupInv

\* What is broadcast is the last block of the miner's chain.
LEMMA BroadcastBlockInv ==
  ASSUME JInv, NEW n \in Nodes, broadcastBlock(n)
  PROVE  JInv'
  <1> USE DEF JInv
  <1>1. /\ n = setup.miner /\ chain[n] > 1 /\ chain[n] \in Nat
        /\ wire' = Sent(wire, n, peers[n], Message("block", chain[n] - 1))
    BY DEF broadcastBlock, ChainInv
  <1>2. chain[n] - 1 \in 1..(chain[setup.miner] - 1) /\ chain[n] - 1 \in Nat
    BY <1>1
  <1>3. OnWire(wire) /\ Message("block", chain[n] - 1) \in Sendable(n)
    BY <1>1, <1>2, MaySend DEF WireInv, OnWire
  <1>4. OnWire(wire')
    BY <1>1, <1>3, SentOnWire
  <1>5. PeersInv'
    BY DEF PeersInv, broadcastBlock
  <1> QED
    BY <1>4, <1>5, RouterStep DEF broadcastBlock, SetupInv

-----------------------------------------------------------------------------
(* The data handler.                                                       *)

\* The first half: the letter goes to the queue that it is for.
LEMMA SortDataInv ==
  ASSUME JInv, NEW n \in Nodes, sortData(n)
  PROVE  JInv'
  <1> USE DEF JInv
  <1> DEFINE l == Head(databuffer[n])
  <1>1. /\ UNCHANGED <<setup, user, router, node>>
        /\ databuffer' = [databuffer EXCEPT ![n] = Tail(@)]
        /\ letter' = [letter EXCEPT ![n] = IF l.kind = "chain" THEN l ELSE @]
        /\ requests' = Queued(requests, n, l, "request", l.from)
        /\ blockchains' = Queued(blockchains, n, l, "chain", l.value)
        /\ blocks' = Queued(blocks, n, l, "block", l.value)
        /\ letter[n] = NoLetter
    BY DEF sortData, Sort
  <1>2. l \in Letters /\ Tail(databuffer[n]) \in Seq(Letters)
    BY FirstOfSeq DEF sortData, QueueInv
  <1> HIDE DEF l
  <1>3. /\ l.from \in Nodes /\ l.value \in 0..chain[setup.miner]
        /\ l.kind = "block" => l.value \in 1..(chain[setup.miner] - 1)
        /\ l.kind = "chain" /\ l.from \in setup.members => l.value > 0
    BY <1>2 DEF Letters, Sendable
  <1>4. SetupInv' /\ PeersInv' /\ ChainInv' /\ ReplyInv'
    BY <1>1 DEF SetupInv, PeersInv, ChainInv, ReplyInv
  <1>5. WireInv'
    BY <1>1, SameSendable DEF WireInv
  <1>6. /\ DOMAIN requests' = Nodes
        /\ \A p \in Nodes : requests'[p] \in Seq(Nodes)
    BY <1>1, <1>3 DEF QueueInv, Queued
  <1>7. /\ DOMAIN blockchains' = Nodes
        /\ \A p \in Nodes : /\ blockchains'[p] \in Seq(0..chain[setup.miner])
                            /\ ToSet(blockchains[p]) \subseteq ToSet(blockchains'[p])
        /\ l.kind = "chain" => l.value \in ToSet(blockchains'[n])
    <2>1. DOMAIN blockchains = Nodes
          /\ \A p \in Nodes : blockchains[p] \in Seq(0..chain[setup.miner])
      BY DEF QueueInv
    <2>2. /\ Append(blockchains[n], l.value) \in Seq(0..chain[setup.miner])
          /\ ToSet(Append(blockchains[n], l.value))
               = ToSet(blockchains[n]) \cup {l.value}
      <3> DEFINE S == 0..chain[setup.miner]
      <3> DEFINE x == l.value
      <3>1. x \in S /\ blockchains[n] \in Seq(S)
        BY <1>3, <2>1
      <3> HIDE DEF S, x
      <3>2. Append(blockchains[n], x) \in Seq(S)
            /\ ToSet(Append(blockchains[n], x)) = ToSet(blockchains[n]) \cup {x}
        BY <3>1, AppendToSet
      <3> QED
        BY <3>2 DEF S, x
    <2>3. CASE l.kind = "chain"
      <3>1. blockchains' = [blockchains EXCEPT ![n] = Append(@, l.value)]
        BY <1>1, <2>3 DEF Queued
      <3>2. DOMAIN blockchains' = Nodes
            /\ blockchains'[n] = Append(blockchains[n], l.value)
            /\ \A p \in Nodes \ {n} : blockchains'[p] = blockchains[p]
        BY <2>1, <3>1
      <3> QED
        BY <2>1, <2>2, <3>2, Zenon
    <2>4. CASE l.kind # "chain"
      BY <1>1, <2>1, <2>4 DEF Queued
    <2> QED
      BY <2>3, <2>4
  <1>8. /\ DOMAIN blocks' = Nodes
        /\ \A p \in Nodes : blocks'[p] \in Seq(1..(chain[setup.miner] - 1))
    <2>1. DOMAIN blocks = Nodes
          /\ \A p \in Nodes : blocks[p] \in Seq(1..(chain[setup.miner] - 1))
      BY DEF QueueInv
    <2>2. CASE l.kind = "block"
      <3>1. Append(blocks[n], l.value) \in Seq(1..(chain[setup.miner] - 1))
        BY <1>3, <2>1, <2>2
      <3> QED
        BY <1>1, <2>1, <2>2, <3>1 DEF Queued
    <2>3. CASE l.kind # "block"
      BY <1>1, <2>1, <2>3 DEF Queued
    <2> QED
      BY <2>2, <2>3
  <1>9. QueueInv'
    <2>1. DOMAIN databuffer' = Nodes /\ DOMAIN letter' = Nodes
          /\ \A p \in Nodes : databuffer'[p] \in Seq(Letters)
      BY <1>1, <1>2 DEF QueueInv
    <2> QED
      BY <1>1, <1>6, <1>7, <1>8, <2>1, SameSendable DEF QueueInv
  <1>10. \A p \in Nodes : HasChain(p) => HasChain(p)'
    BY <1>1, <1>7 DEF HasChain
  <1>11. LetterInv'
    <2>1. l.kind = "chain" /\ l.from \in setup.members => HasChain(n)'
      BY <1>3, <1>7 DEF HasChain
    <2>2. \A p \in Nodes : letter'[p] = letter[p] \/ (p = n /\ letter'[p] = l)
      BY <1>1 DEF QueueInv
    <2> QED
      BY <1>1, <1>2, <1>10, <2>1, <2>2, SameSendable DEF LetterInv
  <1>12. AnswerIsHere'
    <2>1. \A i \in DOMAIN setup.calls : setup.calls[i].by \in Nodes
      BY SetupTypes
    <2> QED
      BY <1>1, <1>10, <2>1 DEF AnswerIsHere
  <1> QED
    BY <1>4, <1>5, <1>9, <1>11, <1>12

\* The second half: who is notified has a chain.
LEMMA NotifyWaitingInv ==
  ASSUME JInv, NEW n \in Nodes, notifyWaiting(n)
  PROVE  JInv'
  <1> USE DEF JInv
  <1> DEFINE heard == Waiting(n, letter[n].from, "expecting")
  <1>1. /\ UNCHANGED <<setup, router, databuffer, queues, node>>
        /\ letter' = [letter EXCEPT ![n] = NoLetter] /\ letter[n] # NoLetter
        /\ stage' = [i \in DOMAIN stage |->
                       IF i \in heard THEN "done" ELSE stage[i]]
        /\ answered' = [i \in DOMAIN answered |-> answered[i] \/ i \in heard]
    BY DEF notifyWaiting
  <1>2. SetupInv'
    BY <1>1 DEF SetupInv, Stages
  <1>3. PeersInv' /\ ChainInv' /\ ReplyInv'
    BY <1>1 DEF PeersInv, ChainInv, ReplyInv
  <1>4. WireInv' /\ QueueInv'
    BY <1>1, SameSendable DEF WireInv, QueueInv
  <1>5. \A p \in Nodes : HasChain(p)' = HasChain(p)
    BY <1>1 DEF HasChain
  <1>6. LetterInv'
    BY <1>1, <1>5, SameSendable DEF LetterInv, QueueInv
  <1>7. AnswerIsHere'
    <2> SUFFICES ASSUME NEW i \in DOMAIN setup.calls, answered'[i],
                        setup.calls[i].to \in setup.members
                 PROVE  HasChain(setup.calls[i].by)'
      BY <1>1 DEF AnswerIsHere
    <2>1. setup.calls[i].by \in Nodes
      BY SetupTypes
    <2>2. CASE answered[i]
      BY <1>1, <1>5, <2>1, <2>2 DEF AnswerIsHere
    <2>3. CASE i \in heard
      <3>1. setup.calls[i] = [by |-> n, to |-> letter[n].from]
        BY <2>3 DEF Waiting
      <3> QED
        BY <1>1, <1>5, <3>1 DEF LetterInv
    <2> QED
      BY <1>1, <2>2, <2>3 DEF SetupInv
  <1> QED
    BY <1>2, <1>3, <1>4, <1>6, <1>7

-----------------------------------------------------------------------------
(* The loop over the orphans.                                              *)

LEMMA LeastNat ==
  ASSUME NEW S, S \subseteq Nat, S # {}
  PROVE  \E n \in S : \A m \in S : n <= m
  <1>1. PICK n \in S : \A m \in S : ~(<<m, n>> \in OpToRel(<, Nat))
    BY WFMin, NatLessThanWellFounded
  <1>2. \A m \in S : ~(m < n)
    BY <1>1 DEF OpToRel
  <1> QED
    BY <1>2

\* The visits up to the k-th orphan.
IsLoop(m, k, length, orphans) ==
  m = [i \in 0..k |-> IF i = 0 THEN [length |-> length, listed |-> <<>>]
                      ELSE Visit(m[i - 1], orphans[i])]

\* The recursive function in Merged exists: for the least number of orphans for
\* which it would not, the one for an orphan less can be extended.
LEMMA LoopExists ==
  ASSUME NEW length, NEW orphans, NEW k \in Nat
  PROVE  \E m : IsLoop(m, k, length, orphans)
  <1> DEFINE z == [length |-> length, listed |-> <<>>]
  <1> DEFINE bad == {j \in Nat : ~\E m : IsLoop(m, j, length, orphans)}
  <1> SUFFICES ASSUME bad # {} PROVE FALSE
    OBVIOUS
  <1>1. PICK j \in bad : \A h \in bad : j <= h
    BY LeastNat
  <1>2. j \in Nat /\ ~\E m : IsLoop(m, j, length, orphans)
    OBVIOUS
  <1>3. CASE j = 0
    <2> DEFINE m == [i \in 0..0 |-> z]
    <2>1. m = [i \in 0..0 |-> IF i = 0 THEN z ELSE Visit(m[i - 1], orphans[i])]
      <3>1. \A i \in 0..0 : i = 0
        OBVIOUS
      <3> QED
        BY <3>1
    <2> QED
      BY <1>2, <1>3, <2>1 DEF IsLoop
  <1>4. CASE j > 0
    <2>1. j - 1 \in Nat /\ j - 1 \notin bad
      BY <1>1, <1>2, <1>4
    <2>2. PICK g : IsLoop(g, j - 1, length, orphans)
      BY <2>1
    <2> DEFINE m == [i \in 0..j |-> IF i = j THEN Visit(g[j - 1], orphans[j])
                                    ELSE g[i]]
    <2>3. \A i \in 0..(j - 1) : g[i] = IF i = 0 THEN z
                                       ELSE Visit(g[i - 1], orphans[i])
      BY <2>2 DEF IsLoop
    <2>4. \A i \in 0..j : m[i] = IF i = 0 THEN z ELSE Visit(m[i - 1], orphans[i])
      <3> SUFFICES ASSUME NEW i \in 0..j
                   PROVE  m[i] = IF i = 0 THEN z ELSE Visit(m[i - 1], orphans[i])
        OBVIOUS
      <3>1. CASE i = j
        <4>1. m[j] = Visit(g[j - 1], orphans[j]) /\ m[j - 1] = g[j - 1]
          BY <1>2, <1>4
        <4> QED
          BY <1>4, <3>1, <4>1
      <3>2. CASE i # j
        <4>1. m[i] = g[i] /\ i \in 0..(j - 1)
          BY <1>2, <3>2
        <4>2. i # 0 => m[i - 1] = g[i - 1]
          BY <1>2, <3>2
        <4> QED
          BY <2>3, <4>1, <4>2
      <3> QED
        BY <3>1, <3>2
    <2>5. DOMAIN m = 0..j
      OBVIOUS
    <2> HIDE DEF m
    <2>6. m = [i \in 0..j |-> m[i]]
      <3>1. m = [i \in DOMAIN m |-> m[i]]
        BY DEF m
      <3> QED
        BY <2>5, <3>1
    <2>7. IsLoop(m, j, length, orphans)
      BY <2>4, <2>6 DEF IsLoop
    <2> QED
      BY <1>2, <2>7
  <1> QED
    BY <1>2, <1>3, <1>4

\* The merged chain is at least as long, and no longer than its orphans allow.
LEMMA MergedType ==
  ASSUME NEW top \in Nat, NEW length \in 0..top, NEW orphans \in Seq(1..(top - 1))
  PROVE  /\ Merged(length, orphans).length \in length..top
         /\ Merged(length, orphans).listed \in Seq(1..(top - 1))
  <1> DEFINE S == [length : length..top, listed : Seq(1..(top - 1))]
  <1> DEFINE z == [length |-> length, listed |-> <<>>]
  <1> DEFINE n == Len(orphans)
  <1> DEFINE m == CHOOSE f : IsLoop(f, n, length, orphans)
  <1>1. n \in Nat /\ \A i \in 1..n : orphans[i] \in 1..(top - 1)
    OBVIOUS
  <1>2. IsLoop(m, n, length, orphans)
    BY <1>1, LoopExists
  <1>3. Merged(length, orphans) = m[n]
    BY DEF Merged, IsLoop
  <1> HIDE DEF m
  <1>4. \A i \in 0..n : m[i] = IF i = 0 THEN z ELSE Visit(m[i - 1], orphans[i])
    BY <1>2 DEF IsLoop
  <1>5. z \in S
    OBVIOUS
  <1>6. ASSUME NEW x \in S, NEW b \in 1..(top - 1)
        PROVE  Visit(x, b) \in S
    <2>1. x.length \in length..top /\ x.listed \in Seq(1..(top - 1))
      BY <1>6
    <2>2. Append(x.listed, b) \in Seq(1..(top - 1))
      BY <2>1
    <2>3. (IF b = x.length THEN b + 1 ELSE x.length) \in length..top
      BY <1>6, <2>1
    <2> QED
      BY <1>6, <2>1, <2>2, <2>3 DEF Visit
  <1> DEFINE bad == {i \in 0..n : m[i] \notin S}
  <1> HIDE DEF S, z
  <1>7. bad = {}
    <2> SUFFICES ASSUME bad # {} PROVE FALSE
      OBVIOUS
    <2>1. PICK i \in bad : \A h \in bad : i <= h
      <3>1. bad \subseteq Nat
        BY <1>1
      <3> QED
        BY <3>1, LeastNat
    <2>2. i \in 0..n /\ m[i] \notin S
      OBVIOUS
    <2>3. i # 0
      BY <1>4, <1>5, <2>2
    <2>4. i - 1 \in 0..n /\ i - 1 \notin bad /\ i \in 1..n
      BY <1>1, <2>1, <2>2, <2>3
    <2>5. m[i - 1] \in S
      BY <2>4
    <2>6. m[i] = Visit(m[i - 1], orphans[i])
      BY <1>4, <2>2, <2>3
    <2> QED
      BY <1>1, <1>6, <2>2, <2>4, <2>5, <2>6
  <1>8. m[n] \in S
    BY <1>1, <1>7
  <1> QED
    BY <1>3, <1>8 DEF S

-----------------------------------------------------------------------------
(* The processing thread and the miner.                                    *)

\* After a queue there is another queue.
LEMMA NextTurnType ==
  ASSUME NEW n \in Nodes, NEW kind \in {"requests", "blockchains", "blocks"},
         DOMAIN turn = Nodes, NextTurn(n, kind)
  PROVE  /\ DOMAIN turn' = Nodes /\ turn'[n] # {"reply"}
         /\ \A p \in Nodes \ {n} : turn'[p] = turn[p]
  <1> DEFINE next == {Loop[kind][i] : i \in {k \in 1..3 :
                        \A j \in 1..(k - 1) : Queue(n, Loop[kind][j])' = <<>>}}
  <1>1. turn' = [turn EXCEPT ![n] = next]
    BY DEF NextTurn
  <1>2. \A i \in 1..3 : Loop[kind][i] # "reply"
    <2>1. Loop[kind] \in {<<"blockchains", "blocks", "requests">>,
                          <<"blocks", "requests", "blockchains">>,
                          <<"requests", "blockchains", "blocks">>}
      BY DEF Loop
    <2> QED
      BY <2>1
  <1>3. "reply" \notin next
    BY <1>2
  <1> HIDE DEF next
  <1> QED
    BY <1>1, <1>3

\* A step of the processing thread that leaves the chains alone.
LEMMA ReplyStep ==
  ASSUME JInv, OnWire(wire'), ReplyInv',
         DOMAIN turn' = Nodes, DOMAIN reply' = Nodes, DOMAIN requests' = Nodes,
         \A p \in Nodes : requests'[p] \in Seq(Nodes),
         UNCHANGED <<setup, user, peers, newPeerQueue, handler, blockchains,
                     blocks, chain, orphanBlocks, broadcasting>>
  PROVE  JInv'
  <1> USE DEF JInv
  <1>1. SetupInv' /\ PeersInv' /\ ChainInv'
    BY DEF SetupInv, PeersInv, ChainInv
  <1>2. WireInv'
    BY SameSendable DEF OnWire, WireInv
  <1>3. QueueInv'
    BY SameSendable DEF QueueInv
  <1>4. LetterInv' /\ AnswerIsHere'
    BY SameSendable DEF LetterInv, AnswerIsHere, HasChain
  <1> QED
    BY <1>1, <1>2, <1>3, <1>4

LEMMA CopyBlockchainInv ==
  ASSUME JInv, NEW n \in Nodes, copyBlockchain(n)
  PROVE  JInv'
  <1> USE DEF JInv
  <1> DEFINE q == Head(requests[n])
  <1>1. q \in Nodes /\ Tail(requests[n]) \in Seq(Nodes)
    BY FirstOfSeq DEF copyBlockchain, Takes, Queue, QueueInv
  <1>2. /\ reply' = [reply EXCEPT ![n] = Letter(q, Message("chain", chain[n]))]
        /\ requests' = [requests EXCEPT ![n] = Tail(@)]
        /\ turn' = [turn EXCEPT ![n] = {"reply"}]
        /\ UNCHANGED <<setup, user, router, handler, blockchains, blocks, chain,
                       orphanBlocks, broadcasting>>
    BY DEF copyBlockchain
  <1> HIDE DEF q
  <1>3. DOMAIN turn' = Nodes /\ DOMAIN reply' = Nodes /\ DOMAIN requests' = Nodes
        /\ \A p \in Nodes : requests'[p] \in Seq(Nodes)
    BY <1>1, <1>2 DEF QueueInv
  <1>4. chain[n] \in 0..chain[setup.miner] /\ (n \in setup.members => chain[n] > 0)
    BY SetupTypes DEF ChainInv
  <1>5. ReplyInv'
    <2>1. \A p \in Nodes : p # n => reply'[p] = reply[p] /\ turn'[p] = turn[p]
      BY <1>2 DEF QueueInv
    <2>2. reply'[n].from = q /\ reply'[n].value = chain[n]
      BY <1>2 DEF QueueInv, Letter, Message
    <2> QED
      BY <1>1, <1>2, <1>4, <2>1, <2>2 DEF ReplyInv
  <1>6. OnWire(wire')
    BY <1>2 DEF WireInv, OnWire
  <1> QED
    BY <1>2, <1>3, <1>5, <1>6, ReplyStep

LEMMA SendBlockchainInv ==
  ASSUME JInv, NEW n \in Nodes, sendBlockchain(n)
  PROVE  JInv'
  <1> USE DEF JInv
  <1> DEFINE m == Message("chain", reply[n].value)
  <1>1. /\ turn[n] = {"reply"}
        /\ wire' = Sends(wire, n, reply[n].from, m)
        /\ reply' = [reply EXCEPT ![n] = Letter(n, Message("chain", 0))]
        /\ UNCHANGED <<setup, user, peers, newPeerQueue, handler, queues, chain,
                       orphanBlocks, broadcasting>>
        /\ NextTurn(n, "requests")
    BY DEF sendBlockchain
  <1>2. /\ DOMAIN turn' = Nodes /\ turn'[n] # {"reply"}
        /\ \A p \in Nodes \ {n} : turn'[p] = turn[p]
    BY <1>1, NextTurnType DEF QueueInv
  <1>3. /\ reply[n].from \in Nodes /\ reply[n].value \in 0..chain[setup.miner]
        /\ n \in setup.members => reply[n].value > 0
        /\ chain[setup.miner] \in Nat
    BY <1>1, SetupTypes DEF ReplyInv, ChainInv
  <1>4. m \in Sendable(n)
    BY <1>3, MaySend
  <1>5. OnWire(wire')
    <2>1. OnWire(wire)
      BY DEF WireInv, OnWire
    <2> HIDE DEF m
    <2> QED
      BY <1>1, <1>3, <1>4, <2>1, SendsOnWire
  <1>6. ReplyInv'
    <2>1. \A p \in Nodes : p # n => reply'[p] = reply[p] /\ turn'[p] = turn[p]
      BY <1>1, <1>2 DEF QueueInv
    <2>2. reply'[n].from = n /\ reply'[n].value = 0
      BY <1>1 DEF QueueInv, Letter, Message
    <2> QED
      BY <1>1, <1>2, <1>3, <2>1, <2>2 DEF ReplyInv
  <1>7. DOMAIN reply' = Nodes /\ DOMAIN requests' = Nodes
        /\ \A p \in Nodes : requests'[p] \in Seq(Nodes)
    BY <1>1 DEF QueueInv
  <1> QED
    BY <1>1, <1>2, <1>5, <1>6, <1>7, ReplyStep

\* A step that makes a chain longer, and then that of the miner is still longest.
LEMMA ChainStep ==
  ASSUME JInv, ChainInv',
         \A p \in Nodes : chain[p] <= chain'[p],
         UNCHANGED <<setup, user, router, handler, requests, reply>>,
         DOMAIN blockchains' = Nodes, DOMAIN blocks' = Nodes,
         DOMAIN orphanBlocks' = Nodes, DOMAIN turn' = Nodes,
         \A p \in Nodes :
           /\ blockchains'[p] \in Seq(0..chain[setup.miner])
           /\ blocks'[p] \in Seq(1..(chain[setup.miner] - 1))
           /\ orphanBlocks'[p] \in Seq(1..(chain[setup.miner] - 1))
           /\ HasChain(p) => HasChain(p)'
           /\ turn'[p] = {"reply"} => turn[p] = {"reply"}
  PROVE  JInv'
  <1> USE DEF JInv
  <1> DEFINE old == chain[setup.miner]
  <1> DEFINE new == chain'[setup.miner]
  <1>1. old \in Nat /\ new \in Nat /\ old <= new
    BY SetupTypes DEF ChainInv
  <1>2. /\ \A q \in Nodes : Sendable(q) \subseteq Sendable(q)'
        /\ Letters \subseteq Letters'
    BY <1>1, SendableGrows
  <1>3. SetupInv' /\ PeersInv'
    BY DEF SetupInv, PeersInv
  <1>4. WireInv'
    BY <1>2, WiderSeq DEF WireInv
  <1> DEFINE B == 1..(old - 1)
  <1> DEFINE C == 1..(new - 1)
  <1>5. 0..old \subseteq 0..new /\ B \subseteq C
    BY <1>1
  <1> HIDE DEF old, new, B, C
  <1>6. \A p \in Nodes :
          /\ databuffer'[p] \in Seq(Letters')
          /\ blockchains'[p] \in Seq(0..new)
          /\ blocks'[p] \in Seq(C)
          /\ orphanBlocks'[p] \in Seq(C)
    <2>1. \A p \in Nodes :
            /\ databuffer'[p] \in Seq(Letters)
            /\ blockchains'[p] \in Seq(0..old)
            /\ blocks'[p] \in Seq(B)
            /\ orphanBlocks'[p] \in Seq(B)
      BY DEF QueueInv, old, B
    <2> SUFFICES ASSUME NEW p \in Nodes
                 PROVE  /\ databuffer'[p] \in Seq(Letters')
                        /\ blockchains'[p] \in Seq(0..new)
                        /\ blocks'[p] \in Seq(C)
                        /\ orphanBlocks'[p] \in Seq(C)
      OBVIOUS
    <2>2. databuffer'[p] \in Seq(Letters')
      BY <1>2, <2>1, WiderSeq, Zenon
    <2>3. blockchains'[p] \in Seq(0..new)
      BY <1>5, <2>1, WiderSeq, Zenon
    <2>4. blocks'[p] \in Seq(C)
      BY <1>5, <2>1, WiderSeq, Zenon
    <2>5. orphanBlocks'[p] \in Seq(C)
      BY <1>5, <2>1, WiderSeq, Zenon
    <2> QED
      BY <2>2, <2>3, <2>4, <2>5
  <1>7. QueueInv'
    BY <1>6 DEF QueueInv, new, C
  <1>8. ReplyInv'
    BY <1>5 DEF ReplyInv, old, new
  <1>9. LetterInv'
    BY <1>2 DEF LetterInv
  <1>10. AnswerIsHere'
    BY SetupTypes DEF AnswerIsHere
  <1> QED
    BY <1>3, <1>4, <1>7, <1>8, <1>9, <1>10

\* A chain becomes no longer than the longest, which is the miner's.
LEMMA NoLonger ==
  ASSUME SetupInv, ChainInv, NEW n \in Nodes, NEW l \in 0..chain[setup.miner],
         chain[n] <= l, chain' = [chain EXCEPT ![n] = l],
         UNCHANGED <<setup, broadcasting>>
  PROVE  ChainInv' /\ \A p \in Nodes : chain[p] <= chain'[p]
  <1>1. /\ setup.miner \in Nodes /\ setup.members \subseteq Nodes
        /\ chain[setup.miner] \in Nat /\ l \in Nat /\ l <= chain[setup.miner]
    BY SetupTypes DEF ChainInv
  <1>2. chain' \in [Nodes -> Nat] /\ chain'[n] = l
        /\ \A p \in Nodes \ {n} : chain'[p] = chain[p]
    BY <1>1 DEF ChainInv
  <1>3. \A p \in Nodes : chain[p] <= chain'[p] /\ chain'[p] <= chain[setup.miner]
    BY <1>1, <1>2 DEF ChainInv
  <1>4. chain'[setup.miner] = chain[setup.miner]
    BY <1>1, <1>2, <1>3
  <1>5. \A p \in Nodes : chain[p] \in Nat /\ chain'[p] \in Nat
    BY <1>2 DEF ChainInv
  <1> QED
    BY <1>1, <1>2, <1>3, <1>4, <1>5 DEF ChainInv

LEMMA ProcessBlockchainInv ==
  ASSUME JInv, NEW n \in Nodes, processBlockchain(n)
  PROVE  JInv'
  <1> USE DEF JInv
  <1> DEFINE top == chain[setup.miner]
  <1> DEFINE length == Head(blockchains[n])
  <1> DEFINE merged == Merged(length, orphanBlocks[n])
  <1> DEFINE longest == IF merged.length > chain[n] THEN merged.length
                        ELSE chain[n]
  <1>1. /\ blockchains[n] # <<>>
        /\ blockchains' = [blockchains EXCEPT ![n] = Tail(@)]
        /\ \/ length = 0 /\ UNCHANGED <<chain, orphanBlocks>>
           \/ /\ length # 0
              /\ chain' = [chain EXCEPT ![n] = longest]
              /\ orphanBlocks' = [orphanBlocks EXCEPT ![n] = merged.listed]
        /\ UNCHANGED <<setup, user, router, handler, requests, blocks, reply,
                       broadcasting>>
        /\ NextTurn(n, "blockchains")
    BY DEF processBlockchain, Takes, Queue
  <1>2. /\ top \in Nat /\ chain[n] \in 0..top /\ DOMAIN turn = Nodes
        /\ blockchains[n] \in Seq(0..top) /\ orphanBlocks[n] \in Seq(1..(top - 1))
        /\ DOMAIN blockchains = Nodes /\ DOMAIN orphanBlocks = Nodes
        /\ DOMAIN chain = Nodes
    BY SetupTypes DEF ChainInv, QueueInv
  <1>3. /\ length \in 0..top /\ Tail(blockchains[n]) \in Seq(0..top)
        /\ \A x \in ToSet(blockchains[n]) :
             x = length \/ x \in ToSet(Tail(blockchains[n]))
    <2> HIDE DEF top
    <2> QED
      BY <1>1, <1>2, FirstOfSeq
  <1>4. merged.length \in length..top /\ merged.listed \in Seq(1..(top - 1))
    BY <1>2, <1>3, MergedType
  <1>5. /\ DOMAIN turn' = Nodes
        /\ \A p \in Nodes : turn'[p] = {"reply"} => turn[p] = {"reply"}
    BY <1>1, <1>2, NextTurnType
  <1> HIDE DEF length, merged, top
  <1>6. longest \in 0..top /\ chain[n] <= longest
        /\ (length # 0 => longest > 0)
    BY <1>2, <1>3, <1>4
  <1> HIDE DEF longest
  <1>7. ChainInv' /\ \A p \in Nodes : chain[p] <= chain'[p]
    <2>1. CASE UNCHANGED chain
      BY <1>1, <2>1 DEF ChainInv
    <2>2. CASE chain' = [chain EXCEPT ![n] = longest]
      BY <1>1, <1>6, <2>2, NoLonger DEF top
    <2> QED
      BY <1>1, <2>1, <2>2
  <1>8. /\ DOMAIN blockchains' = Nodes /\ DOMAIN orphanBlocks' = Nodes
        /\ blockchains'[n] = Tail(blockchains[n])
        /\ orphanBlocks'[n] \in Seq(1..(top - 1))
        /\ \A p \in Nodes \ {n} : blockchains'[p] = blockchains[p]
                                  /\ orphanBlocks'[p] = orphanBlocks[p]
                                  /\ chain'[p] = chain[p]
    BY <1>1, <1>2, <1>4
  <1>9. HasChain(n) => HasChain(n)'
    <2>1. CASE length = 0
      <3>1. UNCHANGED chain
        BY <1>1, <2>1
      <3> QED
        BY <1>3, <1>8, <2>1, <3>1 DEF HasChain
    <2>2. CASE length # 0
      <3>1. chain'[n] > 0
        BY <1>1, <1>2, <1>6, <2>2
      <3> QED
        BY <3>1 DEF HasChain
    <2> QED
      BY <2>1, <2>2
  <1>10. \A p \in Nodes :
           /\ blockchains'[p] \in Seq(0..top)
           /\ blocks'[p] \in Seq(1..(top - 1))
           /\ orphanBlocks'[p] \in Seq(1..(top - 1))
           /\ HasChain(p) => HasChain(p)'
    <2> SUFFICES ASSUME NEW p \in Nodes
                 PROVE  /\ blockchains'[p] \in Seq(0..top)
                        /\ blocks'[p] \in Seq(1..(top - 1))
                        /\ orphanBlocks'[p] \in Seq(1..(top - 1))
                        /\ HasChain(p) => HasChain(p)'
      OBVIOUS
    <2>1. CASE p = n
      BY <1>1, <1>3, <1>8, <1>9, <2>1 DEF QueueInv, top
    <2>2. CASE p # n
      BY <1>1, <1>8, <2>2 DEF QueueInv, top, HasChain
    <2> QED
      BY <2>1, <2>2
  <1>11. DOMAIN blocks' = Nodes
    BY <1>1 DEF QueueInv
  <1> QED
    BY <1>1, <1>5, <1>7, <1>8, <1>10, <1>11, ChainStep DEF top

LEMMA ProcessBlockInv ==
  ASSUME JInv, NEW n \in Nodes, processBlock(n)
  PROVE  JInv'
  <1> USE DEF JInv
  <1> DEFINE top == chain[setup.miner]
  <1> DEFINE b == Head(blocks[n])
  <1>1. /\ blocks[n] # <<>>
        /\ blocks' = [blocks EXCEPT ![n] = Tail(@)]
        /\ \/ b = chain[n] /\ chain' = [chain EXCEPT ![n] = chain[n] + 1]
           \/ UNCHANGED chain
        /\ \/ orphanBlocks' = [orphanBlocks EXCEPT ![n] = Append(@, b)]
           \/ UNCHANGED orphanBlocks
        /\ UNCHANGED <<setup, user, router, handler, requests, blockchains,
                       reply, broadcasting>>
        /\ NextTurn(n, "blocks")
    BY DEF processBlock, Takes, Queue
  <1>2. /\ top \in Nat /\ chain[n] \in 0..top /\ DOMAIN turn = Nodes
        /\ blocks[n] \in Seq(1..(top - 1)) /\ orphanBlocks[n] \in Seq(1..(top - 1))
        /\ DOMAIN blocks = Nodes /\ DOMAIN orphanBlocks = Nodes
        /\ DOMAIN chain = Nodes
    BY SetupTypes DEF ChainInv, QueueInv
  <1>3. b \in 1..(top - 1) /\ Tail(blocks[n]) \in Seq(1..(top - 1))
    <2> HIDE DEF top
    <2> QED
      BY <1>1, <1>2, FirstOfSeq
  <1>4. Append(orphanBlocks[n], b) \in Seq(1..(top - 1))
    BY <1>2, <1>3, AppendToSet
  <1>5. /\ DOMAIN turn' = Nodes
        /\ \A p \in Nodes : turn'[p] = {"reply"} => turn[p] = {"reply"}
    BY <1>1, <1>2, NextTurnType
  <1> HIDE DEF b, top
  <1>6. ChainInv' /\ \A p \in Nodes : chain[p] <= chain'[p]
    <2>1. CASE UNCHANGED chain
      BY <1>1, <2>1 DEF ChainInv
    <2>2. CASE b = chain[n] /\ chain' = [chain EXCEPT ![n] = chain[n] + 1]
      <3>1. chain[n] + 1 \in 0..top /\ chain[n] <= chain[n] + 1
        BY <1>2, <1>3, <2>2
      <3> QED
        BY <1>1, <2>2, <3>1, NoLonger DEF top
    <2> QED
      BY <1>1, <2>1, <2>2
  <1>7. /\ DOMAIN blocks' = Nodes /\ DOMAIN orphanBlocks' = Nodes
        /\ \A p \in Nodes : blocks'[p] \in Seq(1..(top - 1))
                            /\ orphanBlocks'[p] \in Seq(1..(top - 1))
    BY <1>1, <1>2, <1>3, <1>4 DEF QueueInv, top
  <1>8. \A p \in Nodes : HasChain(p) => HasChain(p)'
    BY <1>1, <1>6 DEF HasChain, ChainInv
  <1>9. DOMAIN blockchains' = Nodes
        /\ \A p \in Nodes : blockchains'[p] \in Seq(0..top)
    BY <1>1 DEF QueueInv, top
  <1> QED
    BY <1>1, <1>5, <1>6, <1>7, <1>8, <1>9, ChainStep DEF top

\* Only the miner makes the longest chain longer.
LEMMA MineBlockInv ==
  ASSUME JInv, NEW n \in Nodes, mineBlock(n)
  PROVE  JInv'
  <1> USE DEF JInv
  <1>1. /\ n = setup.miner /\ chain[n] > 0 /\ chain[n] \in Nat
        /\ chain' = [chain EXCEPT ![n] = @ + 1]
        /\ UNCHANGED <<setup, user, router, handler, queues, turn, reply,
                       orphanBlocks>>
    BY DEF mineBlock, ChainInv
  <1>2. chain'[n] = chain[n] + 1 /\ \A p \in Nodes \ {n} : chain'[p] = chain[p]
    BY <1>1 DEF ChainInv
  <1>3. \A p \in Nodes : chain[p] \in Nat /\ chain[p] <= chain[n]
    BY <1>1 DEF ChainInv
  <1>4. ChainInv'
    <2>1. chain' \in [Nodes -> Nat]
      BY <1>1 DEF ChainInv
    <2>2. \A p \in Nodes : chain'[p] <= chain'[n] /\ (chain[p] > 0 => chain'[p] > 0)
      BY <1>2, <1>3
    <2> QED
      BY <1>1, <1>2, <2>1, <2>2, SetupTypes DEF ChainInv
  <1>5. \A p \in Nodes : chain[p] <= chain'[p]
    BY <1>2, <1>3
  <1>6. \A p \in Nodes : HasChain(p) => HasChain(p)'
    BY <1>1, <1>2, <1>3 DEF HasChain
  <1> QED
    BY <1>1, <1>4, <1>5, <1>6, ChainStep DEF QueueInv

-----------------------------------------------------------------------------
(* The theorems.                                                           *)

LEMMA InitInv == Init => JInv
  <1> SUFFICES ASSUME Init PROVE JInv
    OBVIOUS
  <1> USE DEF Init
  <1>1. SetupInv
    BY DEF SetupInv, Stages
  <1>2. /\ setup.members \subseteq Nodes /\ setup.miner \in setup.members
        /\ setup.miner \in Nodes
    BY <1>1, SetupTypes
  <1>3. PeersInv
    BY <1>2 DEF PeersInv
  <1>4. ChainInv
    BY <1>2 DEF ChainInv
  <1>5. WireInv /\ QueueInv
    BY DEF WireInv, QueueInv
  <1>6. ReplyInv /\ LetterInv
    <2>1. \A n \in Nodes : /\ reply[n].from = n /\ reply[n].value = 0
                           /\ turn[n] # {"reply"} /\ letter[n] = NoLetter
      <3> SUFFICES ASSUME NEW n \in Nodes
                   PROVE  /\ reply[n].from = n /\ reply[n].value = 0
                          /\ turn[n] # {"reply"} /\ letter[n] = NoLetter
        OBVIOUS
      <3>1. /\ reply[n] = Letter(n, Message("chain", 0))
            /\ turn[n] = {"requests", "blockchains", "blocks"}
            /\ letter[n] = NoLetter
        OBVIOUS
      <3> HIDE DEF Init
      <3>2. "requests" \in turn[n]
        BY <3>1
      <3> QED
        BY <3>1, <3>2 DEF Letter, Message
    <2>2. chain[setup.miner] \in Nat
      BY <1>2
    <2> HIDE DEF Init
    <2>3. ReplyInv
      BY <2>1, <2>2 DEF ReplyInv
    <2>4. LetterInv
      BY <2>1 DEF LetterInv
    <2> QED
      BY <2>3, <2>4
  <1>7. AnswerIsHere
    BY DEF AnswerIsHere
  <1> QED
    BY <1>1, <1>3, <1>4, <1>5, <1>6, <1>7 DEF JInv

LEMMA NextInv == JInv /\ [Next]_vars => JInv'
  <1> SUFFICES ASSUME JInv, [Next]_vars PROVE JInv'
    OBVIOUS
  <1>1. CASE \E i \in DOMAIN setup.calls : connect(i) \/ connectToNode(i)
    BY <1>1, ConnectToNodeInv
  <1>2. ASSUME NEW n \in Nodes, msgThread(n)
        PROVE  JInv'
    BY <1>2, OpenConnectInv, OpenAcceptedInv, OpenDataInv, OpenBroadcastInv
       DEF msgThread
  <1>3. ASSUME NEW n \in Nodes, dataThread(n)
        PROVE  JInv'
    BY <1>3, SortDataInv, NotifyWaitingInv DEF dataThread
  <1>4. ASSUME NEW n \in Nodes, processingThread(n)
        PROVE  JInv'
    BY <1>4, CopyBlockchainInv, SendBlockchainInv, ProcessBlockchainInv,
       ProcessBlockInv DEF processingThread
  <1>5. CASE threads
    BY <1>1, <1>2, <1>3, <1>4, <1>5, CreateSocketInv, PeerWatcherInv,
       BroadcastBlockInv DEF threads
  <1>6. CASE \E n \in Nodes : mineBlock(n)
    BY <1>6, MineBlockInv
  <1>7. CASE UNCHANGED vars
    <2>1. UNCHANGED <<setup, user, router, handler, queues, node>>
      BY <1>7 DEF vars
    <2>2. PeersInv' /\ OnWire(wire') /\ stage' \in [DOMAIN setup.calls -> Stages]
      BY <2>1 DEF JInv, PeersInv, WireInv, OnWire, SetupInv
    <2> QED
      BY <2>1, <2>2, RouterStep
  <1> QED
    BY <1>1, <1>5, <1>6, <1>7 DEF Next

\* The inductive invariant: what is under way in any queue, thread or buffer is
\* bounded by the miner's chain and is what its receiver waits for, for any
\* network, any calls and any number of blocks (bevali.py 179-189 and 394-477).
THEOREM Invariance == Spec => []JInv
  BY InitInv, NextInv, PTL DEF Spec

\* However nodes join and whatever is mined meanwhile, a node asks new peers
\* only that its router knows, no chain is longer than the miner's, and every
\* block that waits for its processing, or for its place, is one that was mined.
THEOREM TypeCorrect == Spec => []TypeOK
  <1>1. JInv => TypeOK
    <2> SUFFICES ASSUME JInv PROVE TypeOK
      OBVIOUS
    <2>1. /\ setup \in Setups /\ stage \in [DOMAIN setup.calls -> Stages]
          /\ \A n \in Nodes : chain[n] <= chain[setup.miner]
      BY DEF JInv, SetupInv, ChainInv
    <2>2. ASSUME NEW S, NEW s \in Seq(S)
          PROVE  ToSet(s) \subseteq S
      BY <2>2 DEF ToSet
    <2>3. \A n \in Nodes : ToSet(newPeerQueue[n]) \subseteq peers[n]
      BY <2>2 DEF JInv, PeersInv
    <2>4. \A n \in Nodes :
            /\ ToSet(blocks[n]) \subseteq 1..(chain[setup.miner] - 1)
            /\ ToSet(orphanBlocks[n]) \subseteq 1..(chain[setup.miner] - 1)
      BY <2>2 DEF JInv, QueueInv
    <2> QED
      BY <2>1, <2>3, <2>4 DEF TypeOK
  <1> QED
    BY <1>1, Invariance, PTL

\* Whoever connectToNode tells that a chain has come from a node that had one
\* has it: in the queue, or taken from there and installed.
THEOREM AnswersAreHere == Spec => []AnswerIsHere
  <1>1. JInv => AnswerIsHere
    BY DEF JInv
  <1> QED
    BY <1>1, Invariance, PTL

=============================================================================
