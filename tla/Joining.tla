------------------------------ MODULE Joining ------------------------------
(***************************************************************************)
(* How nodes join a network and get its chain (connectToNode, processing-  *)
(* Thread and peerWatcherThread in bevali/bevali.py) through the data      *)
(* handler (datahandler/) and the signals of the router                    *)
(* (networking/peer_router.py, networking/messages.py).                    *)
(*                                                                         *)
(* One node has created the chain and one mines, so that all chains are    *)
(* parts of one: a chain is its length, the block that makes it longer has *)
(* that length as its number, and the forks, which module Bevali has, are  *)
(* left out.  Connections are there for good and keep the order of what is  *)
(* sent on them, which module Router shows; two nodes that connect to each *)
(* other, where they do not, are left to it.                               *)
(***************************************************************************)
EXTENDS Integers, FiniteSets, SequencesExt

CONSTANTS
  Nodes,    \* the nodes
  Setups,   \* who is connected to whom with a chain from the start, who mines how
            \* many blocks, who calls connectToNode, and whether a call waits for
            \* the one before it
  NoLetter  \* no such chain

ASSUME JoiningAssumption ==
  \A s \in Setups :
    /\ s.members \subseteq Nodes /\ s.miner \in s.members
    /\ s.blocks \in Nat /\ s.inTurn \in BOOLEAN
    /\ s.calls \in Seq([by : Nodes, to : Nodes])
    /\ \A c, d \in ToSet(s.calls) : c.by # c.to /\ (c.by = d.to => c.to # d.by)

VARIABLES
  setup,       \* the setup of this run; it does not change
  stage,       \* where each call of connectToNode is
  answered,    \* whether its wait for a chain ended with a notification
  peers,       \* the peers of a node's router, peerAddressToSocket
  newPeerQueue, \* those that connected to it and that nobody has looked at yet
  wire,        \* what is between two routers: sent or read, and not opened
  hasSeenMessage, \* the blocks whose broadcast a node has seen
  databuffer,  \* what the router has for the data handler: [from, kind, value]
  letter,      \* the chain that the data thread has just put in its sink
  requests,    \* the queue of requests for the chain, by who asks
  blockchains, \* the queue of chains
  blocks,      \* the queue of blocks
  turn,        \* the queues that the processing thread may take from next
  reply,       \* the copy of the chain that it is about to send
  chain,       \* the length of the main chain; 0 is no chain
  orphanBlocks, \* the blocks with no place
  broadcasting, \* whether the miner has a block that it has not broadcast yet
  losses       \* history: the nodes that got too little, and why

user    == <<stage, answered>>
router  == <<peers, newPeerQueue, wire, hasSeenMessage>>
handler == <<databuffer, letter>>
queues  == <<requests, blockchains, blocks>>
node    == <<turn, reply, chain, orphanBlocks, broadcasting, losses>>
vars    == <<setup, user, router, handler, queues, node>>

Message(kind, value) == [kind |-> kind, value |-> value]

Letter(from, m) == [from |-> from, kind |-> m.kind, value |-> m.value]

-----------------------------------------------------------------------------
(* What is between the routers.                                            *)

\* n puts a message for each of the nodes "to".
Sent(w, n, to, m) ==
  [w EXCEPT ![n] = [q \in Nodes |->
                      IF q \in to THEN Append(@[q], m) ELSE @[q]]]

\* The oldest message from q to n is opened.
Taken(w, q, n) == [w EXCEPT ![q][n] = Tail(@)]

\* What connect puts for a node that is no peer yet.
Connects(w, n, q) ==
  IF q \in peers[n] THEN w ELSE Sent(w, n, {q}, Message("connect", 0))

\* PeerRouter.send
Sends(w, n, q, m) == Sent(Connects(w, n, q), n, {q}, m)

-----------------------------------------------------------------------------
Init ==
  /\ setup \in Setups
  /\ stage = [i \in DOMAIN setup.calls |-> "idle"]
  /\ answered = [i \in DOMAIN setup.calls |-> FALSE]
  /\ peers = [n \in Nodes |-> IF n \in setup.members THEN setup.members \ {n}
                             ELSE {}]
  /\ newPeerQueue = [n \in Nodes |-> <<>>]
  /\ wire = [n \in Nodes |-> [q \in Nodes |-> <<>>]]
  /\ hasSeenMessage = [n \in Nodes |-> {}]
  /\ databuffer = [n \in Nodes |-> <<>>]
  /\ letter = [n \in Nodes |-> NoLetter]
  /\ requests = [n \in Nodes |-> <<>>]
  /\ blockchains = [n \in Nodes |-> <<>>]
  /\ blocks = [n \in Nodes |-> <<>>]
  /\ turn = [n \in Nodes |-> {"requests", "blockchains", "blocks"}]
  /\ reply = [n \in Nodes |-> Letter(n, Message("chain", 0))]
  /\ chain = [n \in Nodes |-> IF n \in setup.members THEN 1 ELSE 0]
  /\ orphanBlocks = [n \in Nodes |-> <<>>]
  /\ broadcasting = FALSE
  /\ losses = {}

-----------------------------------------------------------------------------
(* connectToNode, a step for each point where another thread can come in.  *)

Stage(i, before, after) ==
  stage[i] = before /\ stage' = [stage EXCEPT ![i] = after]

\* A user makes one call after the other, of several users each its own.
MayCall(i) ==
  \A j \in 1..(i - 1) :
    setup.inTurn \/ setup.calls[j].by = setup.calls[i].by => stage[j] = "done"

\* PeerRouter.connect puts its message before there is a signal to wait for.
connect(i) ==
  /\ MayCall(i) /\ Stage(i, "idle", "connecting")
  /\ wire' = Connects(wire, setup.calls[i].by, setup.calls[i].to)
  /\ UNCHANGED <<setup, answered, peers, newPeerQueue, hasSeenMessage, handler,
                 queues, node>>

\* addSignal and the beginning of the wait: what came before is not noticed.
waitForAccept(i) ==
  /\ Stage(i, "connecting", "waiting")
  /\ UNCHANGED <<setup, answered, router, handler, queues, node>>

acceptTimeout(i) ==
  /\ Stage(i, "waiting", "connected")
  /\ UNCHANGED <<setup, answered, router, handler, queues, node>>

\* The request is sent whether the peer has accepted or not, and again before
\* there is a signal.
sendRequest(i) ==
  /\ Stage(i, "connected", "requested")
  /\ wire' = Sends(wire, setup.calls[i].by, setup.calls[i].to,
                   Message("request", 0))
  /\ UNCHANGED <<setup, answered, peers, newPeerQueue, hasSeenMessage, handler,
                 queues, node>>

waitOnData(i) ==
  /\ Stage(i, "requested", "expecting")
  /\ UNCHANGED <<setup, answered, router, handler, queues, node>>

\* Mutant: a wait without a timeout.
noTimeout(i) == FALSE

dataTimeout(i) ==
  /\ Stage(i, "expecting", "done")
  /\ UNCHANGED <<setup, answered, router, handler, queues, node>>

connectToNode(i) ==
  \/ waitForAccept(i) \/ acceptTimeout(i)
  \/ sendRequest(i) \/ waitOnData(i) \/ dataTimeout(i)

-----------------------------------------------------------------------------
(* The router.                                                             *)

\* The TX thread connects to a node as soon as there is something for it.
createSocket(n) ==
  /\ \E q \in Nodes \ peers[n] :
       /\ wire[n][q] # <<>>
       /\ peers' = [peers EXCEPT ![n] = @ \cup {q}]
  /\ UNCHANGED <<setup, user, newPeerQueue, wire, hasSeenMessage, handler,
                 queues, node>>

\* n has a message of this kind from q to open.
Arrives(n, q, kind) ==
  n \in peers[q] /\ wire[q][n] # <<>> /\ Head(wire[q][n]).kind = kind

\* Mutant: the new peer is announced and not recorded.
openConnectUnrecorded(n, q) ==
  /\ Arrives(n, q, "connect")
  /\ newPeerQueue' = IF q \in peers[n] THEN newPeerQueue
                     ELSE [newPeerQueue EXCEPT ![n] = Append(@, q)]
  /\ wire' = Sent(Taken(wire, q, n), n, {q}, Message("accepted", 0))
  /\ UNCHANGED <<setup, user, peers, hasSeenMessage, handler, queues, node>>

openConnect(n, q) ==
  /\ Arrives(n, q, "connect")
  /\ peers' = [peers EXCEPT ![n] = @ \cup {q}]
  /\ newPeerQueue' = IF q \in peers[n] THEN newPeerQueue
                     ELSE [newPeerQueue EXCEPT ![n] = Append(@, q)]
  /\ wire' = Sent(Taken(wire, q, n), n, {q}, Message("accepted", 0))
  /\ UNCHANGED <<setup, user, hasSeenMessage, handler, queues, node>>

\* Mutant: a signal that is not told from that of another node.
WaitingForAny(n, q, where) ==
  {i \in DOMAIN setup.calls : setup.calls[i].by = n /\ stage[i] = where}

\* The calls that wait for an answer of q at n.
Waiting(n, q, where) ==
  {i \in DOMAIN setup.calls :
     setup.calls[i] = [by |-> n, to |-> q] /\ stage[i] = where}

\* AcceptedConnectMessage: whoever waits goes on, and if nobody waits yet
\* nobody will know.
openAccepted(n, q) ==
  /\ Arrives(n, q, "accepted")
  /\ wire' = Taken(wire, q, n)
  /\ stage' = [i \in DOMAIN stage |->
                 IF i \in Waiting(n, q, "waiting") THEN "connected"
                 ELSE stage[i]]
  /\ UNCHANGED <<setup, answered, peers, newPeerQueue, hasSeenMessage, handler,
                 queues, node>>

\* DataMessage
openData(n, q) ==
  /\ \E kind \in {"request", "chain"} : Arrives(n, q, kind)
  /\ wire' = Taken(wire, q, n)
  /\ databuffer' = [databuffer EXCEPT ![n] =
                      Append(@, Letter(q, Head(wire[q][n])))]
  /\ UNCHANGED <<setup, user, peers, newPeerQueue, hasSeenMessage, letter,
                 queues, node>>

\* BroadcastDataMessage: a block that has been seen is dropped, any other kept
\* and passed on before anybody has looked at it.
openBroadcast(n, q) ==
  /\ Arrives(n, q, "block")
  /\ LET m == Head(wire[q][n])
     IN  IF m.value \in hasSeenMessage[n]
         THEN /\ wire' = Taken(wire, q, n)
              /\ UNCHANGED <<databuffer, hasSeenMessage>>
         ELSE /\ wire' = Sent(Taken(wire, q, n), n, peers[n] \ {q}, m)
              /\ databuffer' = [databuffer EXCEPT ![n] = Append(@, Letter(q, m))]
              /\ hasSeenMessage' =
                   [hasSeenMessage EXCEPT ![n] = @ \cup {m.value}]
  /\ UNCHANGED <<setup, user, peers, newPeerQueue, letter, queues, node>>

msgThread(n) ==
  \E q \in Nodes : \/ openConnect(n, q) \/ openAccepted(n, q)
                   \/ openData(n, q) \/ openBroadcast(n, q)

-----------------------------------------------------------------------------
(* The data handler.                                                       *)

\* The queue of a node for what a letter holds, with that in it.
Queued(q, n, l, kind, x) ==
  IF l.kind = kind THEN [q EXCEPT ![n] = Append(@, x)] ELSE q

Sort(n, l) ==
  /\ requests' = Queued(requests, n, l, "request", l.from)
  /\ blockchains' = Queued(blockchains, n, l, "chain", l.value)
  /\ blocks' = Queued(blocks, n, l, "block", l.value)

\* dataThread, first half: the sink for the type of the data gets it.
sortData(n) ==
  /\ letter[n] = NoLetter /\ databuffer[n] # <<>>
  /\ LET l == Head(databuffer[n])
     IN  /\ Sort(n, l)
         /\ letter' = [letter EXCEPT ![n] = IF l.kind = "chain" THEN l ELSE @]
  /\ databuffer' = [databuffer EXCEPT ![n] = Tail(@)]
  /\ UNCHANGED <<setup, user, router, node>>

\* Second half, of interest for chains only: a thread that waits for one from
\* that peer is notified.
notifyWaiting(n) ==
  /\ letter[n] # NoLetter
  /\ LET heard == Waiting(n, letter[n].from, "expecting")
     IN  /\ stage' = [i \in DOMAIN stage |->
                        IF i \in heard THEN "done" ELSE stage[i]]
         /\ answered' = [i \in DOMAIN answered |-> answered[i] \/ i \in heard]
  /\ letter' = [letter EXCEPT ![n] = NoLetter]
  /\ UNCHANGED <<setup, router, databuffer, queues, node>>

dataThread(n) == sortData(n) \/ notifyWaiting(n)

-----------------------------------------------------------------------------
(* The processing thread looks at its three queues in turn, a tenth of a   *)
(* second at each.  It may have passed a queue that was empty when it last *)
(* took something, and not one that was not.                               *)

Loop == [requests    |-> <<"blockchains", "blocks", "requests">>,
         blockchains |-> <<"blocks", "requests", "blockchains">>,
         blocks      |-> <<"requests", "blockchains", "blocks">>]

Queue(n, kind) == CASE kind = "requests"    -> requests[n]
                    [] kind = "blockchains" -> blockchains[n]
                    [] kind = "blocks"      -> blocks[n]

\* n goes on after the queue of this kind.
NextTurn(n, kind) ==
  turn' = [turn EXCEPT ![n] =
             {Loop[kind][i] : i \in {k \in 1..3 :
                \A j \in 1..(k - 1) : Queue(n, Loop[kind][j])' = <<>>}}]

Takes(n, kind) == kind \in turn[n] /\ Queue(n, kind) # <<>>

Lost(n, why) == losses' = losses \cup {<<n, why>>}

\* Blocks that this node has had in its router and that its chain lacks.
Behind(n) == \E b \in hasSeenMessage[n] : b >= chain[n]

\* BlockchainRequestMessage.open copies the main chain ...
copyBlockchain(n) ==
  /\ Takes(n, "requests")
  /\ LET q == Head(requests[n])
     IN  /\ reply' = [reply EXCEPT ![n] = Letter(q, Message("chain", chain[n]))]
         /\ IF Behind(n) THEN Lost(q, "an old chain") ELSE UNCHANGED losses
  /\ requests' = [requests EXCEPT ![n] = Tail(@)]
  /\ turn' = [turn EXCEPT ![n] = {"reply"}]
  /\ UNCHANGED <<setup, user, router, handler, blockchains, blocks, chain,
                 orphanBlocks, broadcasting>>

\* ... and then sends the copy.
sendBlockchain(n) ==
  /\ turn[n] = {"reply"}
  /\ wire' = Sends(wire, n, reply[n].from, Message("chain", reply[n].value))
  /\ reply' = [reply EXCEPT ![n] = Letter(n, Message("chain", 0))]
  /\ UNCHANGED <<setup, user, peers, newPeerQueue, hasSeenMessage, handler,
                 queues, chain, orphanBlocks, broadcasting, losses>>
  /\ NextTurn(n, "requests")

\* The loop over the orphans: of those that the chain has already the list is
\* rid, and one that continues the chain is added to it and stays listed.
Visit(m, b) ==
  IF b < m.length THEN m
  ELSE [length |-> IF b = m.length THEN b + 1 ELSE m.length,
        listed |-> Append(m.listed, b)]

Merged(length, orphans) ==
  LET m[i \in 0..Len(orphans)] ==
        IF i = 0 THEN [length |-> length, listed |-> <<>>]
        ELSE Visit(m[i - 1], orphans[i])
  IN  m[Len(orphans)]

\* processBlockchain: the chain with its orphans is the main chain if longer.
processBlockchain(n) ==
  /\ Takes(n, "blockchains")
  /\ blockchains' = [blockchains EXCEPT ![n] = Tail(@)]
  /\ LET length == Head(blockchains[n])
         merged == Merged(length, orphanBlocks[n])
     IN  IF length = 0
         THEN /\ IF chain[n] = 0 THEN Lost(n, "no chain") ELSE UNCHANGED losses
              /\ UNCHANGED <<chain, orphanBlocks>>
         ELSE /\ chain' = [chain EXCEPT ![n] =
                             IF merged.length > @ THEN merged.length ELSE @]
              /\ orphanBlocks' = [orphanBlocks EXCEPT ![n] = merged.listed]
              /\ UNCHANGED losses
  /\ UNCHANGED <<setup, user, router, handler, requests, blocks, reply,
                 broadcasting>>
  /\ NextTurn(n, "blockchains")

\* processBlock: without a chain it raises and the block is gone; a block that
\* is not the next becomes an orphan unless its parent is found in the chain,
\* where the genesis block does not count.
processBlock(n) ==
  /\ Takes(n, "blocks")
  /\ blocks' = [blocks EXCEPT ![n] = Tail(@)]
  /\ LET block == Head(blocks[n])
     IN  /\ IF chain[n] = 0 THEN Lost(n, "a block") ELSE UNCHANGED losses
         /\ IF block = chain[n] /\ chain[n] # 0
            THEN chain' = [chain EXCEPT ![n] = @ + 1] ELSE UNCHANGED chain
         /\ IF chain[n] # 0 /\ (block > chain[n] \/ (block = 1 /\ chain[n] > 1))
            THEN orphanBlocks' = [orphanBlocks EXCEPT ![n] = Append(@, block)]
            ELSE UNCHANGED orphanBlocks
  /\ UNCHANGED <<setup, user, router, handler, requests, blockchains, reply,
                 broadcasting>>
  /\ NextTurn(n, "blocks")

processingThread(n) ==
  \/ copyBlockchain(n) \/ sendBlockchain(n)
  \/ processBlockchain(n) \/ processBlock(n)

-----------------------------------------------------------------------------
(* The peer watcher and the miner.                                         *)

\* Mutant: a new peer is taken off the queue and not asked.
peerWatcherSilent(n) ==
  /\ newPeerQueue[n] # <<>>
  /\ newPeerQueue' = [newPeerQueue EXCEPT ![n] = Tail(@)]
  /\ UNCHANGED <<setup, user, peers, wire, hasSeenMessage, handler, queues,
                 node>>

\* Whoever connects to this node is asked for its chain.
peerWatcherThread(n) ==
  /\ newPeerQueue[n] # <<>>
  /\ newPeerQueue' = [newPeerQueue EXCEPT ![n] = Tail(@)]
  /\ wire' = Sends(wire, n, Head(newPeerQueue[n]), Message("request", 0))
  /\ UNCHANGED <<setup, user, peers, hasSeenMessage, handler, queues, node>>

\* _mine adds the block under blockchainLock, which the copying of the chain for
\* a peer does not take ...
mineBlock(n) ==
  /\ n = setup.miner /\ chain[n] \in 1..setup.blocks /\ ~broadcasting
  /\ chain' = [chain EXCEPT ![n] = @ + 1]
  /\ broadcasting' = TRUE
  /\ UNCHANGED <<setup, user, router, handler, queues, turn, reply,
                 orphanBlocks, losses>>

\* ... and then broadcasts it to the peers that there are.
broadcastBlock(n) ==
  /\ n = setup.miner /\ broadcasting
  /\ wire' = Sent(wire, n, peers[n], Message("block", chain[n] - 1))
  /\ hasSeenMessage' = IF peers[n] = {} THEN hasSeenMessage
                       ELSE [hasSeenMessage EXCEPT ![n] = @ \cup {chain[n] - 1}]
  /\ broadcasting' = FALSE
  /\ UNCHANGED <<setup, user, peers, newPeerQueue, handler, queues, turn, reply,
                 chain, orphanBlocks, losses>>

-----------------------------------------------------------------------------
\* What threads do of themselves, and a call that has begun: its waits have a
\* timeout.
threads ==
  \/ \E i \in DOMAIN setup.calls : connectToNode(i)
  \/ \E n \in Nodes : \/ createSocket(n) \/ msgThread(n) \/ dataThread(n)
                      \/ processingThread(n) \/ peerWatcherThread(n)
                      \/ broadcastBlock(n)

Next ==
  \/ threads
  \/ \E i \in DOMAIN setup.calls : connect(i)
  \/ \E n \in Nodes : mineBlock(n)

Spec == Init /\ [][Next]_vars

\* As long as a thread of a node can go on, one does: nothing that they do here
\* goes on for ever, so this is enough.  Nothing makes a user call or a node
\* mine.
LiveSpec == Spec /\ WF_vars(threads)

-----------------------------------------------------------------------------
(* Properties.                                                             *)

Stages == {"idle", "connecting", "waiting", "connected", "requested",
           "expecting", "done"}

Called(i) == stage[i] = "done"

\* Types, where a node looks only at new peers that it has recorded as peers,
\* and has no block that has not been mined.
TypeOK ==
  /\ setup \in Setups /\ stage \in [DOMAIN setup.calls -> Stages]
  /\ \A n \in Nodes :
       /\ ToSet(newPeerQueue[n]) \subseteq peers[n]
       /\ chain[n] <= chain[setup.miner]
       /\ \A b \in ToSet(blocks[n]) \cup ToSet(orphanBlocks[n]) :
            b \in 1..(chain[setup.miner] - 1)

\* A chain is here: the node has one or will take one from its queue.
HasChain(n) == chain[n] > 0 \/ \E l \in ToSet(blockchains[n]) : l > 0

\* A call that has been notified of a chain from the node that has one from the
\* start finds it in the queue or taken from there, although it registers only
\* after its request is under way and the data thread sorts and notifies in two
\* steps (bevali.py 179-189, data_handler.py 39-77).
AnswerIsHere ==
  \A i \in DOMAIN setup.calls :
    answered[i] /\ setup.calls[i].to \in setup.members =>
      HasChain(setup.calls[i].by)

\* Every call comes back, though an acceptance or a chain that comes before
\* there is a signal for it is not noticed (peer_router.py 135-147).
CallReturns == []<>(\A i \in DOMAIN stage : stage[i] \in {"idle", "done"})

\* Two nodes that have connected end with the same chain, whichever of them had
\* one, whatever is mined meanwhile and whichever answer is late.  There are
\* three exceptions, none of which is made good: a node that was asked had no
\* chain yet, a block came before the first chain, or a node that was asked had
\* passed on a block before it had processed it.
SameChain ==
  <>[](\A n \in Nodes : \A q \in peers[n] :
         (\A i \in DOMAIN setup.calls :
            {setup.calls[i].by, setup.calls[i].to} = {n, q} => Called(i))
         => \/ chain[n] = chain[q]
            \/ \E l \in losses : l[1] \in {n, q})

-----------------------------------------------------------------------------
(* The inductive invariant behind the two invariants.                      *)

Kinds == {"connect", "accepted", "request", "chain", "block"}

\* What a node can send, depending on how long the longest chain is: a member
\* has a chain from the start, so the chain that it sends is not an empty one.
Sendable(q) ==
  {m \in [kind : Kinds, value : 0..chain[setup.miner]] :
     /\ m.kind = "block" => m.value \in 1..(chain[setup.miner] - 1)
     /\ m.kind = "chain" /\ q \in setup.members => m.value > 0}

Letters ==
  {l \in [from : Nodes, kind : Kinds, value : 0..chain[setup.miner]] :
     [kind |-> l.kind, value |-> l.value] \in Sendable(l.from)}

SetupInv ==
  /\ setup \in Setups
  /\ stage \in [DOMAIN setup.calls -> Stages]
  /\ answered \in [DOMAIN setup.calls -> BOOLEAN]

PeersInv ==
  /\ peers \in [Nodes -> SUBSET Nodes] /\ DOMAIN newPeerQueue = Nodes
  /\ \A n \in Nodes : newPeerQueue[n] \in Seq(peers[n])

\* Only the miner makes a chain longer than any other.
ChainInv ==
  /\ chain \in [Nodes -> Nat]
  /\ \A n \in Nodes : chain[n] <= chain[setup.miner]
  /\ \A n \in setup.members : chain[n] > 0
  /\ broadcasting => chain[setup.miner] > 1

WireInv ==
  /\ DOMAIN wire = Nodes
  /\ \A n \in Nodes : /\ DOMAIN wire[n] = Nodes
                      /\ \A q \in Nodes : wire[n][q] \in Seq(Sendable(n))

QueueInv ==
  /\ \A d \in {DOMAIN databuffer, DOMAIN requests, DOMAIN blockchains,
               DOMAIN blocks, DOMAIN orphanBlocks, DOMAIN turn, DOMAIN reply,
               DOMAIN letter} : d = Nodes
  /\ \A n \in Nodes :
       /\ databuffer[n] \in Seq(Letters)
       /\ requests[n] \in Seq(Nodes)
       /\ blockchains[n] \in Seq(0..chain[setup.miner])
       /\ blocks[n] \in Seq(1..(chain[setup.miner] - 1))
       /\ orphanBlocks[n] \in Seq(1..(chain[setup.miner] - 1))

\* A copy that is about to be sent is one of the chain as it was.
ReplyInv ==
  \A n \in Nodes :
    /\ reply[n].from \in Nodes /\ reply[n].value \in 0..chain[setup.miner]
    /\ n \in setup.members /\ turn[n] = {"reply"} => reply[n].value > 0

\* Between the two halves of dataThread the chain is in the queue already.
LetterInv ==
  \A n \in Nodes :
    letter[n] # NoLetter =>
      /\ letter[n] \in Letters /\ letter[n].kind = "chain"
      /\ letter[n].from \in setup.members => HasChain(n)

JInv == /\ SetupInv /\ PeersInv /\ ChainInv /\ WireInv /\ QueueInv
        /\ ReplyInv /\ LetterInv /\ AnswerIsHere

=============================================================================
