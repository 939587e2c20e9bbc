# Bevali in TLA+

Bevali is a small blockchain node with smart contracts, in Python: a node keeps
a chain of blocks, mines transactions into new ones, exchanges blocks and
chains with its peers, and runs contract code that invocations in blocks call.
This directory holds TLA+ modules translated from that code, TLC
configurations that check them on small instances, and TLAPS proofs of the
properties that matter most, for every value of the constants.

    tlc -workers 2 -config MCBevaliChains.cfg MCBevali.tla
    tlapm BevaliProofs.tla

## 1. The system

| component | source | state | operations |
|---|---|---|---|
| blocks and chains | `blockchain/block.py`, `blockchain/blockchain.py` | a block: number, data, previous hash, miner, nonce, time; a chain: target, list of blocks | `add_block`, `check_integrity`, `block_valid`, `block_belongs`, `is_prev_hash_in_chain`, `is_block_in_chain`, `copy`, `mine_block` |
| transactions and contracts | `transactions/transaction.py` | four classes: plain, create, update, invoke | `exec` while a block is assembled, `validate` when one arrives, `findContract`, `findState` |
| node, block processing | `bevali/bevali.py` | main chain, secondary chains, orphans, a lock for each, queues of blocks, chains, requests | `processBlock` (seven steps), `processBlockchain`, `processingThread` |
| node, mining | `bevali/bevali.py` | the pool, the batch being mined | `minningThread`, `_mine` |
| node, entry points | `bevali/bevali.py` | - | `createNewChain`, `sendTransaction`, `connectToNode`, `peerWatcherThread`, `releaseTransactions` (tests only), `start`, `stop`, `start_minning`, `stop_minning` |
| data handler | `datahandler/` | sinks by type, signals by peer and type | `dataThread`, `waitOnData`, `BlockchainRequestMessage.open` |
| thread management | `multithreading/managed_thread.py`, `thread_manager.py` | status per thread, count, `closeSignal` | `startThreads`, `stopThreads`, `run`, `stop` |
| protected list | `multithreading/protected_list.py` | a list and its lock | `append`, `remove`, `take` |
| peer router, messages | `networking/` | sockets and peers, tx and rx buffers, seen broadcasts, signals | `connect`, `send`, `broadcast`, the `open` of each message, three threads |
| encryption | `encryption/encryption.py` | - | calls of a library |
| evaluation | `evaluation/` | - | measurements |

**How they interact.** The router's RX thread puts messages on a buffer, its
message thread opens them; data goes to the data handler's thread, which puts
transactions in the pool and blocks, chains and requests on the node's queues.
The processing thread takes from those queues. The mining thread takes from the
pool, executes and mines, and calls `processBlock` itself. The two share the
chains under `blockchainLock` (reentrant), `secondaryChainsLock` and
`orphanBlocksLock`. Broadcasts go to the router's TX buffer.

**What is hard in it.** `processBlock` takes and drops a lock at each step, so
the mining thread runs between the steps, while the mining thread keeps the
lock around its own call; chains are swapped, copied and merged under different
locks; blocks arrive late, before their parents or never; a node mines for a
long time on a copy; contract state is looked up by two walks of the chain, one
when a block is assembled and one when it is checked; stopping a component
relies on notifications that are lost if nobody waits, and so does joining;
a socket is read by one thread, adopted by another and closed by either.
`PROJECT.json` lists
each hazard with its line and the properties that watch it.

**What makes each part correct.**

- chains: every chain starts at the genesis block and each block names the one
  before it; nothing kept is lost; the main chain is the longest and only grows;
- mining: what is mined extends the main chain as it is when it is committed;
  a valid block that is broadcast is the miner's own head;
- transactions: what `exec` puts in a block, `validate` accepts, now and when
  the chain has grown; a block joins only the chain it was checked on;
- threads: locks are given back; when a stop returns, all threads have returned;
- network: data reaches only whom it is for, at most once and in the order of
  sending; a broadcast reaches everybody that can be reached; two nodes that
  have connected hear each other; a dead connection leaves all tables;
- joining: every call returns, an answer that was announced is there, and two
  nodes that have connected end with the same chain.

## 2. The modules

| module | models | uses |
|---|---|---|
| `Blockchain` | blocks, chains, the methods of `Blockchain` as operators | - |
| `Transactions` | `exec`, `validate`, the lookups | `Blockchain` |
| `Bevali` | the node: two threads, users, peers | `Transactions`, `ForkChoice` |
| `ForkChoice` | what a node does with blocks, seen from outside, as an abstract specification | `Blockchain` |
| `OldForks` | `releaseTransactions` and what it calls, as operators | `Transactions` |
| `ThreadManager` | starting and stopping of threads | - |
| `Broadcast` | what `send` and `broadcast` promise, as an abstract specification | - |
| `Router` | the routers of a network and their messages | `Broadcast` |
| `Joining` | nodes that join: `connectToNode`, the data handler, the queues of the processing thread, the peer watcher, over the network that `Router` shows | - |
| `MCRouter` | twelve networks for TLC | `Router` |
| `MCJoining` | six ways to join for TLC | `Joining` |
| `Contracts` | the chains that one node mines out of what users submit; the loops of `findState`; a chain that loses to another node's | `OldForks` |
| `MCContracts` | one contract with three invocations for TLC | `Contracts` |
| `MCBevali` | constants for TLC | `Bevali` |
| `ChainProofs` | lemmas on the operators of the first two | `Transactions` |
| `BevaliProofs` | the invariant of a node | `Bevali`, `ChainProofs` |
| `BlockProofs` | that a node implements `ForkChoice`; what a node may rely on that acts on what it saw under an earlier lock | `BevaliProofs` |
| `ContractProofs` | the lookups, what a node executes against what it validates, and old forks | `Contracts`, `ChainProofs` |
| `ThreadManagerProofs` | that a stop is complete | `ThreadManager` |
| `RouterProofs` | the invariants of a network of routers | `Router` |
| `DeliveryProofs` | that routers implement `Broadcast` | `RouterProofs` |
| `JoiningProofs` | the invariant of nodes that join | `Joining` |

**Blocks.** A block names its parent by a hash over all the parent's contents.
The hash is taken to be injective, so a block *is* the sequence of the contents
of its ancestors after the genesis block and its own; `blockNumber` is its
length, `Genesis` the empty sequence, and equality of blocks equality of
hashes. The nonce is left out and what it achieves kept: the field `work`, the
zeros of the hash, compared with a chain's `target`. Times are left out. There
is one genesis block in a network: its time is the default argument of
`Block.__init__`, and a node that makes its own cannot join another's.

**Transactions.** One record type for the four classes. Contract code is the
constant operator `Run` of what `exec` hands it: the whole chain, the contract,
the state found for it, and the invocation. It gives a list of transactions, or
`Raised`. The loops of `findContract` and `findState` are written as choices of
an extreme position.
A failed invocation leaves Python's `None` in the block: `NoTx`.

**Contracts.** One step is a round of `minningThread`: any batch of submissions
is executed on the chain and mined, and the block joins the chain, valid or not,
since a node with `disableChecks` appends what it mines. `FromNewest`, `InBlock`
and `Meet` are the loops of `findState` as the code has them, and
`LookupsAsLooped` says that they find what `Transactions` says. `Departed` is
the chain of another node that leaves this one's, for `releaseTransactions`.

**Bevali.** A step of a thread is what it does under one acquisition of a lock.

| actions | code |
|---|---|
| `newBlockHashValid` ... `addOrphanBlock` | the seven steps of `processBlock`, by either thread; `noMainChain` is the exception that an empty main chain raises |
| `receiveBlock` | a block comes off the queue: any block mined and not handed over yet, in any order, or never |
| `receiveBlockchain`, `mergeOrphan`, `mergeDone`, `removeOrphan`, `installBlockchain` | `processBlockchain`; the chain received is a peer's, empty, or with one inner block replaced |
| `takeTransactions`, `execTransaction`, `execDone` | `minningThread` up to `_mine` |
| `copyBlockchain`, `mineBlock`, `mineNothing`, `commitStale`, `commitBlock`, `broadcastBlock` | `_mine` and the end of a round; with `disableChecks` set, which a test may do at any time, the block is appended directly |
| `createNewChain`, `sendTransaction`, `peerMines` | users and other nodes; a peer mines only on blocks whose ancestors are valid |

`lock` is the owner of `blockchainLock` when it is kept from one step to the
next, which only the mining thread does. `secondaryChainsLock` and
`orphanBlocksLock` have no variable, so `ProcessingReturns` and `MiningReturns`
say nothing of them. It is `MinedAtHead` that does: they are first taken in step
4 of `processBlock` (`bevali.py`, 310) and in `processBlockchain`, and the mining
thread never gets past step 3, so one thread alone ever takes them
(`releaseTransactions`, which takes one too, is called by a test only); that
thread takes no further lock while it has one. The pool holds the numbers of
arrivals, since the code removes by identity and two equal transactions may be
different objects: a block from the network never removes anything from it.
The functions that ran in one thread only and keep no lock are part of the
action that calls them.

**ThreadManager.** `status` is what the code says of a thread, `run` where it
really is; `caller` is the thread inside `startThreads` or `stopThreads`. The
manager's lock is the lock of `closeSignal`, so a thread's `finally` clause
runs only while the caller is not in a call or is in `wait`. A notification
that finds nobody waiting changes nothing.

**Router.** A connection is named by the node that created it, the node it goes
to and a number, since two nodes may connect anew. A node writes to a peer on
the connection in `peerAddressToSocket` and reads those in `socketList`; a
connection in `backlog` is read once, for the message that introduces its
creator. `wire` is the order TCP keeps on a connection. Users' calls put
messages on `txbuffer` (`connect`, `getPeerList`, `send`, `broadcast`);
`txThread` sends them, on the connection that there is (`sendOnSocket`), on one
that the other end has closed (`sendIntoTheVoid`: lost), on a new one
(`createSocket`), or not at all (`refuse`). `rxThread` reads what has arrived
and removes connections whose other end is closed; `msgThread` opens what was
read, with an action per class of message, so that a connection may go between
the two. `stop` closes all sockets and throws the router away, and `start` is a
new `PeerRouter` at the same address.

What a closed connection does is the network's part, and external (`Close`):
the other end reads what has arrived and then the end of the stream, unless
something on its way was thrown away: then the connection is reset,
`getpeername` raises, and `removeSocket` leaves the closed socket in the table
of peers (`removeResetSocket`), until the peer's next `ConnectMessage`
(`Unconnected`). A socket that no list and no variable refers to is closed by
CPython (`Released`). When a closed socket is on `socketList`, `select` raises
and the router reads nothing (`Selects`).

`openFlood` takes in one step what `BroadcastDataMessage.open` does from its
test to its last `put`; of what it reads only that thread changes the seen
broadcasts, and a peer added while the copies are put on the buffer is one added
just after. The identifier of a message is the user's call that caused it.
`setup` says what users do, and whether the routers form a mesh; `reachable` and
`before` note at each call who hears the caller and what connections there were.

`Broadcast` is the abstract specification: `submit` and `deliver`. `Router`
implements it with `made` for `sent` and `databuffer` for `received`. A router
that stops forgets what it received and what it has seen: afterwards its own
broadcast may come back to it on a cycle, and between what it sent before the
stop and what it sends after it no order is promised, since they go on two
connections, which the other router may accept in either order.

**Joining.** A call of `connectToNode` goes through the stages of `stage`: it
puts its `ConnectMessage`, waits for the acceptance, asks for the chain and
waits for that, and each time it registers its signal a step after it has asked.
`wire` is what is under way between two routers, in order, and lumps the buffers
of both together; `openConnect`, `openAccepted`, `openData` and `openBroadcast`
are the message thread's. The data thread puts a chain in its queue
(`sortData`) and then notifies (`notifyWaiting`). The processing thread takes
from its three queues in turn; since it waits a tenth of a second at each,
`turn` is the set of queues it may have got to, all up to the first that was not
empty. Copying the chain for a peer and sending it are two steps. Chains are
parts of one here, so a chain is its length; the forks are `Bevali`'s.
`losses` is history: who got too little, and why.

**ForkChoice.** `learn` keeps blocks, `choose` moves to a strictly longer chain
of kept blocks. `Bevali` implements it with the blocks of all its
chains, of the orphans and of the chain being imported for `known`, and the main chain for `chosen`.

**OldForks.** `releaseTransactions` has no call but a test's, so it is an
operator and no action of `Bevali`. Whether the two chains hold the same
transaction objects, as in the test, or copies, as they would in a node, is the
parameter `copies`.

## 3. The runs

Properties are defined, with a comment, in the module that the run names or
the one it extends.

| run | asks | bounds |
|---|---|---|
| `node_chains` | forks from two peers and imported chains against this node's mining: `ChoosesForks` (the refinement of `ForkChoice`), `ChainsLinked`, `LongestChain`, `MinedAtHead`, `OrphanHasNoParent`, `TypeOK` | 4 blocks, or 3 blocks and 2 chains; 1 plain transaction |
| `node_threads` | locks are given back: `ProcessingReturns`, `MiningReturns` | 2 blocks, 1 chain, 2 transactions |
| `node_contracts` | a contract and its invocation, two targets, `disableChecks` off and on: `ValidWhereItJoins`, `BroadcastAtHead` | 2 blocks |
| `transactions` | `exec` against `validate`: `LookupsAsLooped`, `ExecutedIsValid`, `FailurePoisons`, `ValidityLasts`; forks that are dropped: `NothingIsLost` | 4 blocks, 2 keys, a contract that may be created again and again, 3 invocations of which one reads the chain, batches of 2 |
| `threads` | `TypeOK`, `StopMeansReturned`, `StopReturns` | 3 threads, 2 rounds, one may fail |
| `routers` | `KeepsPromise` (the refinement of `Broadcast`), `SocketsMatch`, `DeafOnlyIfCrossed`, `HeardBothWays`, `ForgetsTheDead`, `Delivered`, `TypeOK` | 3 routers, 12 networks of 3 or 4 calls |
| `joining` | `SameChain`, `AnswerIsHere`, `CallReturns`, `TypeOK` | 3 nodes, 6 setups with up to 2 calls and 2 blocks |

Why the bounds are enough: a fork that overtakes the main chain takes a parent,
two competing children and a grandchild, so four blocks show a fork, a swap and
an orphan with this node mining in between; three blocks with two imports show a
chain that is swapped in and one that is kept; two keys and two writers show
every order in which a state is found; three threads show a notification that
is for another thread; three routers are the smallest network with a cycle and
with a peer of a peer. Nothing bounds the connections but the calls. In `joining` each setup is one
question: mining while a node joins, a node with a chain that calls one
without, a node that joins one that has just joined, one that joins an older
member while a block travels, the way of a block among three, and a call of a
node without a chain before one of a node with it. `routers` and `joining` do not
check deadlock: a network whose users have made their calls comes to rest.
`Bounds` stops the peers, not the node, which may
mine each transaction that was submitted. Where two peers are interchangeable
the run uses symmetry, and none of those runs checks liveness (`ChoosesForks` has no fairness in it). `BatchSize` is 1
in the runs of the node, so that two rounds of mining fit in the bounds; what a
batch of several does to a block is checked in `transactions`.

**Fairness.** Python's scheduler runs each thread that can run: weak fairness
of the processing thread within a block or a chain, of the mining thread, in
`ThreadManager` of each thread and of the caller once it is in a call, and in
`Router` of each node's TX, RX and message thread. In `Joining` it is
weak fairness of all threads together: there every behaviour comes to rest, so
that whatever a thread can do is done in the end. Time-outs may come at any
moment, since 60 seconds may be less than a message takes.
Nothing makes a user submit, a peer mine, a block arrive or a thread fail.
Weak fairness is enough for the locks because the processing thread keeps none
from one step to the next.

**Where the code does not do what it says.** Each of these runs shows one
disagreement; the finding in `PROJECT.json` quotes the comment.

| run | what TLC finds |
|---|---|
| `genesis_fork` | a block on the genesis block becomes an orphan, not a secondary chain: 0 is read as "no parent" |
| `pool_release` | a block from a peer leaves its transactions in this node's pool |
| `latest_state` | of two updates of a key in one block, the older counts |
| `stop_race` | a stop before a thread's first line is forgotten, `stopThreads` hangs |
| `deaf_router` | two routers connect to each other and one stops: the other adopts a socket that it has closed, and reads nothing any more |

Two routers that connect to each other at the same time may each create a
socket, and neither reads the other's: they are in each other's list and hear
nothing. `timelog.md` (131, 135) knows of it. `DeafOnlyIfCrossed` says that
this is the only way to get there if all routers listen and none stops, and
`HeardBothWays` leaves such a pair out. If a router does not listen yet, the
`ConnectMessage` is lost and the data behind it makes a connection of which only
that first message is read.

`SameChain` names three ways in which nodes that have connected may not end with
the same chain, and nothing in the code makes good for them: a node that is
asked has no chain yet, which a node that has just joined is for a moment after
its call has returned; a block that comes before the first chain is dropped; and
a node passes a block on before it has processed it, so a chain that is asked
for in between lacks it. The tests sleep between their calls and do not meet
them.

More behaviours of the code are in the modules and have no run of their own,
since no text of the repository speaks of them or only a test calls the code: the batch of a block that turns out to be
stale is gone; contract code that reads the chain (`tests/contract.py`, 13:
"blockchain ~ gives access to the state of blockchain when executed") is run on
the chain as it is when its block is checked, so a block that was valid where it
was mined may be refused when the chain has grown (`ValidityLasts` names such
code, `ReadsNoFurther`; without that condition TLC finds it violated by the
first invocation of `MCContracts`); `releaseTransactions` compares transactions by identity, and
gives nothing back of a fork at the genesis block, whose index is 0; step 2 of
`processBlock` validates a block of a fork against the main chain; and
`stopThreads` waits for ever for a thread that failed before it was called.

A test that looks at the pool (`tests/test_bevali.py`, 419) passes because both
nodes of the test hold the same transaction object, which a network does not give.

## 4. The proofs

All theorems hold for every value of the constants that meets the named
assumptions (`TargetsAssumption`, `NoTxAssumption`, `RunAssumption`,
`BevaliAssumption`, `ContractsAssumption`, `ThreadManagerAssumption`,
`RouterAssumption`, `JoiningAssumption`): any number of peers, targets,
transactions, blocks, imports, threads, routers, calls and connections, and any
contract code that is a function of what `exec` hands it.

| theorem | says |
|---|---|
| `BevaliProofs!Invariance` | `Spec => []IInv` |
| `BevaliProofs!TypeCorrect` | `[]TypeOK` |
| `BevaliProofs!ChainsAreLinked` | `[]ChainsLinked` |
| `BevaliProofs!MinesAtHead` | `[]MinedAtHead` |
| `BlockProofs!StaysLongest` | `[]LongestChain` |
| `BlockProofs!OrphansAreOrphans` | `[]OrphanHasNoParent` |
| `BlockProofs!BroadcastsWhatItAdded` | `[]BroadcastAtHead` |
| `BlockProofs!JoinsWhereValid` | `ValidWhereItJoins` |
| `BlockProofs!ImplementsForkChoice` | `ChoosesForks`, the refinement of `ForkChoice` |
| `ContractProofs!MinesOneChain` | `Spec => []IInv` |
| `ContractProofs!LooksUpAsDefined` | `[]LookupsAsLooped` |
| `ContractProofs!ExecutesWhatIsValid` | `[]ExecutedIsValid` |
| `ContractProofs!FailuresPoison` | `[]FailurePoisons` |
| `ContractProofs!StaysValidAsItGrows` | `[]ValidityLasts` |
| `ContractProofs!LosesNothing` | `[]NothingIsLost` |
| `ThreadManagerProofs!CountInRange` | `[]TypeOK` |
| `ThreadManagerProofs!StopIsComplete` | `[]StopMeansReturned` |
| `RouterProofs!TypeCorrect` | `[]TypeOK` |
| `RouterProofs!ReadsWhatItKeeps` | `[]SocketsMatch` |
| `RouterProofs!OnlyTheCrossedAreDeaf` | `[]DeafOnlyIfCrossed` |
| `DeliveryProofs!KeepsItsPromise` | `KeepsPromise`, the refinement of `Broadcast` |
| `JoiningProofs!Invariance` | `Spec => []JInv` |
| `JoiningProofs!TypeCorrect` | `[]TypeOK` |
| `JoiningProofs!AnswersAreHere` | `[]AnswerIsHere` |

**A node's invariant** (`IInv` of `Bevali`). `ChainsLinked` alone is not
inductive: `_mine` appends a block to a chain it copied earlier. So `IInv` adds
that the copy is the main chain or is shorter (`CopyInv`: the main chain only
changes to a longer one), that equal lengths therefore mean an unchanged chain
(`BlockInv`), where the lock is held (`LockInv`), that the mining thread never
gets past step 3 (`PcInv`), and that chains that are indexed are not empty
(`NonEmptyInv`, `ContenderInv`). `BevaliProofs` has a lemma per action.

**The longest chain** (`LInv`). A secondary chain could become longer than the
main one if a fork were made on the main chain's head. Step 3 of `processBlock`
excludes the head that it sees, but the mining thread may add a block before
step 6 looks. That block is not anybody's parent yet: nobody builds on a block
before it is broadcast (`ForkInv`, `MinedInv`). A block that was broadcast and
not added was invalid, and peers do not build on it. `ChallengeInv` covers the
moment between the extension of the secondary chains and the comparison.

**Acting on an earlier look** (`SInv` of `Bevali`). The main chain changes in
three ways only: the mining thread adds a block while it has the lock, the
processing thread ends its round while it can have it, or a user creates the
chain (`Adds`, `Settles`, `Begins` in `BlockProofs`). So between two steps of
`processBlock` it is the same, or it has one block more, of this node's own
mining. That block is nobody's parent yet (`OwnInv`, `ForkedInv`), which is why
an orphan has no parent even if steps 3, 4 and 6 saw different chains; and a
block that was validated before it does not belong on the longer chain, where
the test under the lock of step 3 gives it up (`ValidInv`). `ReadyInv`: who
broadcasts has a chain.

**The fork choice.** Every step of `Bevali` is a `learn`, a `choose` or leaves
both variables alone. That no step forgets a block needs `RemovalInv`: the
orphans that `processBlockchain` removes are blocks of the chain that it then
installs, keeps, or has already; and `IInv` for the chain that `choose` takes, which must
be linked and longer.

**Contracts.** The invariant of the chain is simple (`IInv` of `ContractProofs`: it
is linked and all this node's); the work is in the operators. The walk of
`findState` is a recursive function on the positions, and its invariants
(`After` within a block, `Seen` over the blocks) say that each key met has the
value that its first writer on the way gives it. They hold at every position
because there is no least position where they fail, an argument about a set of
numbers that needs no induction theorem. `ExecutedIsValid` then follows because
`exec` looks at the whole chain, `validate` at the part below the block's
number, and on a linked chain these are the same for the block that comes next
(`SameOutcome`). Its condition `Sound` names what `validate` asks for beside the
outcome: a signature, on the submissions and on the results, and that no result
is an invocation, which `exec` does not run. `ValidityLasts` compares every
first part of the chain with the whole of it. It needs that a chain which grows
keeps its first creation of a contract and its cut (`SameContract`,
`SameBefore`, `StaysValid`), and it is about code that computes the same on the
longer chain: code that never looks at the chain always does. For `NothingIsLost`, the walk of `findCommonBlock` meets no equal
blocks before the one where two chains part, since the other miner's name is in
each later block of its chain (`CommonBlock`); from there on the code collects
just the blocks of the fork (`ListFrom`).

**A stop is complete** (`IInv` of `ThreadManager`). Each `wait` that has ended
was ended by a thread of its own (`WokenInv`): a thread notifies once, and a
waiting caller is woken once. N waits take N threads.

**Routers.** `RInv` says what each buffer, table and connection holds: who a
message is from and to, on which connection it is, that a socket in a table is
between the two nodes of the entry, and that connections are numbered without
gaps, so that a new one is new. `MInv` adds why the tables match: they do at
every open connection (`TablesMatch`), an accepted connection is new to the one
who accepts it (`BacklogInv`), and, as long as nobody stops, of a connection
that is no longer read the end that created it is closed last, when nothing of
it is left at the other end (`Calm`): without the order in which the two ends
close, a `ConnectMessage` opened late would put a closed socket on the list, as
it does in `deaf_router`. A user who connects twice before a stop
can bring about the same. `FirstInv` is for `DeafOnlyIfCrossed`: what a node
has for another that it knows nothing of begins with a `ConnectMessage`
(`AnnounceInv`), and if only one of two nodes creates connections there is one,
whose `ConnectMessage` the other has, or has had (`AloneInv`). These invariants
are in `RouterProofs`.

**The promise of the routers** (`DInv` of `DeliveryProofs`). Opening a data
message must be a `deliver`: the data is for this node, has not been received
yet, and nothing that its sender sent after it has. What one node sends another
goes through four stages: it waits to be sent (`ToTransmit`), is under way
(`ToRead`), has been read (`ToOpen`), is received (`Received`). Within a stage
and between two of them the data is in order (`OrderInv`): what is further on
was called first, or its sender was stopped between the two calls (`InTurn`).
That would fail with two connections that both carry data, so `CurrentInv` says
that all a node sent since it started is on the connection in its table, as long
as the other end can read it there. For that entry to change, the node must have
closed that connection, or got its `ConnectMessage` late; `GoneInv` says that
then the other end is closed too and what was under way is lost. A broadcast
that is forwarded takes many ways, and has no order; it is received once
because what was received has been seen (`OnceInv`), and it does not come back
to a caller that has not been stopped, because the caller has seen it
(`CarriesInv`). A node that stops forgets both what it received and what it has
seen. `DInv` needs `RInv` and `MInv`.

**Nodes that join** (`JInv` of `Joining`). Whatever is under way, on the wire,
in a queue or in a thread, is bounded by the chain of the miner: a chain is no
longer, and a block is one of its blocks. A chain sent by a node that has had
one from the start is never empty, wherever it is, so that the node which is
notified of it has a chain in its queue or has taken one from there.

Each invariant was checked by TLC under the configurations of the runs, with the
definitions of the proof modules as invariants, before it was proved.

**Only model-checked.** Liveness, which the prover does not reach:
`ProcessingReturns`, `MiningReturns`, `StopReturns`, `HeardBothWays`,
`ForgetsTheDead`, `Delivered`, `CallReturns`, `SameChain`. Every invariant and
every action property of the runs that pass, and both refinements, are
theorems.

## 5. What is left out

- `Router` sends a message in one piece: a stream that ends within one, on which
  `recv` would loop, is below its grain. `PeerRequestMessage`, which nobody
  sends. A router that stops does so when nobody calls it.
- `Bevali` does not build on `Router`: there the network delays, reorders and
  loses; `SoundPath` says that peers are honest, and imported
  chains may be tampered with in one block.
- `Joining` does not build on `Router`: connections do not break there, nobody
  stops, and no two nodes call each other. It has no transactions and one miner.
- Encryption: a signature verifies or does not. Evaluation scripts.
- Contract code does not change the chain it is given, and depends on nothing
  else than what it is given. A creation and an update carry a dictionary as
  their state, perhaps an empty one: on a `None` that a user put there
  `findState` raises, and `exec` returns `None`.
- `createNewChain` sets an empty chain with the new target and then adds the
  genesis block, without a lock. It is one step, of a user that calls it when
  no other chain has come.
- A user submits each transaction once. The threads of a node are running;
  starting and stopping them is in `ThreadManager`. A component is started
  before it is stopped, by one thread.

## 6. Plan

1. Several nodes with forks: `Bevali` with peers that are nodes of the same
   kind, on a network of two.
2. A miner with more than one thread's calls: two users who start and stop the
   same component.
