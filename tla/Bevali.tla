------------------------------- MODULE Bevali -------------------------------
(***************************************************************************)
(* One node of the network (bevali/bevali.py): the processing thread that  *)
(* takes blocks and chains off the queues, the mining thread, and the      *)
(* chains, the orphans and the pool that they share.  The other nodes are  *)
(* the environment: they mine, and what they mine or hold reaches this     *)
(* node late, out of order or not at all.                                  *)
(*                                                                         *)
(* A step of a thread is what it does under one acquisition of a lock.     *)
(* processBlock takes and drops a lock at each of its numbered steps, so   *)
(* the other thread can run in between, except that the mining thread      *)
(* keeps blockchainLock around its whole call.                             *)
(***************************************************************************)
EXTENDS Transactions, FiniteSets

CONSTANTS
  Self,          \* this node
  Submissions,   \* the transactions that users sign and submit
  BatchSize,     \* TRANSACTIONS_TO_MINE
  DisableChecks, \* the values that the testing switch disableChecks may have
  InitTarget,    \* the target of the empty chain a node starts with
  NoThread,
  Bounds         \* bounds <<blocks, chains>>: a behaviour stays within one
                 \* of them, so that many blocks go with few chains received

ASSUME BevaliAssumption ==
  /\ Self \in Miners
  /\ Submissions \subseteq Tx
  /\ BatchSize \in Nat \ {0}
  /\ DisableChecks \subseteq BOOLEAN
  /\ InitTarget \in Targets
  /\ NoThread \notin {"processing", "minning"}
  /\ Bounds \subseteq Nat \X Nat

VARIABLES
  blockchain,      \* the main chain
  secondaryChains, \* the list of other chains
  orphanBlocks,    \* the list of blocks with no place
  pool,            \* the transactions waiting, each by its number in arrived
  arrived,         \* every transaction that was put in the pool, in order
  lock,            \* the thread that holds blockchainLock between its steps
  pc,              \* what each thread does next
  block,           \* the block each thread is processing
  contender,       \* the secondary chain that may replace the main chain
  newChain,        \* the chain that processBlockchain is examining
  visited,         \* the number of orphans it has looked at
  removalList,     \* the orphans it found in that chain
  batch,           \* the transactions taken from the pool, by number
  executed,        \* those of them that were executed
  data,            \* what their execution returned
  mainCopy,        \* the copy of the main chain being mined on
  mined,           \* every block that was mined and sent, here or elsewhere
  received,        \* those of them that were handed to this node
  imports          \* the number of chains received

chains   == <<blockchain, secondaryChains, orphanBlocks>>
import   == <<newChain, visited, removalList>>
mining   == <<batch, executed, data, mainCopy>>
network  == <<mined, received, imports>>
threads  == <<pc, block, contender>>
vars     == <<chains, pool, arrived, lock, threads, import, mining, network>>

Threads == {"processing", "minning"}

EmptyChain == [target |-> InitTarget, chain |-> <<>>]

Init ==
  /\ blockchain = EmptyChain /\ secondaryChains = <<>> /\ orphanBlocks = <<>>
  /\ pool = {} /\ arrived = <<>>
  /\ lock = NoThread
  /\ pc = [t \in Threads |-> "loop"]
  /\ block = [t \in Threads |-> Genesis]
  /\ contender = 0
  /\ newChain = EmptyChain /\ visited = 0 /\ removalList = <<>>
  /\ batch = {} /\ executed = {} /\ data = <<>> /\ mainCopy = EmptyChain
  /\ mined = {} /\ received = {} /\ imports = 0

-----------------------------------------------------------------------------
(* Helpers.                                                                *)

\* Mutant: a Lock in place of the RLock.
FreeForAll(t) == lock = NoThread

\* Mutant: no lock at all.
AlwaysFree(t) == t \in Threads

\* blockchainLock is reentrant; a step that takes and drops it needs this.
Free(t) == lock \in {t, NoThread}

Goto(t, label) == pc' = [pc EXCEPT ![t] = label]

Proceed(t, label) == Goto(t, label) /\ UNCHANGED block

\* processBlock returns: to the loop that got the block from the queue, or to
\* _mine, which broadcasts the block whatever processBlock returned.
Return(t) ==
  IF t = "minning" THEN Goto(t, "broadcast") /\ UNCHANGED block
  ELSE Goto(t, "loop") /\ block' = [block EXCEPT ![t] = Genesis]

\* releaseTransactionsFromNewBlock.  pool.remove compares by identity, and a
\* block shares transaction objects with the pool only if it was mined here.
releaseTransactionsFromNewBlock(t) ==
  pool' = pool \ (IF t = "minning" THEN batch ELSE {})

\* Mutant: off by one.
LongerByTwo(c, d) == Len(c.chain) > Len(d.chain) + 1

\* The rule that decides which of two chains is the main one.
Longer(c, d) == Len(c.chain) > Len(d.chain)

RemoveAt(s, i) == SubSeq(s, 1, i - 1) \o SubSeq(s, i + 1, Len(s))

-----------------------------------------------------------------------------
(* processBlock, a step per lock it takes.                                 *)

\* 1) newBlockHashValid
newBlockHashValid(t) ==
  /\ pc[t] = "hash" /\ Free(t)
  /\ IF block_valid(blockchain, block[t]) THEN Proceed(t, "transactions")
     ELSE Return(t)
  /\ UNCHANGED <<chains, pool, arrived, lock, contender, import, mining,
                 network>>

\* Mutant: a node does not check what it mined itself.
newBlockOfOthersValid(t) ==
  /\ pc[t] = "transactions" /\ Free(t)
  /\ IF t = "minning" \/ transactionsValid(blockchain.chain, block[t])
     THEN Proceed(t, "main") ELSE Return(t)
  /\ UNCHANGED <<chains, pool, arrived, lock, contender, import, mining,
                 network>>

\* 2) newBlockTransactionsValid, always against the main chain
newBlockTransactionsValid(t) ==
  /\ pc[t] = "transactions" /\ Free(t)
  /\ IF transactionsValid(blockchain.chain, block[t]) THEN Proceed(t, "main")
     ELSE Return(t)
  /\ UNCHANGED <<chains, pool, arrived, lock, contender, import, mining,
                 network>>

\* 3) newBlockBelongsOnMainChain
newBlockBelongsOnMainChain(t) ==
  /\ pc[t] = "main" /\ Free(t)
  /\ ~IsEmpty(blockchain)
  /\ IF block_belongs(blockchain, block[t])
     THEN /\ releaseTransactionsFromNewBlock(t)
          /\ blockchain' = add_block(blockchain, block[t])
          /\ Return(t)
     ELSE Proceed(t, "secondary") /\ UNCHANGED <<pool, blockchain>>
  /\ UNCHANGED <<secondaryChains, orphanBlocks, arrived, lock, contender,
                 import, mining, network>>

\* On an empty main chain the step above raises, and the thread's loop drops
\* the block; the mining thread's "with" statement gives the lock back.
noMainChain(t) ==
  /\ pc[t] = "main" /\ Free(t)
  /\ IsEmpty(blockchain)
  /\ Goto(t, "loop") /\ block' = [block EXCEPT ![t] = Genesis]
  /\ lock' = NoThread
  /\ UNCHANGED <<chains, pool, arrived, contender, import, mining, network>>

\* 4) newBlockBelongsOnSecondaryChains: every chain the block extends gets it,
\* and the last of them is the contender.  secondaryChainsLock, taken from here
\* on, has no variable: the mining thread never gets here (MinedAtHead), and the
\* other thread takes no lock while it has it.
newBlockBelongsOnSecondaryChains(t) ==
  LET extends == {i \in DOMAIN secondaryChains :
                    block_belongs(secondaryChains[i], block[t])}
  IN  /\ pc[t] = "secondary"
      /\ secondaryChains' = [i \in DOMAIN secondaryChains |->
                               IF i \in extends
                               THEN add_block(secondaryChains[i], block[t])
                               ELSE secondaryChains[i]]
      /\ IF extends = {} THEN Proceed(t, "fork") /\ UNCHANGED contender
         ELSE /\ Proceed(t, "challenge")
              /\ contender' = CHOOSE i \in extends : \A j \in extends : j <= i
      /\ UNCHANGED <<blockchain, orphanBlocks, pool, arrived, lock, import,
                     mining, network>>

\* 5) challengeMainChain
challengeMainChain(t) ==
  /\ pc[t] = "challenge" /\ Free(t)
  /\ IF Longer(secondaryChains[contender], blockchain)
     THEN /\ releaseTransactionsFromNewBlock(t)
          /\ blockchain' = secondaryChains[contender]
          /\ secondaryChains' =
               Append(RemoveAt(secondaryChains, contender), blockchain)
     ELSE UNCHANGED <<pool, blockchain, secondaryChains>>
  /\ contender' = 0
  /\ Return(t)
  /\ UNCHANGED <<orphanBlocks, arrived, lock, import, mining, network>>

\* 6) newBlockCausedAFork: a parent's number of 0 counts as no parent
newBlockCausedAFork(t) ==
  LET number == is_prev_hash_in_chain(blockchain, block[t])
  IN  /\ pc[t] = "fork" /\ Free(t)
      /\ IF number # 0
         THEN /\ secondaryChains' =
                   Append(secondaryChains,
                          add_block(copyUpTo(blockchain, number), block[t]))
              /\ Return(t)
         ELSE Proceed(t, "orphan") /\ UNCHANGED secondaryChains
      /\ UNCHANGED <<blockchain, orphanBlocks, pool, arrived, lock, contender,
                     import, mining, network>>

\* 7) addOrphanBlock; processBlockchain holds orphanBlocksLock while it merges
orphansFree(t) ==
  t = "processing" \/ pc["processing"] \notin {"merge", "remove"}

addOrphanBlock(t) ==
  /\ pc[t] = "orphan" /\ orphansFree(t)
  /\ orphanBlocks' = Append(orphanBlocks, block[t])
  /\ Return(t)
  /\ UNCHANGED <<blockchain, secondaryChains, pool, arrived, lock, contender,
                 import, mining, network>>

processBlock(t) ==
  \/ newBlockHashValid(t)
  \/ newBlockTransactionsValid(t)
  \/ newBlockBelongsOnMainChain(t)
  \/ noMainChain(t)
  \/ newBlockBelongsOnSecondaryChains(t)
  \/ challengeMainChain(t)
  \/ newBlockCausedAFork(t)
  \/ addOrphanBlock(t)

-----------------------------------------------------------------------------
(* The processing thread: a block or a chain comes off its queue.          *)

receiveBlock ==
  /\ pc["processing"] = "loop"
  /\ \E b \in mined \ received :
       /\ received' = received \cup {b}
       /\ block' = [block EXCEPT !["processing"] = b]
  /\ Goto("processing", "hash")
  /\ UNCHANGED <<chains, pool, arrived, lock, contender, import, mining,
                 mined, imports>>

\* What a peer may send as its chain: nothing yet, the path to a block, or a
\* path with an inner block replaced by another one of the same number.
SentChains ==
  {<<>>} \cup {Path(b) : b \in mined \cup {Genesis}}
     \cup UNION {{[Path(b) EXCEPT ![Len(x) + 1] = x] :
                    x \in {y \in mined : Len(y) < Len(b)}} : b \in mined}

\* processBlockchain up to the first lock: an empty chain and one that fails
\* check_integrity are dropped.
receiveBlockchain ==
  /\ pc["processing"] = "loop"
  /\ \E l \in Bounds : Cardinality(mined) <= l[1] /\ imports < l[2]
  /\ imports' = imports + 1
  /\ \E blocks \in SentChains, target \in Targets :
       LET c == [target |-> target, chain |-> blocks]
       IN  IF ~IsEmpty(c) /\ check_integrity(c)
           THEN newChain' = c /\ Goto("processing", "merge")
           ELSE UNCHANGED <<newChain, pc>>
  /\ UNCHANGED <<chains, pool, arrived, lock, block, contender, visited,
                 removalList, mining, mined, received>>

\* The loop over the orphans, under orphanBlocksLock.
mergeOrphan ==
  LET orphan == orphanBlocks[visited + 1]
  IN  /\ pc["processing"] = "merge"
      /\ visited < Len(orphanBlocks)
      /\ visited' = visited + 1
      /\ IF is_block_in_chain(newChain, orphan)
         THEN removalList' = Append(removalList, orphan) /\ UNCHANGED newChain
         ELSE /\ newChain' = IF block_belongs(newChain, orphan)
                             THEN add_block(newChain, orphan) ELSE newChain
              /\ UNCHANGED removalList
      /\ UNCHANGED <<chains, pool, arrived, lock, threads, mining, network>>

mergeDone ==
  /\ pc["processing"] = "merge"
  /\ visited = Len(orphanBlocks)
  /\ visited' = 0
  /\ Goto("processing", "remove")
  /\ UNCHANGED <<chains, pool, arrived, lock, block, contender, newChain,
                 removalList, mining, network>>

\* list.remove takes the first block that is equal
removeOrphan ==
  /\ pc["processing"] = "remove"
  /\ removalList # <<>>
  /\ \E i \in DOMAIN orphanBlocks :
       /\ orphanBlocks[i] = Head(removalList)
       /\ \A j \in 1..(i - 1) : orphanBlocks[j] # Head(removalList)
       /\ orphanBlocks' = RemoveAt(orphanBlocks, i)
  /\ removalList' = Tail(removalList)
  /\ UNCHANGED <<blockchain, secondaryChains, pool, arrived, lock, threads,
                 newChain, visited, mining, network>>

\* Mutant: the old main chain is dropped.
WithoutOldChain == secondaryChains

\* The secondary chains with the main chain that is replaced, unless empty.
WithOldChain == IF IsEmpty(blockchain) THEN secondaryChains
                ELSE Append(secondaryChains, blockchain)

\* The chain becomes the main chain if it is longer, nothing if it is equal,
\* and a secondary chain otherwise.
installBlockchain ==
  /\ pc["processing"] = "remove" /\ removalList = <<>>
  /\ Free("processing")
  /\ IF Longer(newChain, blockchain)
     THEN /\ blockchain' = newChain
          /\ secondaryChains' = WithOldChain
     ELSE /\ secondaryChains' = IF is_equal(blockchain, newChain)
                                THEN secondaryChains
                                ELSE Append(secondaryChains, newChain)
          /\ UNCHANGED blockchain
  /\ newChain' = EmptyChain
  /\ Goto("processing", "loop")
  /\ UNCHANGED <<orphanBlocks, pool, arrived, lock, block, contender, visited,
                 removalList, mining, network>>

\* The queues are empty and their get times out.
queuesEmpty == pc["processing"] = "loop" /\ UNCHANGED vars

processingThread ==
  \/ receiveBlock \/ receiveBlockchain
  \/ mergeOrphan \/ mergeDone \/ removeOrphan \/ installBlockchain
  \/ queuesEmpty
  \/ processBlock("processing")

-----------------------------------------------------------------------------
(* The mining thread.                                                      *)

\* pool.take: the oldest transactions leave the pool.
takeTransactions ==
  /\ pc["minning"] = "loop"
  /\ pool # {}
  /\ batch' = {i \in pool : Cardinality({j \in pool : j < i}) < BatchSize}
  /\ pool' = pool \ batch'
  /\ Goto("minning", "exec")
  /\ UNCHANGED <<chains, arrived, lock, block, contender, import, executed,
                 data, mainCopy, network>>

\* The loop that executes the batch, one transaction a step, all of it under
\* one hold of blockchainLock.
execTransaction ==
  /\ pc["minning"] = "exec" /\ Free("minning")
  /\ \E i \in batch \ executed :
       /\ \A j \in batch \ executed : i <= j
       /\ data' = data \o exec(blockchain.chain, arrived[i], 0)
       /\ executed' = executed \cup {i}
  /\ lock' = "minning"
  /\ UNCHANGED <<chains, pool, arrived, threads, import, batch, mainCopy,
                 network>>

execDone ==
  /\ pc["minning"] = "exec" /\ lock = "minning"
  /\ executed = batch
  /\ lock' = NoThread
  /\ Goto("minning", "copy")
  /\ UNCHANGED <<chains, pool, arrived, block, contender, import, mining,
                 network>>

\* _mine: copy the main chain, mine on the copy, then see if it is stale.
copyBlockchain ==
  /\ pc["minning"] = "copy" /\ Free("minning")
  /\ mainCopy' = blockchain
  /\ Goto("minning", "mine")
  /\ UNCHANGED <<chains, pool, arrived, lock, block, contender, import, batch,
                 executed, data, network>>

mineBlock ==
  /\ pc["minning"] = "mine"
  /\ ~IsEmpty(mainCopy)
  /\ block' = [block EXCEPT !["minning"] = mine_block(mainCopy, data, Self)]
  /\ Goto("minning", "commit")
  /\ UNCHANGED <<chains, pool, arrived, lock, contender, import, mining,
                 network>>

\* Mutant: the numbers of what was executed stay behind.
endRoundPartly ==
  /\ batch' = {} /\ data' = <<>> /\ mainCopy' = EmptyChain
  /\ block' = [block EXCEPT !["minning"] = Genesis]
  /\ Goto("minning", "loop") /\ UNCHANGED executed

\* What the mining thread forgets when a round is over, however it ended.
endRound ==
  /\ batch' = {} /\ executed' = {} /\ data' = <<>> /\ mainCopy' = EmptyChain
  /\ block' = [block EXCEPT !["minning"] = Genesis]
  /\ Goto("minning", "loop")

\* mine_block raises on an empty chain; the round is over.
mineNothing ==
  /\ pc["minning"] = "mine"
  /\ IsEmpty(mainCopy)
  /\ endRound
  /\ UNCHANGED <<chains, pool, arrived, lock, contender, import, network>>

\* Mutant: a chain that has grown is not noticed.
HasShrunk == Len(mainCopy.chain) > Len(blockchain.chain)

\* The test of _mine, before it commits, that its copy is no longer the chain.
IsStale == Len(mainCopy.chain) # Len(blockchain.chain)

\* The chain has grown meanwhile: _mine returns False, the round is over.
commitStale ==
  /\ pc["minning"] = "commit" /\ Free("minning")
  /\ IsStale
  /\ endRound
  /\ UNCHANGED <<chains, pool, arrived, lock, contender, import, network>>

\* The lock is kept from here until the block is broadcast.  A test may turn
\* the checks off and on, and then the block is appended as it is.
commitBlock ==
  /\ pc["minning"] = "commit" /\ Free("minning")
  /\ ~IsStale
  /\ lock' = "minning"
  /\ \/ /\ TRUE \in DisableChecks
        /\ blockchain' = add_block(blockchain, block["minning"])
        /\ Goto("minning", "broadcast")
     \/ /\ FALSE \in DisableChecks
        /\ Goto("minning", "hash") /\ UNCHANGED blockchain
  /\ UNCHANGED <<secondaryChains, orphanBlocks, pool, arrived, block,
                 contender, import, mining, network>>

\* The broadcast, the return of True and the removal of the batch from the
\* pool.  A node never gets its own broadcast back.
broadcastBlock ==
  /\ pc["minning"] = "broadcast"
  /\ mined' = mined \cup {block["minning"]}
  /\ received' = received \cup {block["minning"]}
  /\ lock' = NoThread
  /\ pool' = pool \ batch
  /\ endRound
  /\ UNCHANGED <<chains, arrived, contender, import, imports>>

minningThread ==
  \/ takeTransactions \/ execTransaction \/ execDone
  \/ copyBlockchain \/ mineBlock \/ mineNothing
  \/ commitStale \/ commitBlock \/ broadcastBlock
  \/ processBlock("minning")

-----------------------------------------------------------------------------
(* The users of the node and the other nodes.                              *)

\* createNewChain, by the user that starts a network.  The genesis block has
\* the time at which the process started: a node that creates its own cannot
\* join a network that has another.  The target and the chain are set by two
\* statements without a lock, one step here: between them the chain is empty as
\* before.
createNewChain ==
  /\ IsEmpty(blockchain) /\ mined = {}
  /\ \E target \in Targets :
       blockchain' = [target |-> target, chain |-> <<Genesis>>]
  /\ UNCHANGED <<secondaryChains, orphanBlocks, pool, arrived, lock, threads,
                 import, mining, network>>

\* sendTransaction here, or the arrival of a transaction that a peer sent.
sendTransaction ==
  /\ \E tx \in Submissions \ Elems(arrived) :
       /\ arrived' = Append(arrived, tx)
       /\ pool' = pool \cup {Len(arrived) + 1}
  /\ UNCHANGED <<chains, lock, threads, import, mining, network>>

\* A peer mines a transaction on a block whose ancestors, itself included,
\* hold valid transactions.  It need not have seen what this node mined.
SoundPath(b) ==
  \A n \in 1..Len(b) :
    transactionsValid(Path(SubSeq(b, 1, n - 1)), SubSeq(b, 1, n))

peerMines ==
  /\ \E l \in Bounds : Cardinality(mined) < l[1] /\ imports <= l[2]
  /\ \E miner \in Miners \ {Self}, target \in Targets,
        b \in mined \cup {Genesis}, tx \in Submissions :
       /\ SoundPath(b)
       /\ mined' = mined \cup
            {Append(b, [miner |-> miner, work |-> target,
                        data |-> exec(Path(b), tx, 0)])}
  /\ UNCHANGED <<chains, pool, arrived, lock, threads, import, mining,
                 received, imports>>

environment == createNewChain \/ sendTransaction \/ peerMines

Next == processingThread \/ minningThread \/ environment

Spec == Init /\ [][Next]_vars

\* The scheduler runs each thread.  Nothing makes a peer or a user act, and
\* nothing makes a block or a chain arrive.
Fairness ==
  /\ WF_vars(processBlock("processing"))
  /\ WF_vars(mergeOrphan \/ mergeDone \/ removeOrphan \/ installBlockchain)
  /\ WF_vars(minningThread)

LiveSpec == Spec /\ Fairness

-----------------------------------------------------------------------------
(* Properties.                                                             *)

ProcessLabels == {"hash", "transactions", "main", "secondary", "challenge",
                  "fork", "orphan"}
ImportLabels  == {"merge", "remove"}
MiningLabels  == {"exec", "copy", "mine", "commit", "broadcast"}

ChainsOK ==
  /\ blockchain \in Chain /\ secondaryChains \in Seq(Chain)
  /\ orphanBlocks \in Seq(Block)

Labels == {"loop"} \cup ProcessLabels \cup ImportLabels \cup MiningLabels

ThreadsOK ==
  /\ lock \in {"minning", NoThread}
  /\ pc \in [Threads -> Labels]
  /\ block \in [Threads -> Block]
  /\ contender \in Nat

ImportOK ==
  newChain \in Chain /\ visited \in Nat /\ removalList \in Seq(Block)

MiningOK ==
  /\ arrived \in Seq(Tx)
  /\ pool \subseteq 1..Len(arrived) /\ batch \subseteq 1..Len(arrived)
  /\ executed \subseteq batch
  /\ data \in Seq(Elements) /\ mainCopy \in Chain

NetworkOK == mined \subseteq Block /\ received \subseteq mined /\ imports \in Nat

\* Every variable holds what the code keeps in it (the constructor of Bevali):
\* of the pool, only objects that arrived are waiting or being mined.
TypeOK == ChainsOK /\ ThreadsOK /\ ImportOK /\ MiningOK /\ NetworkOK

\* Whatever blocks and chains come in, in whatever order, each chain the node
\* keeps or mines on starts at the genesis block, and each of its blocks stands
\* at its blockNumber and names the block before it (add_block is called
\* without that check by newBlockCausedAFork, _mine and processBlockchain).
ChainsLinked ==
  /\ \A c \in {blockchain, newChain, mainCopy} : Linked(c.chain)
  /\ \A i \in DOMAIN secondaryChains :
       Linked(secondaryChains[i].chain) /\ ~IsEmpty(secondaryChains[i])

\* The node is on the longest chain it knows: no secondary chain is longer
\* than the main one, but for the moment between newBlockBelongsOnSecondary-
\* Chains, which extends every chain it can, and challengeMainChain, which
\* compares one of them, without a lock held in between.
LongestChain ==
  \A i \in DOMAIN secondaryChains :
    Len(secondaryChains[i].chain) <=
      Len(blockchain.chain) + (IF pc["processing"] = "challenge" THEN 1 ELSE 0)

\* _mine compares only the lengths of its copy and the main chain before it
\* commits: equal lengths do mean an unchanged chain, though the processing
\* thread may have replaced the chain meanwhile, so a block mined here reaches
\* processBlock only with its parent at the head and is never a fork or orphan.
MinedAtHead ==
  /\ pc["minning"] \in {"hash", "transactions", "main"} =>
       blockchain = mainCopy /\ Follows(block["minning"], Newest(blockchain))
  /\ pc["minning"] \notin {"secondary", "challenge", "fork", "orphan"}

\* A block mined here whose transactions are valid is at the head of the node's
\* own main chain when the node broadcasts it (_mine broadcasts without looking
\* at what processBlock returned).
BroadcastAtHead ==
  pc["minning"] = "broadcast" /\ SoundPath(block["minning"]) =>
    Newest(blockchain) = block["minning"]

\* The blocks the node keeps anywhere.
Known ==
  Blocks(blockchain) \cup Elems(orphanBlocks) \cup Blocks(newChain)
    \cup UNION {Blocks(secondaryChains[i]) : i \in DOMAIN secondaryChains}

FromOutside == INSTANCE ForkChoice WITH known <- Known, chosen <- blockchain.chain

\* The node implements ForkChoice.  No block that it keeps is ever lost by the
\* moves between the main chain, the secondary chains, the orphans and the chain
\* being imported (challengeMainChain swaps two chains, processBlockchain removes
\* orphans before it decides what becomes of the new chain), and the main chain
\* is replaced only by a longer path of blocks that are kept.
ChoosesForks == FromOutside!Spec

\* A block joins the main chain in processBlock only if its transactions are
\* valid on the very chain it joins, though newBlockTransactionsValid dropped
\* the lock after it looked and the mining thread may have added a block.
ValidWhereItJoins ==
  [][\A t \in Threads :
       pc[t] = "main" /\ blockchain' = add_block(blockchain, block[t]) =>
         transactionsValid(blockchain.chain, block[t])]_vars

\* A block is called an orphan only if no block after the genesis block of the
\* main chain and no head of a secondary chain is its parent, though steps 3,
\* 4 and 6 of processBlock looked at different times, under different locks.
OrphanHasNoParent ==
  pc["processing"] = "orphan" =>
    LET b == block["processing"]
    IN  /\ \A i \in 2..Len(blockchain.chain) : ~Follows(b, blockchain.chain[i])
        /\ \A i \in DOMAIN secondaryChains :
             ~block_belongs(secondaryChains[i], b)

\* The processing thread comes back to its queues: no block and no chain
\* leaves it waiting for a lock for ever, or without an orphan to remove.
ProcessingReturns == pc["processing"] # "loop" ~> pc["processing"] = "loop"

\* The mining thread ends its rounds, and so gives back blockchainLock.
MiningReturns == pc["minning"] # "loop" ~> pc["minning"] = "loop"

-----------------------------------------------------------------------------
(* The inductive invariant behind the safety properties.                   *)

\* Where the threads can be: the mining thread never gets past step 3.
PcInv ==
  /\ pc["processing"] \in {"loop"} \cup ProcessLabels \cup ImportLabels
  /\ pc["minning"] \in {"loop"} \cup MiningLabels
                         \cup {"hash", "transactions", "main"}

\* When the mining thread keeps blockchainLock.
LockInv ==
  /\ lock = "minning" <=>
       \/ pc["minning"] \in {"hash", "transactions", "main", "broadcast"}
       \/ pc["minning"] = "exec" /\ executed # {}
  /\ pc["minning"] = "loop" => executed = {}

\* The main chain is the copy or has become longer than it.
CopyInv ==
  pc["minning"] \in {"mine", "commit", "hash", "transactions", "main"} =>
    \/ mainCopy = blockchain
    \/ Len(mainCopy.chain) < Len(blockchain.chain)

\* The block mined here extends the copy, and the copy is still the main chain
\* once the lock is held.
BlockInv ==
  /\ pc["minning"] \in {"commit", "hash", "transactions", "main"} =>
       /\ ~IsEmpty(mainCopy)
       /\ block_belongs(mainCopy, block["minning"])
  /\ pc["minning"] \in {"hash", "transactions", "main"} =>
       mainCopy = blockchain

\* The chain that is examined is not empty, and neither is the main chain once
\* step 3 of processBlock has looked at it.
NonEmptyInv ==
  /\ pc["processing"] \in ImportLabels => ~IsEmpty(newChain)
  /\ pc["processing"] \in {"secondary", "challenge", "fork", "orphan"} =>
       ~IsEmpty(blockchain)

\* The contender is on the list.
ContenderInv ==
  pc["processing"] = "challenge" => contender \in 1..Len(secondaryChains)

IInv == /\ TypeOK /\ ChainsLinked /\ PcInv /\ LockInv
        /\ CopyInv /\ BlockInv /\ NonEmptyInv /\ ContenderInv

\* No chain on the list is longer than both the main chain and the contender.
ChallengeInv ==
  pc["processing"] = "challenge" =>
    \A i \in DOMAIN secondaryChains :
      \/ Len(secondaryChains[i].chain) <= Len(blockchain.chain)
      \/ Len(secondaryChains[i].chain) = Len(secondaryChains[contender].chain)

\* A block that is past step 3 does not extend the main chain, even if the main
\* chain has grown since: nobody builds on a block before it is broadcast.
ForkInv ==
  /\ pc["processing"] \in ProcessLabels => block["processing"] \in mined
  /\ pc["processing"] \in {"transactions", "main"} =>
       block_valid(blockchain, block["processing"])
  /\ pc["processing"] \in {"secondary", "fork"} =>
       ~Follows(block["processing"], Newest(blockchain))

MinedHere(b) == b # Genesis /\ b[Len(b)].miner = Self

\* Of what was mined here, a block that is sound is lower than the main chain
\* is long, and so is each block that somebody built on.
MinedInv ==
  /\ \A b \in mined :
       /\ b # Genesis
       /\ MinedHere(b) /\ SoundPath(b) => Len(b) < Len(blockchain.chain)
       /\ MinedHere(Parent(b)) => Len(Parent(b)) < Len(blockchain.chain)
  /\ pc["minning"] \in {"commit", "hash", "transactions", "main", "broadcast"} =>
       MinedHere(block["minning"])
  /\ pc["minning"] = "broadcast" =>
       /\ Len(block["minning"]) <= Len(blockchain.chain)
       /\ SoundPath(block["minning"]) =>
            Len(block["minning"]) < Len(blockchain.chain)

\* The orphans that are to be removed are blocks of the chain that is examined,
\* and between two of these there is neither.
RemovalInv ==
  IF pc["processing"] \in ImportLabels
  THEN Elems(removalList) \subseteq Blocks(newChain)
  ELSE removalList = <<>> /\ newChain = EmptyChain

LInv == LongestChain /\ ChallengeInv /\ ForkInv /\ MinedInv

\* No block that was mined here comes back to be processed.
OwnInv ==
  /\ \A b \in mined \ received : ~MinedHere(b)
  /\ pc["processing"] \in ProcessLabels => ~MinedHere(block["processing"])

\* A block that step 3 may add is valid on the main chain as it is now.
ValidInv ==
  \A t \in Threads :
    /\ pc[t] = "main" /\ ~IsEmpty(blockchain)
    /\ Follows(block[t], Newest(blockchain))
    => transactionsValid(blockchain.chain, block[t])

\* What step 4 has seen of the secondary chains stays so for steps 6 and 7.
ForkedInv ==
  pc["processing"] \in {"fork", "orphan"} =>
    \A i \in DOMAIN secondaryChains :
      ~block_belongs(secondaryChains[i], block["processing"])

\* A block that is broadcast was added or is not sound.
ReadyInv ==
  pc["minning"] = "broadcast" => ~IsEmpty(blockchain)

SInv == /\ OwnInv /\ ValidInv /\ ForkedInv /\ ReadyInv
        /\ OrphanHasNoParent /\ BroadcastAtHead

-----------------------------------------------------------------------------
(* What comments of the code say and the code does not do.                 *)

\* "Check if block's prev hash is a part of main chain, if so, create a
\* secondary chain" (bevali.py, 386): so no orphan has its parent there.
ForkGetsAChain ==
  pc["processing"] = "orphan" =>
    \A p \in Blocks(blockchain) : ~Follows(block["processing"], p)

\* "When a new block comes to the blockchain, remove any transactions that are
\* in the pool" (bevali.py, 262).
NewBlockLeavesPool ==
  [][LET b == block["processing"]
     IN  pc["processing"] = "main" /\ blockchain' = add_block(blockchain, b) =>
           \A i \in pool' : arrived[i] \notin Elems(Data(b))]_vars

=============================================================================
