---------------------------- MODULE BevaliProofs ----------------------------
(***************************************************************************)
(* Proofs of the safety properties of Bevali for every value of its        *)
(* constants.                                                              *)
(***************************************************************************)
EXTENDS Bevali, ChainProofs

USE BevaliAssumption DEF Threads, Goto, chains, import, mining, network, threads

\* What a thread holds when it has nothing: the genesis block and the empty chain.
LEMMA EmptyValues ==
  /\ Genesis \in Block /\ EmptyChain \in Chain
  /\ Linked(EmptyChain.chain) /\ IsEmpty(EmptyChain)
  BY DEF Genesis, Block, EmptyChain, Chain, Linked, IsEmpty

\* Step 1 of processBlock moves a thread and changes no chain.
LEMMA NewBlockHashValidInv ==
  ASSUME IInv, NEW t \in Threads, newBlockHashValid(t)
  PROVE  IInv'
  <1> USE DEF IInv, TypeOK
  <1>1. TypeOK'
    <2>1. ChainsOK' /\ ImportOK'
      BY DEF newBlockHashValid, Return, Proceed, ChainsOK, ImportOK
    <2>2. MiningOK' /\ NetworkOK'
      BY EmptyValues DEF newBlockHashValid, Return, Proceed, MiningOK, NetworkOK
    <2>3. ThreadsOK'
      BY EmptyValues DEF newBlockHashValid, Return, Proceed, ThreadsOK, Labels, ProcessLabels,
                         MiningLabels, ImportLabels
    <2> QED
      BY <2>1, <2>2, <2>3
  <1>2. ChainsLinked'
    BY EmptyValues DEF newBlockHashValid, Return, Proceed, ChainsLinked, ThreadsOK
  <1>3. PcInv' /\ LockInv'
    BY DEF newBlockHashValid, Return, Proceed, PcInv, LockInv, ThreadsOK, ProcessLabels, ImportLabels,
           MiningLabels
  <1>4. CopyInv' /\ BlockInv'
    BY DEF newBlockHashValid, Return, Proceed, CopyInv, BlockInv, ThreadsOK
  <1>5. NonEmptyInv' /\ ContenderInv'
    BY DEF newBlockHashValid, Return, Proceed, NonEmptyInv, ContenderInv, ThreadsOK, ImportLabels
  <1> QED
    BY <1>1, <1>2, <1>3, <1>4, <1>5

\* Step 2 too.
LEMMA NewBlockTransactionsValidInv ==
  ASSUME IInv, NEW t \in Threads, newBlockTransactionsValid(t)
  PROVE  IInv'
  <1> USE DEF IInv, TypeOK
  <1>1. TypeOK'
    <2>1. ChainsOK' /\ ImportOK'
      BY DEF newBlockTransactionsValid, Return, Proceed, ChainsOK, ImportOK
    <2>2. MiningOK' /\ NetworkOK'
      BY EmptyValues DEF newBlockTransactionsValid, Return, Proceed, MiningOK, NetworkOK
    <2>3. ThreadsOK'
      BY EmptyValues DEF newBlockTransactionsValid, Return, Proceed, ThreadsOK, Labels, ProcessLabels,
                         MiningLabels, ImportLabels
    <2> QED
      BY <2>1, <2>2, <2>3
  <1>2. ChainsLinked'
    BY EmptyValues DEF newBlockTransactionsValid, Return, Proceed, ChainsLinked, ThreadsOK
  <1>3. PcInv' /\ LockInv'
    BY DEF newBlockTransactionsValid, Return, Proceed, PcInv, LockInv, ThreadsOK, ProcessLabels, ImportLabels,
           MiningLabels
  <1>4. CopyInv' /\ BlockInv'
    BY DEF newBlockTransactionsValid, Return, Proceed, CopyInv, BlockInv, ThreadsOK
  <1>5. NonEmptyInv' /\ ContenderInv'
    BY DEF newBlockTransactionsValid, Return, Proceed, NonEmptyInv, ContenderInv, ThreadsOK, ImportLabels
  <1> QED
    BY <1>1, <1>2, <1>3, <1>4, <1>5

\* Only the processing thread can find the main chain empty: a block mined here
\* has a parent on it.
LEMMA NoMainChainInv ==
  ASSUME IInv, NEW t \in Threads, noMainChain(t)
  PROVE  IInv'
  <1> USE DEF IInv, TypeOK
  <1>1. TypeOK'
    <2>1. ChainsOK' /\ ImportOK'
      BY DEF noMainChain, ChainsOK, ImportOK
    <2>2. MiningOK' /\ NetworkOK'
      BY EmptyValues DEF noMainChain, MiningOK, NetworkOK
    <2>3. ThreadsOK'
      BY EmptyValues DEF noMainChain, ThreadsOK, Labels, ProcessLabels,
                         MiningLabels, ImportLabels
    <2> QED
      BY <2>1, <2>2, <2>3
  <1>2. ChainsLinked'
    BY EmptyValues DEF noMainChain, ChainsLinked, ThreadsOK
  <1>3. PcInv' /\ LockInv'
    <2>1. t = "processing"
      BY DEF noMainChain, BlockInv
    <2> QED
      BY <2>1 DEF noMainChain, Free, PcInv, LockInv, ThreadsOK
  <1>4. CopyInv' /\ BlockInv'
    BY DEF noMainChain, CopyInv, BlockInv, ThreadsOK
  <1>5. NonEmptyInv' /\ ContenderInv'
    BY DEF noMainChain, NonEmptyInv, ContenderInv, ThreadsOK, ImportLabels
  <1> QED
    BY <1>1, <1>2, <1>3, <1>4, <1>5

\* A block that is received is a block, since only blocks were mined.
LEMMA ReceiveBlockInv ==
  ASSUME IInv, receiveBlock
  PROVE  IInv'
  <1> USE DEF IInv, TypeOK
  <1>1. TypeOK'
    <2>1. ChainsOK' /\ ImportOK'
      BY DEF receiveBlock, ChainsOK, ImportOK
    <2>2. MiningOK' /\ NetworkOK'
      BY EmptyValues DEF receiveBlock, MiningOK, NetworkOK
    <2>3. ThreadsOK'
      BY DEF receiveBlock, ThreadsOK, Labels, ProcessLabels, NetworkOK
    <2> QED
      BY <2>1, <2>2, <2>3
  <1>2. ChainsLinked'
    BY EmptyValues DEF receiveBlock, ChainsLinked, ThreadsOK
  <1>3. PcInv' /\ LockInv'
    BY DEF receiveBlock, PcInv, LockInv, ThreadsOK, ProcessLabels, ImportLabels,
           MiningLabels
  <1>4. CopyInv' /\ BlockInv'
    BY DEF receiveBlock, CopyInv, BlockInv, ThreadsOK
  <1>5. NonEmptyInv' /\ ContenderInv'
    BY DEF receiveBlock, NonEmptyInv, ContenderInv, ThreadsOK, ImportLabels
  <1> QED
    BY <1>1, <1>2, <1>3, <1>4, <1>5

\* The end of the loop over the orphans.
LEMMA MergeDoneInv ==
  ASSUME IInv, mergeDone
  PROVE  IInv'
  <1> USE DEF IInv, TypeOK
  <1>1. TypeOK'
    <2>1. ChainsOK' /\ ImportOK'
      BY DEF mergeDone, ChainsOK, ImportOK
    <2>2. MiningOK' /\ NetworkOK'
      BY EmptyValues DEF mergeDone, MiningOK, NetworkOK
    <2>3. ThreadsOK'
      BY EmptyValues DEF mergeDone, ThreadsOK, Labels, ProcessLabels,
                         MiningLabels, ImportLabels
    <2> QED
      BY <2>1, <2>2, <2>3
  <1>2. ChainsLinked'
    BY EmptyValues DEF mergeDone, ChainsLinked, ThreadsOK
  <1>3. PcInv' /\ LockInv'
    BY DEF mergeDone, PcInv, LockInv, ThreadsOK, ProcessLabels, ImportLabels,
           MiningLabels
  <1>4. CopyInv' /\ BlockInv'
    BY DEF mergeDone, CopyInv, BlockInv, ThreadsOK
  <1>5. NonEmptyInv' /\ ContenderInv'
    BY DEF mergeDone, NonEmptyInv, ContenderInv, ThreadsOK, ImportLabels
  <1> QED
    BY <1>1, <1>2, <1>3, <1>4, <1>5

\* The batch is part of what was in the pool, and nothing of it was executed.
LEMMA TakeTransactionsInv ==
  ASSUME IInv, takeTransactions
  PROVE  IInv'
  <1> USE DEF IInv, TypeOK
  <1>1. TypeOK'
    <2>1. ChainsOK' /\ ImportOK'
      BY DEF takeTransactions, ChainsOK, ImportOK
    <2>2. MiningOK' /\ NetworkOK'
      <3>1. executed = {} /\ batch' \subseteq pool /\ pool' \subseteq pool
        BY DEF takeTransactions, LockInv
      <3> QED
        BY <3>1 DEF takeTransactions, MiningOK, NetworkOK
    <2>3. ThreadsOK'
      BY EmptyValues DEF takeTransactions, ThreadsOK, Labels, ProcessLabels,
                         MiningLabels, ImportLabels
    <2> QED
      BY <2>1, <2>2, <2>3
  <1>2. ChainsLinked'
    BY EmptyValues DEF takeTransactions, ChainsLinked, ThreadsOK
  <1>3. PcInv' /\ LockInv'
    BY DEF takeTransactions, PcInv, LockInv, ThreadsOK, ProcessLabels, ImportLabels,
           MiningLabels
  <1>4. CopyInv' /\ BlockInv'
    BY DEF takeTransactions, CopyInv, BlockInv, ThreadsOK
  <1>5. NonEmptyInv' /\ ContenderInv'
    BY DEF takeTransactions, NonEmptyInv, ContenderInv, ThreadsOK, ImportLabels
  <1> QED
    BY <1>1, <1>2, <1>3, <1>4, <1>5

\* What an execution returns are transactions, or None for a failed one.
LEMMA ExecTransactionInv ==
  ASSUME IInv, execTransaction
  PROVE  IInv'
  <1> USE DEF IInv, TypeOK
  <1>1. TypeOK'
    <2>1. ChainsOK' /\ ImportOK'
      BY DEF execTransaction, Free, ChainsOK, ImportOK
    <2>2. MiningOK' /\ NetworkOK'
      <3>1. PICK i \in batch \ executed :
              /\ data' = data \o exec(blockchain.chain, arrived[i], 0)
              /\ executed' = executed \cup {i}
        BY DEF execTransaction
      <3>2. arrived[i] \in Tx /\ blockchain.chain \in Seq(Block)
        BY DEF MiningOK, ChainsOK, Chain
      <3>3. data' \in Seq(Elements)
        BY <3>1, <3>2, ExecType, ConcatProperties DEF MiningOK
      <3> QED
        BY <3>1, <3>3 DEF execTransaction, MiningOK, NetworkOK
    <2>3. ThreadsOK'
      BY EmptyValues DEF execTransaction, Free, ThreadsOK, Labels, ProcessLabels,
                         MiningLabels, ImportLabels
    <2> QED
      BY <2>1, <2>2, <2>3
  <1>2. ChainsLinked'
    BY EmptyValues DEF execTransaction, Free, ChainsLinked, ThreadsOK
  <1>3. PcInv' /\ LockInv'
    BY DEF execTransaction, Free, PcInv, LockInv, ThreadsOK, ProcessLabels, ImportLabels,
           MiningLabels
  <1>4. CopyInv' /\ BlockInv'
    BY DEF execTransaction, Free, CopyInv, BlockInv, ThreadsOK
  <1>5. NonEmptyInv' /\ ContenderInv'
    BY DEF execTransaction, Free, NonEmptyInv, ContenderInv, ThreadsOK, ImportLabels
  <1> QED
    BY <1>1, <1>2, <1>3, <1>4, <1>5

\* blockchainLock is given back when the whole batch has been executed.
LEMMA ExecDoneInv ==
  ASSUME IInv, execDone
  PROVE  IInv'
  <1> USE DEF IInv, TypeOK
  <1>1. TypeOK'
    <2>1. ChainsOK' /\ ImportOK'
      BY DEF execDone, ChainsOK, ImportOK
    <2>2. MiningOK' /\ NetworkOK'
      BY EmptyValues DEF execDone, MiningOK, NetworkOK
    <2>3. ThreadsOK'
      BY EmptyValues DEF execDone, ThreadsOK, Labels, ProcessLabels,
                         MiningLabels, ImportLabels
    <2> QED
      BY <2>1, <2>2, <2>3
  <1>2. ChainsLinked'
    BY EmptyValues DEF execDone, ChainsLinked, ThreadsOK
  <1>3. PcInv' /\ LockInv'
    BY DEF execDone, PcInv, LockInv, ThreadsOK, ProcessLabels, ImportLabels,
           MiningLabels
  <1>4. CopyInv' /\ BlockInv'
    BY DEF execDone, CopyInv, BlockInv, ThreadsOK
  <1>5. NonEmptyInv' /\ ContenderInv'
    BY DEF execDone, NonEmptyInv, ContenderInv, ThreadsOK, ImportLabels
  <1> QED
    BY <1>1, <1>2, <1>3, <1>4, <1>5

\* The copy is the main chain when it is made.
LEMMA CopyBlockchainInv ==
  ASSUME IInv, copyBlockchain
  PROVE  IInv'
  <1> USE DEF IInv, TypeOK
  <1>1. TypeOK'
    <2>1. ChainsOK' /\ ImportOK'
      BY DEF copyBlockchain, ChainsOK, ImportOK
    <2>2. MiningOK' /\ NetworkOK'
      BY DEF copyBlockchain, MiningOK, NetworkOK, ChainsOK
    <2>3. ThreadsOK'
      BY EmptyValues DEF copyBlockchain, ThreadsOK, Labels, ProcessLabels,
                         MiningLabels, ImportLabels
    <2> QED
      BY <2>1, <2>2, <2>3
  <1>2. ChainsLinked'
    BY EmptyValues DEF copyBlockchain, ChainsLinked, ThreadsOK
  <1>3. PcInv' /\ LockInv'
    BY DEF copyBlockchain, PcInv, LockInv, ThreadsOK, ProcessLabels, ImportLabels,
           MiningLabels
  <1>4. CopyInv' /\ BlockInv'
    BY DEF copyBlockchain, CopyInv, BlockInv, ThreadsOK
  <1>5. NonEmptyInv' /\ ContenderInv'
    BY DEF copyBlockchain, NonEmptyInv, ContenderInv, ThreadsOK, ImportLabels
  <1> QED
    BY <1>1, <1>2, <1>3, <1>4, <1>5

\* What mine_block returns belongs on the copy.
LEMMA MineBlockInv ==
  ASSUME IInv, mineBlock
  PROVE  IInv'
  <1> USE DEF IInv, TypeOK
  <1> DEFINE b == mine_block(mainCopy, data, Self)
  <1>0. b \in Block /\ block_belongs(mainCopy, b)
    BY MineBlock DEF mineBlock, MiningOK
  <1>00. block' = [block EXCEPT !["minning"] = b]
    BY DEF mineBlock
  <1> HIDE DEF b
  <1>1. TypeOK'
    <2>1. ChainsOK' /\ ImportOK'
      BY DEF mineBlock, ChainsOK, ImportOK
    <2>2. MiningOK' /\ NetworkOK'
      BY EmptyValues DEF mineBlock, MiningOK, NetworkOK
    <2>3. ThreadsOK'
      BY <1>0, <1>00 DEF mineBlock, ThreadsOK, Labels, MiningLabels
    <2> QED
      BY <2>1, <2>2, <2>3
  <1>2. ChainsLinked'
    BY EmptyValues DEF mineBlock, ChainsLinked, ThreadsOK
  <1>3. PcInv' /\ LockInv'
    BY DEF mineBlock, PcInv, LockInv, ThreadsOK, ProcessLabels, ImportLabels,
           MiningLabels
  <1>4. CopyInv' /\ BlockInv'
    BY <1>0, <1>00 DEF mineBlock, CopyInv, BlockInv, ThreadsOK
  <1>5. NonEmptyInv' /\ ContenderInv'
    BY DEF mineBlock, NonEmptyInv, ContenderInv, ThreadsOK, ImportLabels
  <1> QED
    BY <1>1, <1>2, <1>3, <1>4, <1>5

\* A round that ends on an empty chain.
LEMMA MineNothingInv ==
  ASSUME IInv, mineNothing
  PROVE  IInv'
  <1> USE DEF IInv, TypeOK
  <1>1. TypeOK'
    <2>1. ChainsOK' /\ ImportOK'
      BY DEF mineNothing, endRound, ChainsOK, ImportOK
    <2>2. MiningOK' /\ NetworkOK'
      BY EmptyValues DEF mineNothing, endRound, MiningOK, NetworkOK
    <2>3. ThreadsOK'
      BY EmptyValues DEF mineNothing, endRound, ThreadsOK, Labels, ProcessLabels,
                         MiningLabels, ImportLabels
    <2> QED
      BY <2>1, <2>2, <2>3
  <1>2. ChainsLinked'
    BY EmptyValues DEF mineNothing, endRound, ChainsLinked, ThreadsOK
  <1>3. PcInv' /\ LockInv'
    BY DEF mineNothing, endRound, PcInv, LockInv, ThreadsOK, ProcessLabels, ImportLabels,
           MiningLabels
  <1>4. CopyInv' /\ BlockInv'
    BY DEF mineNothing, endRound, CopyInv, BlockInv, ThreadsOK
  <1>5. NonEmptyInv' /\ ContenderInv'
    BY DEF mineNothing, endRound, NonEmptyInv, ContenderInv, ThreadsOK, ImportLabels
  <1> QED
    BY <1>1, <1>2, <1>3, <1>4, <1>5

\* A round that ends on a stale copy.
LEMMA CommitStaleInv ==
  ASSUME IInv, commitStale
  PROVE  IInv'
  <1> USE DEF IInv, TypeOK
  <1>1. TypeOK'
    <2>1. ChainsOK' /\ ImportOK'
      BY DEF commitStale, endRound, ChainsOK, ImportOK
    <2>2. MiningOK' /\ NetworkOK'
      BY EmptyValues DEF commitStale, endRound, MiningOK, NetworkOK
    <2>3. ThreadsOK'
      BY EmptyValues DEF commitStale, endRound, ThreadsOK, Labels, ProcessLabels,
                         MiningLabels, ImportLabels
    <2> QED
      BY <2>1, <2>2, <2>3
  <1>2. ChainsLinked'
    BY EmptyValues DEF commitStale, endRound, ChainsLinked, ThreadsOK
  <1>3. PcInv' /\ LockInv'
    BY DEF commitStale, endRound, PcInv, LockInv, ThreadsOK, ProcessLabels, ImportLabels,
           MiningLabels
  <1>4. CopyInv' /\ BlockInv'
    BY DEF commitStale, endRound, CopyInv, BlockInv, ThreadsOK
  <1>5. NonEmptyInv' /\ ContenderInv'
    BY DEF commitStale, endRound, NonEmptyInv, ContenderInv, ThreadsOK, ImportLabels
  <1> QED
    BY <1>1, <1>2, <1>3, <1>4, <1>5

\* The broadcast gives blockchainLock back; the block was sent by this node.
LEMMA BroadcastBlockInv ==
  ASSUME IInv, broadcastBlock
  PROVE  IInv'
  <1> USE DEF IInv, TypeOK
  <1>1. TypeOK'
    <2>1. ChainsOK' /\ ImportOK'
      BY DEF broadcastBlock, endRound, ChainsOK, ImportOK
    <2>2. MiningOK' /\ NetworkOK'
      BY EmptyValues DEF broadcastBlock, endRound, MiningOK, NetworkOK, ThreadsOK
    <2>3. ThreadsOK'
      BY EmptyValues DEF broadcastBlock, endRound, ThreadsOK, Labels, ProcessLabels,
                         MiningLabels, ImportLabels
    <2> QED
      BY <2>1, <2>2, <2>3
  <1>2. ChainsLinked'
    BY EmptyValues DEF broadcastBlock, endRound, ChainsLinked, ThreadsOK
  <1>3. PcInv' /\ LockInv'
    BY DEF broadcastBlock, endRound, PcInv, LockInv, ThreadsOK, ProcessLabels, ImportLabels,
           MiningLabels
  <1>4. CopyInv' /\ BlockInv'
    BY DEF broadcastBlock, endRound, CopyInv, BlockInv, ThreadsOK
  <1>5. NonEmptyInv' /\ ContenderInv'
    BY DEF broadcastBlock, endRound, NonEmptyInv, ContenderInv, ThreadsOK, ImportLabels
  <1> QED
    BY <1>1, <1>2, <1>3, <1>4, <1>5

\* The pool gets the number of the transaction that just arrived.
LEMMA SendTransactionInv ==
  ASSUME IInv, sendTransaction
  PROVE  IInv'
  <1> USE DEF IInv, TypeOK
  <1>1. TypeOK'
    <2>1. ChainsOK' /\ ImportOK'
      BY DEF sendTransaction, ChainsOK, ImportOK
    <2>2. MiningOK' /\ NetworkOK'
      <3>1. PICK tx \in Submissions :
              arrived' = Append(arrived, tx) /\ pool' = pool \cup {Len(arrived) + 1}
        BY DEF sendTransaction
      <3>2. arrived' \in Seq(Tx) /\ Len(arrived') = Len(arrived) + 1
            /\ Len(arrived) \in Nat
        BY <3>1, AppendProperties DEF MiningOK
      <3>3. 1..Len(arrived) \subseteq 1..Len(arrived')
            /\ Len(arrived) + 1 \in 1..Len(arrived')
        BY <3>2
      <3>4. UNCHANGED <<batch, executed, data, mainCopy>> /\ NetworkOK'
        BY DEF sendTransaction, NetworkOK
      <3> QED
        BY <3>1, <3>2, <3>3, <3>4 DEF MiningOK
    <2>3. ThreadsOK'
      BY EmptyValues DEF sendTransaction, ThreadsOK, Labels, ProcessLabels,
                         MiningLabels, ImportLabels
    <2> QED
      BY <2>1, <2>2, <2>3
  <1>2. ChainsLinked'
    BY EmptyValues DEF sendTransaction, ChainsLinked, ThreadsOK
  <1>3. PcInv' /\ LockInv'
    BY DEF sendTransaction, PcInv, LockInv, ThreadsOK, ProcessLabels, ImportLabels,
           MiningLabels
  <1>4. CopyInv' /\ BlockInv'
    BY DEF sendTransaction, CopyInv, BlockInv, ThreadsOK
  <1>5. NonEmptyInv' /\ ContenderInv'
    BY DEF sendTransaction, NonEmptyInv, ContenderInv, ThreadsOK, ImportLabels
  <1> QED
    BY <1>1, <1>2, <1>3, <1>4, <1>5

\* What a peer mines is a block.
LEMMA PeerMinesInv ==
  ASSUME IInv, peerMines
  PROVE  IInv'
  <1> USE DEF IInv, TypeOK
  <1>1. TypeOK'
    <2>1. ChainsOK' /\ ImportOK'
      BY DEF peerMines, ChainsOK, ImportOK
    <2>2. MiningOK'
      BY DEF peerMines, MiningOK
    <2>3. NetworkOK'
      <3>1. PICK miner \in Miners \ {Self}, target \in Targets,
                 b \in mined \cup {Genesis}, tx \in Submissions :
              mined' = mined \cup
                {Append(b, [miner |-> miner, work |-> target,
                            data |-> exec(Path(b), tx, 0)])}
        BY DEF peerMines
      <3>2. b \in Block /\ tx \in Tx
        BY EmptyValues DEF NetworkOK
      <3>3. exec(Path(b), tx, 0) \in Seq(Elements)
        BY <3>2, PathType, ExecType
      <3>4. [miner |-> miner, work |-> target, data |-> exec(Path(b), tx, 0)]
              \in Content
        BY <3>3 DEF Content
      <3>5. Append(b, [miner |-> miner, work |-> target,
                       data |-> exec(Path(b), tx, 0)]) \in Block
        BY <3>2, <3>4, AppendProperties DEF Block
      <3> QED
        BY <3>1, <3>5 DEF peerMines, NetworkOK
    <2>4. ThreadsOK'
      BY EmptyValues DEF peerMines, ThreadsOK, Labels, ProcessLabels,
                         MiningLabels, ImportLabels
    <2> QED
      BY <2>1, <2>2, <2>3, <2>4
  <1>2. ChainsLinked'
    BY EmptyValues DEF peerMines, ChainsLinked, ThreadsOK
  <1>3. PcInv' /\ LockInv'
    BY DEF peerMines, PcInv, LockInv, ThreadsOK, ProcessLabels, ImportLabels,
           MiningLabels
  <1>4. CopyInv' /\ BlockInv'
    BY DEF peerMines, CopyInv, BlockInv, ThreadsOK
  <1>5. NonEmptyInv' /\ ContenderInv'
    BY DEF peerMines, NonEmptyInv, ContenderInv, ThreadsOK, ImportLabels
  <1> QED
    BY <1>1, <1>2, <1>3, <1>4, <1>5

\* An empty queue changes nothing.
LEMMA QueuesEmptyInv ==
  ASSUME IInv, queuesEmpty
  PROVE  IInv'
  <1> USE DEF IInv, TypeOK
  <1>1. TypeOK'
    <2>1. ChainsOK' /\ ImportOK'
      BY DEF queuesEmpty, vars, ChainsOK, ImportOK
    <2>2. MiningOK' /\ NetworkOK'
      BY EmptyValues DEF queuesEmpty, vars, MiningOK, NetworkOK
    <2>3. ThreadsOK'
      BY EmptyValues DEF queuesEmpty, vars, ThreadsOK, Labels, ProcessLabels,
                         MiningLabels, ImportLabels
    <2> QED
      BY <2>1, <2>2, <2>3
  <1>2. ChainsLinked'
    BY EmptyValues DEF queuesEmpty, vars, ChainsLinked, ThreadsOK
  <1>3. PcInv' /\ LockInv'
    BY DEF queuesEmpty, vars, PcInv, LockInv, ThreadsOK, ProcessLabels, ImportLabels,
           MiningLabels
  <1>4. CopyInv' /\ BlockInv'
    BY DEF queuesEmpty, vars, CopyInv, BlockInv, ThreadsOK
  <1>5. NonEmptyInv' /\ ContenderInv'
    BY DEF queuesEmpty, vars, NonEmptyInv, ContenderInv, ThreadsOK, ImportLabels
  <1> QED
    BY <1>1, <1>2, <1>3, <1>4, <1>5

\* The orphans stay blocks.
LEMMA AddOrphanBlockInv ==
  ASSUME IInv, NEW t \in Threads, addOrphanBlock(t)
  PROVE  IInv'
  <1> USE DEF IInv, TypeOK
  <1>1. TypeOK'
    <2>1. ChainsOK' /\ ImportOK'
      BY AppendProperties DEF addOrphanBlock, ChainsOK, ImportOK, ThreadsOK
    <2>2. MiningOK' /\ NetworkOK'
      BY EmptyValues DEF addOrphanBlock, Return, MiningOK, NetworkOK
    <2>3. ThreadsOK'
      BY EmptyValues DEF addOrphanBlock, Return, ThreadsOK, Labels, ProcessLabels,
                         MiningLabels, ImportLabels
    <2> QED
      BY <2>1, <2>2, <2>3
  <1>2. ChainsLinked'
    BY EmptyValues DEF addOrphanBlock, Return, ChainsLinked, ThreadsOK
  <1>3. PcInv' /\ LockInv'
    BY DEF addOrphanBlock, Return, PcInv, LockInv, ThreadsOK, ProcessLabels, ImportLabels,
           MiningLabels
  <1>4. CopyInv' /\ BlockInv'
    BY DEF addOrphanBlock, Return, CopyInv, BlockInv, ThreadsOK
  <1>5. NonEmptyInv' /\ ContenderInv'
    BY DEF addOrphanBlock, Return, NonEmptyInv, ContenderInv, ThreadsOK, ImportLabels
  <1> QED
    BY <1>1, <1>2, <1>3, <1>4, <1>5

-----------------------------------------------------------------------------
(* The actions that change a chain.                                        *)

\* While the processing thread can take blockchainLock, the mining thread is
\* not committing a block.
LEMMA LockExcludes ==
  ASSUME IInv, Free("processing")
  PROVE  pc["minning"] \notin {"hash", "transactions", "main", "broadcast"}
  BY DEF IInv, LockInv, Free

\* The types of the chains, a fact at a time.
LEMMA ChainTypes ==
  ASSUME ChainsOK
  PROVE  /\ blockchain.chain \in Seq(Block) /\ Len(blockchain.chain) \in Nat
         /\ Len(secondaryChains) \in Nat
         /\ DOMAIN secondaryChains = 1..Len(secondaryChains)
         /\ \A i \in 1..Len(secondaryChains) :
              /\ secondaryChains[i] \in Chain
              /\ Len(secondaryChains[i].chain) \in Nat
  <1>1. blockchain.chain \in Seq(Block) /\ secondaryChains \in Seq(Chain)
    BY DEF ChainsOK, Chain
  <1>2. \A i \in 1..Len(secondaryChains) : secondaryChains[i] \in Chain
    BY <1>1
  <1>3. \A i \in 1..Len(secondaryChains) :
          secondaryChains[i].chain \in Seq(Block)
    BY <1>2 DEF Chain
  <1>4. \A i \in 1..Len(secondaryChains) :
          Len(secondaryChains[i].chain) \in Nat
    BY <1>3
  <1> QED
    BY <1>1, <1>2, <1>4

\* Step 3: a block is appended to its parent; a block mined here always is.
LEMMA NewBlockBelongsOnMainChainInv ==
  ASSUME IInv, NEW t \in Threads, newBlockBelongsOnMainChain(t)
  PROVE  IInv'
  <1> USE DEF IInv, TypeOK
  <1> DEFINE added == add_block(blockchain, block[t])
  <1>1. block[t] \in Block /\ blockchain \in Chain /\ ~IsEmpty(blockchain)
    BY DEF newBlockBelongsOnMainChain, ThreadsOK, ChainsOK
  <1>2. /\ UNCHANGED <<secondaryChains, orphanBlocks, arrived, lock, contender,
                       import, mining, network>>
        /\ pc[t] = "main" /\ Free(t)
    BY DEF newBlockBelongsOnMainChain
  <1>3. CASE block_belongs(blockchain, block[t])
    <2>1. blockchain' = added /\ pool' \subseteq pool /\ Return(t)
      BY <1>3 DEF newBlockBelongsOnMainChain, releaseTransactionsFromNewBlock
    <2>2. added \in Chain /\ Len(added.chain) = Len(blockchain.chain) + 1
          /\ ~IsEmpty(added) /\ Len(blockchain.chain) \in Nat
      BY <1>1, AddBlockType, ChainTypes
    <2>3. Linked(added.chain)
      BY <1>1, <1>3, AddBlockLinked DEF ChainsLinked, block_belongs
    <2> HIDE DEF added
    <2>4. ChainsOK' /\ ImportOK' /\ MiningOK' /\ NetworkOK'
      BY <1>2, <2>1, <2>2 DEF ChainsOK, ImportOK, MiningOK, NetworkOK
    <2>5. ThreadsOK'
      BY <1>2, <2>1, EmptyValues DEF Return, ThreadsOK, Labels, MiningLabels
    <2>6. ChainsLinked'
      BY <1>2, <2>1, <2>3 DEF ChainsLinked
    <2>7. PcInv' /\ LockInv'
      BY <1>2, <2>1 DEF PcInv, LockInv, ThreadsOK, Return, MiningLabels
    <2>8. CopyInv' /\ BlockInv'
      <3>1. CASE t = "processing"
        BY <1>2, <2>1, <2>2, <3>1, LockExcludes
           DEF CopyInv, BlockInv, ThreadsOK, Return
      <3>2. CASE t = "minning"
        BY <1>2, <2>1, <3>2 DEF CopyInv, BlockInv, ThreadsOK, Return
      <3> QED
        BY <3>1, <3>2
    <2>9. NonEmptyInv' /\ ContenderInv'
      BY <1>2, <2>1, <2>2
         DEF NonEmptyInv, ContenderInv, ThreadsOK, Return, ImportLabels
    <2> QED
      BY <2>4, <2>5, <2>6, <2>7, <2>8, <2>9
  <1>4. CASE ~block_belongs(blockchain, block[t])
    <2>1. t = "processing"
      BY <1>2, <1>4 DEF BlockInv
    <2>2. UNCHANGED <<pool, blockchain>> /\ Proceed(t, "secondary")
      BY <1>4 DEF newBlockBelongsOnMainChain
    <2>3. ChainsOK' /\ ImportOK' /\ MiningOK' /\ NetworkOK'
      BY <1>2, <2>2 DEF ChainsOK, ImportOK, MiningOK, NetworkOK
    <2>4. ThreadsOK'
      BY <1>2, <2>2 DEF Proceed, ThreadsOK, Labels, ProcessLabels
    <2>5. ChainsLinked'
      BY <1>2, <2>2 DEF ChainsLinked
    <2>6. PcInv' /\ LockInv' /\ CopyInv' /\ BlockInv'
      BY <1>2, <2>1, <2>2
         DEF PcInv, LockInv, CopyInv, BlockInv, ThreadsOK, Proceed, ProcessLabels
    <2>7. NonEmptyInv' /\ ContenderInv'
      BY <1>1, <1>2, <2>1, <2>2
         DEF NonEmptyInv, ContenderInv, ThreadsOK, Proceed, ImportLabels
    <2> QED
      BY <2>3, <2>4, <2>5, <2>6, <2>7
  <1> QED
    BY <1>3, <1>4

\* What newBlockBelongsOnSecondaryChains does to the list S of chains.
Extended(S, b) == {i \in DOMAIN S : block_belongs(S[i], b)}

ExtendAll(S, b) ==
  [i \in DOMAIN S |-> IF i \in Extended(S, b) THEN add_block(S[i], b) ELSE S[i]]

\* Each chain that the block extends ends at the block: its length is the
\* block's number and one more, and one more than it was.
LEMMA ExtendAllChains ==
  ASSUME NEW S \in Seq(Chain), NEW b \in Block,
         \A i \in DOMAIN S : Linked(S[i].chain) /\ ~IsEmpty(S[i])
  PROVE  /\ ExtendAll(S, b) \in Seq(Chain) /\ Len(ExtendAll(S, b)) = Len(S)
         /\ \A i \in 1..Len(S) :
              /\ Len(S[i].chain) \in Nat
              /\ Linked(ExtendAll(S, b)[i].chain) /\ ~IsEmpty(ExtendAll(S, b)[i])
              /\ i \in Extended(S, b) =>
                   /\ Len(ExtendAll(S, b)[i].chain) = blockNumber(b) + 1
                   /\ Len(ExtendAll(S, b)[i].chain) = Len(S[i].chain) + 1
              /\ i \notin Extended(S, b) => ExtendAll(S, b)[i] = S[i]
  <1> DEFINE T == ExtendAll(S, b)
  <1>1. Len(S) \in Nat /\ DOMAIN S = 1..Len(S)
        /\ \A i \in 1..Len(S) : S[i] \in Chain
    OBVIOUS
  <1>2. \A i \in 1..Len(S) :
          T[i] = IF i \in Extended(S, b) THEN add_block(S[i], b) ELSE S[i]
    BY <1>1 DEF ExtendAll
  <1>3. T \in Seq(Chain) /\ Len(T) = Len(S)
    <2>1. T = [i \in 1..Len(S) |->
                IF i \in Extended(S, b) THEN add_block(S[i], b) ELSE S[i]]
      BY <1>1 DEF ExtendAll
    <2>2. \A i \in 1..Len(S) :
            (IF i \in Extended(S, b) THEN add_block(S[i], b) ELSE S[i]) \in Chain
      BY <1>1, AddBlockType
    <2> QED
      BY <1>1, <2>1, <2>2, IsASeq
  <1>4. ASSUME NEW i \in 1..Len(S)
        PROVE  /\ Len(S[i].chain) \in Nat
               /\ Linked(T[i].chain) /\ ~IsEmpty(T[i])
               /\ i \in Extended(S, b) =>
                    /\ Len(T[i].chain) = blockNumber(b) + 1
                    /\ Len(T[i].chain) = Len(S[i].chain) + 1
    <2>1. S[i] \in Chain /\ Linked(S[i].chain) /\ ~IsEmpty(S[i])
      BY <1>1
    <2>2. S[i].chain \in Seq(Block) /\ Len(S[i].chain) \in Nat
      <3>1. S[i].chain \in Seq(Block)
        BY <2>1 DEF Chain
      <3> QED
        BY <3>1
    <2>3. CASE i \in Extended(S, b)
      <3>1. T[i] = add_block(S[i], b) /\ Follows(b, Newest(S[i]))
        BY <1>2, <2>3 DEF Extended, block_belongs
      <3>2. /\ Linked(T[i].chain) /\ ~IsEmpty(T[i])
            /\ T[i].chain = Append(S[i].chain, b)
            /\ Len(T[i].chain) = Len(S[i].chain) + 1
        BY <2>1, <3>1, AddBlockType, AddBlockLinked
      <3>3. T[i].chain[Len(S[i].chain) + 1] = b
        BY <2>2, <3>2, AppendProperties
      <3>4. blockNumber(b) = Len(S[i].chain)
        BY <2>2, <3>2, <3>3 DEF Linked
      <3> QED
        BY <2>2, <3>2, <3>4
    <2>4. CASE i \notin Extended(S, b)
      BY <1>2, <2>1, <2>2, <2>4
    <2> QED
      BY <2>3, <2>4
  <1> QED
    BY <1>2, <1>3, <1>4

\* What the step of the processing thread does, in these terms.
LEMMA SecondaryStep ==
  ASSUME IInv, NEW t \in Threads, newBlockBelongsOnSecondaryChains(t)
  PROVE  /\ t = "processing" /\ pc["processing"] = "secondary"
         /\ secondaryChains' = ExtendAll(secondaryChains, block[t])
         /\ UNCHANGED <<blockchain, orphanBlocks, pool, arrived, lock, block,
                        import, mining, network>>
         /\ \/ /\ Extended(secondaryChains, block[t]) = {}
               /\ pc' = [pc EXCEPT ![t] = "fork"] /\ UNCHANGED contender
            \/ /\ pc' = [pc EXCEPT ![t] = "challenge"]
               /\ contender' \in Extended(secondaryChains, block[t])
  <1> DEFINE E == Extended(secondaryChains, block[t])
  <1>1. t = "processing"
    BY DEF IInv, newBlockBelongsOnSecondaryChains, PcInv, ImportLabels,
           MiningLabels
  <1>2. /\ pc[t] = "secondary"
        /\ secondaryChains' = ExtendAll(secondaryChains, block[t])
        /\ UNCHANGED <<blockchain, orphanBlocks, pool, arrived, lock, block,
                       import, mining, network>>
    BY DEF newBlockBelongsOnSecondaryChains, Proceed, ExtendAll, Extended
  <1>3. CASE E = {}
    BY <1>1, <1>2, <1>3
       DEF newBlockBelongsOnSecondaryChains, Proceed, Extended
  <1>4. CASE E # {}
    <2>1. /\ pc' = [pc EXCEPT ![t] = "challenge"]
          /\ contender' = CHOOSE i \in E : \A j \in E : j <= i
      BY <1>4 DEF newBlockBelongsOnSecondaryChains, Proceed, Extended
    <2>2. Len(secondaryChains) \in Nat /\ E \subseteq 0..Len(secondaryChains)
      BY ChainTypes DEF IInv, TypeOK, Extended
    <2>3. \E i \in E : \A j \in E : j <= i
      BY <1>4, <2>2, GreatestNat
    <2>4. contender' \in E
      BY <2>1, <2>3
    <2> QED
      BY <1>1, <1>2, <2>1, <2>4
  <1> QED
    BY <1>3, <1>4

\* Step 4: every chain is as it was or has its next block.
LEMMA NewBlockBelongsOnSecondaryChainsInv ==
  ASSUME IInv, NEW t \in Threads, newBlockBelongsOnSecondaryChains(t)
  PROVE  IInv'
  <1> USE DEF IInv, TypeOK
  <1> DEFINE S == secondaryChains
  <1>1. t = "processing" /\ pc["processing"] = "secondary"
    BY SecondaryStep
  <1>2. /\ UNCHANGED <<blockchain, orphanBlocks, pool, arrived, lock, block,
                       import, mining, network>>
        /\ S' = ExtendAll(S, block[t])
    BY SecondaryStep
  <1>3. \/ pc' = [pc EXCEPT ![t] = "fork"] /\ UNCHANGED contender
        \/ pc' = [pc EXCEPT ![t] = "challenge"] /\ contender' \in 1..Len(S)
    <2>1. Extended(S, block[t]) \subseteq 1..Len(S)
      BY ChainTypes DEF Extended
    <2> QED
      BY <2>1, SecondaryStep
  <1>4. /\ S' \in Seq(Chain) /\ Len(S') = Len(S) /\ Len(S) \in Nat
        /\ \A i \in 1..Len(S') : Linked(S'[i].chain) /\ ~IsEmpty(S'[i])
    <2>1. /\ S \in Seq(Chain) /\ block[t] \in Block
          /\ \A i \in DOMAIN S : Linked(S[i].chain) /\ ~IsEmpty(S[i])
      BY DEF ChainsOK, ThreadsOK, ChainsLinked
    <2> QED
      BY <1>2, <2>1, ExtendAllChains
  <1>5. ChainsOK' /\ ImportOK' /\ MiningOK' /\ NetworkOK'
    BY <1>2, <1>4 DEF ChainsOK, ImportOK, MiningOK, NetworkOK
  <1>6. ThreadsOK'
    BY <1>2, <1>3, <1>4 DEF ThreadsOK, Labels, ProcessLabels
  <1>7. ChainsLinked'
    BY <1>2, <1>4 DEF ChainsLinked
  <1>8. PcInv' /\ LockInv' /\ CopyInv' /\ BlockInv'
    BY <1>1, <1>2, <1>3
       DEF PcInv, LockInv, CopyInv, BlockInv, ThreadsOK, ProcessLabels
  <1>9. NonEmptyInv' /\ ContenderInv'
    BY <1>1, <1>2, <1>3, <1>4
       DEF NonEmptyInv, ContenderInv, ThreadsOK, ImportLabels
  <1> QED
    BY <1>5, <1>6, <1>7, <1>8, <1>9

\* Taking an entry out of a list leaves entries of the list.
LEMMA RemoveAtEntries ==
  ASSUME NEW S, NEW s \in Seq(S), NEW n \in 1..Len(s)
  PROVE  /\ RemoveAt(s, n) \in Seq(S)
         /\ \A j \in 1..Len(RemoveAt(s, n)) :
              \E i \in 1..Len(s) : RemoveAt(s, n)[j] = s[i]
  <1> DEFINE l == SubSeq(s, 1, n - 1)
  <1> DEFINE r == SubSeq(s, n + 1, Len(s))
  <1>1. Len(s) \in Nat /\ n \in Nat
    OBVIOUS
  <1>2. l \in Seq(S) /\ Len(l) = n - 1 /\ \A j \in 1..(n - 1) : l[j] = s[j]
    BY <1>1, SubSeqProperties
  <1>3. r \in Seq(S) /\ Len(r) = Len(s) - n
        /\ \A j \in 1..(Len(s) - n) : r[j] = s[n + j]
    BY <1>1, SubSeqProperties
  <1> HIDE DEF l, r
  <1>4. /\ l \o r \in Seq(S) /\ Len(l \o r) = Len(l) + Len(r)
        /\ \A j \in 1..(Len(l) + Len(r)) :
             (l \o r)[j] = IF j <= Len(l) THEN l[j] ELSE r[j - Len(l)]
    <2>1. l \in Seq(S) /\ r \in Seq(S)
      BY <1>2, <1>3
    <2> QED
      BY <2>1, ConcatProperties, ZenonT(30)
  <1>5. ASSUME NEW j \in 1..Len(l \o r)
        PROVE  \E i \in 1..Len(s) : (l \o r)[j] = s[i]
    <2>1. CASE j <= Len(l)
      BY <1>1, <1>2, <1>4, <1>5, <2>1
    <2>2. CASE j > Len(l)
      <3>1. j - Len(l) \in 1..(Len(s) - n)
        BY <1>1, <1>2, <1>3, <1>4, <1>5, <2>2
      <3>2. (l \o r)[j] = s[n + (j - Len(l))] /\ n + (j - Len(l)) \in 1..Len(s)
        BY <1>1, <1>2, <1>3, <1>4, <1>5, <2>2, <3>1
      <3> QED
        BY <3>2
    <2> QED
      BY <1>2, <1>5, <2>1, <2>2
  <1>6. RemoveAt(s, n) = l \o r
    BY DEF RemoveAt, l, r
  <1> QED
    BY <1>4, <1>5, <1>6

\* Appending a chain to the list: the entries are the old ones and that one.
LEMMA AppendEntries ==
  ASSUME NEW S, NEW s \in Seq(S), NEW x \in S
  PROVE  /\ Append(s, x) \in Seq(S)
         /\ Len(Append(s, x)) = Len(s) + 1
         /\ \A j \in 1..Len(Append(s, x)) :
              Append(s, x)[j] = x \/ \E i \in 1..Len(s) : Append(s, x)[j] = s[i]
  <1>1. /\ Append(s, x) \in Seq(S) /\ Len(Append(s, x)) = Len(s) + 1
        /\ \A j \in 1..Len(s) : Append(s, x)[j] = s[j]
        /\ Append(s, x)[Len(s) + 1] = x /\ Len(s) \in Nat
    BY AppendProperties
  <1> QED
    BY <1>1

\* Both at once, as challengeMainChain does.
LEMMA SwapEntries ==
  ASSUME NEW S, NEW s \in Seq(S), NEW n \in 1..Len(s), NEW x \in S
  PROVE  LET u == Append(RemoveAt(s, n), x)
         IN  /\ u \in Seq(S) /\ DOMAIN u = 1..Len(u)
             /\ \A j \in 1..Len(u) : u[j] = x \/ \E i \in 1..Len(s) : u[j] = s[i]
  <1> DEFINE v == RemoveAt(s, n)
  <1> DEFINE u == Append(v, x)
  <1>1. v \in Seq(S) /\ \A j \in 1..Len(v) : \E i \in 1..Len(s) : v[j] = s[i]
    BY RemoveAtEntries
  <1> HIDE DEF v
  <1>2. u \in Seq(S) /\ DOMAIN u = 1..Len(u)
        /\ \A j \in 1..Len(u) : u[j] = x \/ \E i \in 1..Len(v) : u[j] = v[i]
    BY <1>1, AppendEntries
  <1> QED
    BY <1>1, <1>2 DEF v

\* The length of a chain is a number.
LEMMA ChainLength ==
  ASSUME NEW c \in Chain
  PROVE  c.chain \in Seq(Block) /\ Len(c.chain) \in Nat
  <1>1. c.chain \in Seq(Block)
    BY DEF Chain
  <1> QED
    BY <1>1

\* Step 5: two chains trade places; a copy being mined on is shorter then.
LEMMA ChallengeMainChainInv ==
  ASSUME IInv, NEW t \in Threads, challengeMainChain(t)
  PROVE  IInv'
  <1> USE DEF IInv, TypeOK
  <1> DEFINE S == secondaryChains
  <1> DEFINE c == S[contender]
  <1>1. t = "processing"
    BY DEF challengeMainChain, PcInv, ImportLabels, MiningLabels
  <1>2. /\ UNCHANGED <<orphanBlocks, arrived, lock, import, mining, network>>
        /\ contender' = 0 /\ Goto(t, "loop")
        /\ block' = [block EXCEPT ![t] = Genesis]
        /\ pc[t] = "challenge" /\ Free(t)
    BY <1>1 DEF challengeMainChain, Return
  <1>3. /\ blockchain \in Chain /\ S \in Seq(Chain)
        /\ Len(blockchain.chain) \in Nat /\ Len(S) \in Nat
        /\ DOMAIN S = 1..Len(S)
        /\ \A i \in 1..Len(S) : S[i] \in Chain
    BY ChainTypes DEF ChainsOK
  <1>4. contender \in 1..Len(S) /\ c \in Chain
        /\ Linked(c.chain) /\ ~IsEmpty(c)
    BY <1>1, <1>2, <1>3 DEF ContenderInv, ChainsLinked
  <1>5. pool' \subseteq pool
    BY <1>1 DEF challengeMainChain, releaseTransactionsFromNewBlock
  <1>6. ThreadsOK' /\ PcInv' /\ LockInv' /\ NonEmptyInv' /\ ContenderInv'
    BY <1>1, <1>2, EmptyValues
       DEF ThreadsOK, Labels, PcInv, LockInv, NonEmptyInv, ContenderInv,
           ImportLabels
  <1>7. ImportOK' /\ MiningOK' /\ NetworkOK'
    BY <1>2, <1>5 DEF ImportOK, MiningOK, NetworkOK
  <1>8. pc'["minning"] = pc["minning"] /\ block'["minning"] = block["minning"]
    BY <1>1, <1>2 DEF ThreadsOK
  <1>9. CASE Longer(c, blockchain)
    <2>1. /\ blockchain' = c
          /\ S' = Append(RemoveAt(S, contender), blockchain)
      BY <1>9 DEF challengeMainChain
    <2>2. Len(c.chain) > Len(blockchain.chain)
      BY <1>9 DEF Longer
    <2>3. ~IsEmpty(blockchain)
      BY <1>1, <1>2 DEF NonEmptyInv
    <2> HIDE DEF S, c
    <2>4. /\ S' \in Seq(Chain) /\ DOMAIN S' = 1..Len(S')
          /\ \A j \in 1..Len(S') :
               S'[j] = blockchain \/ \E i \in 1..Len(S) : S'[j] = S[i]
      BY <1>3, <1>4, <2>1, SwapEntries
    <2>5. ChainsOK'
      BY <1>2, <1>4, <2>1, <2>4 DEF ChainsOK, S
    <2>6. ChainsLinked'
      <3>1. \A i \in 1..Len(S) : Linked(S[i].chain) /\ ~IsEmpty(S[i])
        BY <1>3 DEF ChainsLinked, S
      <3>2. \A j \in 1..Len(S') : Linked(S'[j].chain) /\ ~IsEmpty(S'[j])
        BY <2>3, <2>4, <3>1 DEF ChainsLinked
      <3> QED
        BY <1>2, <1>4, <2>1, <2>4, <3>2 DEF ChainsLinked, S
    <2>7. CopyInv' /\ BlockInv'
      <3>1. Len(c.chain) \in Nat /\ mainCopy' = mainCopy
        BY <1>2, <1>4, ChainLength
      <3>2. pc["minning"] \in {"mine", "commit"} =>
              Len(mainCopy.chain) < Len(blockchain'.chain)
        BY <1>3, <2>1, <2>2, <3>1 DEF CopyInv
      <3>3. pc["minning"] \notin {"hash", "transactions", "main"}
        BY <1>1, <1>2, LockExcludes
      <3> QED
        BY <1>8, <3>1, <3>2, <3>3 DEF CopyInv, BlockInv
    <2> QED
      BY <1>6, <1>7, <2>5, <2>6, <2>7
  <1>10. CASE ~Longer(c, blockchain)
    <2>1. UNCHANGED <<blockchain, secondaryChains>>
      BY <1>10 DEF challengeMainChain
    <2>2. ChainsOK' /\ ChainsLinked'
      BY <1>2, <2>1 DEF ChainsOK, ChainsLinked
    <2>3. CopyInv' /\ BlockInv'
      BY <1>2, <1>8, <2>1 DEF CopyInv, BlockInv
    <2> QED
      BY <1>6, <1>7, <2>2, <2>3
  <1> QED
    BY <1>9, <1>10

\* The chain that newBlockCausedAFork makes: the blocks up to the parent, which
\* is a block of the main chain after the genesis block, and the new block.
LEMMA ForkChain ==
  ASSUME NEW c \in Chain, Linked(c.chain), NEW b \in Block,
         is_prev_hash_in_chain(c, b) # 0
  PROVE  LET number == is_prev_hash_in_chain(c, b)
             fork   == add_block(copyUpTo(c, number), b)
         IN  /\ number \in Nat /\ number < Len(c.chain)
             /\ Follows(b, c.chain[number + 1])
             /\ fork \in Chain /\ Linked(fork.chain) /\ ~IsEmpty(fork)
             /\ Len(fork.chain) = number + 2
  <1> DEFINE number == is_prev_hash_in_chain(c, b)
  <1> DEFINE base == copyUpTo(c, number)
  <1>1. /\ number \in Nat /\ number < Len(c.chain)
        /\ Follows(b, c.chain[number + 1])
    BY ParentIndex
  <1>2. /\ base \in Chain /\ Linked(base.chain) /\ ~IsEmpty(base)
        /\ Len(base.chain) = number + 1 /\ Newest(base) = c.chain[number + 1]
    BY <1>1, CopyUpTo
  <1> HIDE DEF base
  <1>3. /\ add_block(base, b) \in Chain /\ ~IsEmpty(add_block(base, b))
        /\ Len(add_block(base, b).chain) = number + 2
    BY <1>1, <1>2, AddBlockType
  <1>4. Linked(add_block(base, b).chain)
    BY <1>1, <1>2, AddBlockLinked
  <1> QED
    BY <1>1, <1>3, <1>4 DEF base

\* Step 6: the list gets a linked chain or stays as it is.
LEMMA NewBlockCausedAForkInv ==
  ASSUME IInv, NEW t \in Threads, newBlockCausedAFork(t)
  PROVE  IInv'
  <1> USE DEF IInv, TypeOK
  <1> DEFINE S == secondaryChains
  <1> DEFINE number == is_prev_hash_in_chain(blockchain, block[t])
  <1> DEFINE fork == add_block(copyUpTo(blockchain, number), block[t])
  <1>1. t = "processing"
    BY DEF newBlockCausedAFork, PcInv, ImportLabels, MiningLabels
  <1>2. /\ UNCHANGED <<blockchain, orphanBlocks, pool, arrived, lock, contender,
                       import, mining, network>>
        /\ pc[t] = "fork"
    BY DEF newBlockCausedAFork
  <1>3. /\ pc' \in {[pc EXCEPT ![t] = "loop"], [pc EXCEPT ![t] = "orphan"]}
        /\ block' \in {block, [block EXCEPT ![t] = Genesis]}
    BY <1>1 DEF newBlockCausedAFork, Return, Proceed
  <1>4. ThreadsOK' /\ PcInv' /\ LockInv' /\ NonEmptyInv' /\ ContenderInv'
    BY <1>1, <1>2, <1>3, EmptyValues
       DEF ThreadsOK, Labels, PcInv, LockInv, NonEmptyInv, ContenderInv,
           ProcessLabels, ImportLabels
  <1>5. ImportOK' /\ MiningOK' /\ NetworkOK'
    BY <1>2 DEF ImportOK, MiningOK, NetworkOK
  <1>6. CopyInv' /\ BlockInv'
    BY <1>1, <1>2, <1>3 DEF CopyInv, BlockInv, ThreadsOK
  <1>7. CASE number # 0
    <2>1. S' = Append(S, fork)
      BY <1>7 DEF newBlockCausedAFork
    <2>2. block[t] \in Block /\ blockchain \in Chain /\ Linked(blockchain.chain)
      BY DEF ThreadsOK, ChainsOK, ChainsLinked
    <2>3. fork \in Chain /\ Linked(fork.chain) /\ ~IsEmpty(fork)
      BY <1>7, <2>2, ForkChain
    <2> HIDE DEF fork, S
    <2>4. /\ S' \in Seq(Chain) /\ DOMAIN S' = 1..Len(S')
          /\ \A j \in 1..Len(S') :
               S'[j] = fork \/ \E i \in 1..Len(S) : S'[j] = S[i]
      BY <2>1, <2>3, AppendEntries DEF ChainsOK, S
    <2>5. ChainsLinked'
      <3>1. \A i \in 1..Len(S) : Linked(S[i].chain) /\ ~IsEmpty(S[i])
        BY ChainTypes DEF ChainsLinked, S
      <3>2. \A j \in 1..Len(S') : Linked(S'[j].chain) /\ ~IsEmpty(S'[j])
        BY <2>3, <2>4, <3>1
      <3> QED
        BY <1>2, <2>4, <3>2 DEF ChainsLinked, S
    <2>6. ChainsOK'
      BY <1>2, <2>4 DEF ChainsOK, S
    <2> QED
      BY <1>4, <1>5, <1>6, <2>5, <2>6
  <1>8. CASE number = 0
    <2>1. UNCHANGED secondaryChains
      BY <1>8 DEF newBlockCausedAFork, Proceed
    <2>2. ChainsOK' /\ ChainsLinked'
      BY <1>2, <2>1 DEF ChainsOK, ChainsLinked
    <2> QED
      BY <1>4, <1>5, <1>6, <2>2
  <1> QED
    BY <1>7, <1>8

\* Whatever a peer sends, the n-th block of it is a block with number n - 1.
LEMMA SentChainsType ==
  ASSUME mined \subseteq Block, NEW blocks \in SentChains
  PROVE  /\ blocks \in Seq(Block)
         /\ \A i \in 1..Len(blocks) : blockNumber(blocks[i]) = i - 1
  <1>1. CASE blocks = <<>>
    BY <1>1
  <1>2. CASE \E b \in mined \cup {Genesis} : blocks = Path(b)
    <2>1. PICK b \in mined \cup {Genesis} : blocks = Path(b)
      BY <1>2
    <2>2. b \in Block
      BY EmptyValues
    <2> QED
      BY <2>1, <2>2, PathType DEF blockNumber
  <1>3. CASE \E b, x \in mined :
               Len(x) < Len(b) /\ blocks = [Path(b) EXCEPT ![Len(x) + 1] = x]
    <2>1. PICK b \in mined, x \in mined :
            Len(x) < Len(b) /\ blocks = [Path(b) EXCEPT ![Len(x) + 1] = x]
      BY <1>3
    <2>2. b \in Block /\ x \in Block /\ Len(x) \in Nat /\ Len(b) \in Nat
      BY DEF Block
    <2>3. /\ Path(b) \in Seq(Block) /\ Len(Path(b)) = Len(b) + 1
          /\ \A i \in 1..Len(Path(b)) : Len(Path(b)[i]) = i - 1
      BY <2>2, PathType
    <2> DEFINE p == Path(b)
    <2> HIDE DEF p
    <2>4. [p EXCEPT ![Len(x) + 1] = x] \in Seq(Block)
          /\ Len([p EXCEPT ![Len(x) + 1] = x]) = Len(p)
          /\ \A i \in 1..Len(p) :
               [p EXCEPT ![Len(x) + 1] = x][i] = IF i = Len(x) + 1 THEN x ELSE p[i]
      <3>1. p \in Seq(Block) /\ Len(x) + 1 \in 1..Len(p) /\ x \in Block
        BY <2>1, <2>2, <2>3 DEF p
      <3> QED
        BY <3>1, ExceptSeq
    <2> QED
      BY <2>1, <2>2, <2>3, <2>4 DEF p, blockNumber
  <1> QED
    BY <1>1, <1>2, <1>3 DEF SentChains

\* What passes check_integrity is linked.
LEMMA ReceiveBlockchainInv ==
  ASSUME IInv, receiveBlockchain
  PROVE  IInv'
  <1> USE DEF IInv, TypeOK
  <1>1. /\ pc["processing"] = "loop" /\ imports' = imports + 1
        /\ UNCHANGED <<chains, pool, arrived, lock, block, contender, visited,
                       removalList, mining, mined, received>>
    BY DEF receiveBlockchain
  <1>2. \/ UNCHANGED <<newChain, pc>>
        \/ /\ newChain' \in Chain /\ Linked(newChain'.chain) /\ ~IsEmpty(newChain')
           /\ pc' = [pc EXCEPT !["processing"] = "merge"]
    <2>1. PICK blocks \in SentChains, target \in Targets :
            LET c == [target |-> target, chain |-> blocks]
            IN  IF ~IsEmpty(c) /\ check_integrity(c)
                THEN newChain' = c /\ Goto("processing", "merge")
                ELSE UNCHANGED <<newChain, pc>>
      BY DEF receiveBlockchain
    <2> DEFINE c == [target |-> target, chain |-> blocks]
    <2>2. c \in Chain /\ c.chain = blocks
          /\ \A i \in 1..Len(blocks) : blockNumber(blocks[i]) = i - 1
      BY SentChainsType DEF NetworkOK, Chain
    <2>3. CASE ~IsEmpty(c) /\ check_integrity(c)
      <3>1. Linked(c.chain)
        BY <2>2, <2>3 DEF check_integrity, Linked
      <3> QED
        BY <2>1, <2>2, <2>3, <3>1
    <2> QED
      BY <2>1, <2>3
  <1>3. ChainsOK' /\ ImportOK' /\ MiningOK' /\ NetworkOK'
    BY <1>1, <1>2 DEF ChainsOK, ImportOK, MiningOK, NetworkOK
  <1>4. ThreadsOK'
    BY <1>1, <1>2 DEF ThreadsOK, Labels, ImportLabels
  <1>5. ChainsLinked'
    BY <1>1, <1>2 DEF ChainsLinked
  <1>6. PcInv' /\ LockInv' /\ CopyInv' /\ BlockInv'
    BY <1>1, <1>2 DEF PcInv, LockInv, CopyInv, BlockInv, ThreadsOK, ImportLabels
  <1>7. NonEmptyInv' /\ ContenderInv'
    BY <1>1, <1>2 DEF NonEmptyInv, ContenderInv, ThreadsOK, ImportLabels
  <1> QED
    BY <1>3, <1>4, <1>5, <1>6, <1>7

\* An orphan is appended to the examined chain only after its parent.
LEMMA MergeOrphanInv ==
  ASSUME IInv, mergeOrphan
  PROVE  IInv'
  <1> USE DEF IInv, TypeOK
  <1> DEFINE orphan == orphanBlocks[visited + 1]
  <1>1. /\ pc["processing"] = "merge" /\ visited' = visited + 1
        /\ UNCHANGED <<chains, pool, arrived, lock, threads, mining, network>>
    BY DEF mergeOrphan
  <1>2. orphan \in Block /\ newChain \in Chain /\ ~IsEmpty(newChain)
        /\ Linked(newChain.chain) /\ removalList \in Seq(Block) /\ visited \in Nat
    BY <1>1 DEF mergeOrphan, ChainsOK, ImportOK, NonEmptyInv, ImportLabels,
                ChainsLinked
  <1>3. newChain' \in Chain /\ ~IsEmpty(newChain') /\ Linked(newChain'.chain)
        /\ removalList' \in Seq(Block)
    <2>1. CASE newChain' = newChain
      BY <1>2, <2>1, AppendProperties DEF mergeOrphan
    <2>2. CASE newChain' # newChain
      <3>1. /\ newChain' = add_block(newChain, orphan)
            /\ block_belongs(newChain, orphan) /\ UNCHANGED removalList
        BY <2>2 DEF mergeOrphan
      <3> QED
        BY <1>2, <3>1, AddBlockType, AddBlockLinked DEF block_belongs
    <2> QED
      BY <2>1, <2>2
  <1>4. ChainsOK' /\ ImportOK' /\ MiningOK' /\ NetworkOK' /\ ThreadsOK'
    BY <1>1, <1>2, <1>3
       DEF ChainsOK, ImportOK, MiningOK, NetworkOK, ThreadsOK
  <1>5. ChainsLinked'
    BY <1>1, <1>3 DEF ChainsLinked
  <1>6. PcInv' /\ LockInv' /\ CopyInv' /\ BlockInv'
    BY <1>1 DEF PcInv, LockInv, CopyInv, BlockInv
  <1>7. NonEmptyInv' /\ ContenderInv'
    BY <1>1, <1>3 DEF NonEmptyInv, ContenderInv
  <1> QED
    BY <1>4, <1>5, <1>6, <1>7

\* The orphans stay blocks.
LEMMA RemoveOrphanInv ==
  ASSUME IInv, removeOrphan
  PROVE  IInv'
  <1> USE DEF IInv, TypeOK
  <1>1. UNCHANGED <<blockchain, secondaryChains, pool, arrived, lock, threads,
                    newChain, visited, mining, network>>
    BY DEF removeOrphan
  <1>2. orphanBlocks' \in Seq(Block)
    <2>1. PICK i \in DOMAIN orphanBlocks : orphanBlocks' = RemoveAt(orphanBlocks, i)
      BY DEF removeOrphan
    <2>2. orphanBlocks \in Seq(Block) /\ i \in 1..Len(orphanBlocks)
      BY DEF ChainsOK
    <2> QED
      BY <2>1, <2>2, RemoveAtEntries
  <1>3. removalList' \in Seq(Block)
    BY HeadTailProperties DEF removeOrphan, ImportOK
  <1>4. ChainsOK' /\ ImportOK' /\ MiningOK' /\ NetworkOK' /\ ThreadsOK'
    BY <1>1, <1>2, <1>3
       DEF ChainsOK, ImportOK, MiningOK, NetworkOK, ThreadsOK
  <1>5. ChainsLinked' /\ NonEmptyInv' /\ ContenderInv'
    BY <1>1 DEF ChainsLinked, NonEmptyInv, ContenderInv
  <1>6. PcInv' /\ LockInv' /\ CopyInv' /\ BlockInv'
    BY <1>1 DEF PcInv, LockInv, CopyInv, BlockInv
  <1> QED
    BY <1>4, <1>5, <1>6

\* The examined chain ends as the main chain, as a secondary chain or nowhere.
LEMMA InstallBlockchainInv ==
  ASSUME IInv, installBlockchain
  PROVE  IInv'
  <1> USE DEF IInv, TypeOK
  <1> DEFINE S == secondaryChains
  <1>1. /\ pc["processing"] = "remove" /\ Free("processing")
        /\ newChain' = EmptyChain /\ pc' = [pc EXCEPT !["processing"] = "loop"]
        /\ UNCHANGED <<orphanBlocks, pool, arrived, lock, block, contender,
                       visited, removalList, mining, network>>
    BY DEF installBlockchain
  <1>2. /\ newChain \in Chain /\ Linked(newChain.chain) /\ ~IsEmpty(newChain)
        /\ blockchain \in Chain /\ Linked(blockchain.chain) /\ S \in Seq(Chain)
    BY <1>1 DEF ImportOK, ChainsOK, ChainsLinked, NonEmptyInv, ImportLabels
  <1>3. \/ UNCHANGED <<blockchain, secondaryChains>>
        \/ UNCHANGED blockchain /\ S' = Append(S, newChain)
        \/ /\ blockchain' = newChain /\ Longer(newChain, blockchain)
           /\ S' \in {S, Append(S, blockchain)}
           /\ S' # S => ~IsEmpty(blockchain)
    BY DEF installBlockchain, WithOldChain
  <1>4. /\ S' \in Seq(Chain) /\ DOMAIN S' = 1..Len(S')
        /\ \A j \in 1..Len(S') : Linked(S'[j].chain) /\ ~IsEmpty(S'[j])
    <2>1. \A j \in 1..Len(S) : Linked(S[j].chain) /\ ~IsEmpty(S[j])
      BY ChainTypes DEF ChainsLinked
    <2>2. CASE S' = S
      BY <1>2, <2>1, <2>2
    <2>3. CASE S' # S
      <3>1. PICK x \in {newChain, blockchain} : S' = Append(S, x) /\ ~IsEmpty(x)
        BY <1>2, <1>3, <2>3
      <3>2. x \in Chain /\ Linked(x.chain)
        BY <1>2
      <3> HIDE DEF S
      <3>3. /\ Append(S, x) \in Seq(Chain)
            /\ \A j \in 1..Len(Append(S, x)) :
                 \/ Append(S, x)[j] = x
                 \/ \E i \in 1..Len(S) : Append(S, x)[j] = S[i]
        BY <1>2, <3>2, AppendEntries
      <3> QED
        BY <2>1, <3>1, <3>2, <3>3
    <2> QED
      BY <2>2, <2>3
  <1>5. /\ blockchain' \in Chain /\ Linked(blockchain'.chain)
        /\ blockchain' = blockchain
             \/ Len(blockchain'.chain) > Len(blockchain.chain)
    BY <1>2, <1>3 DEF Longer
  <1>6. ChainsOK' /\ ImportOK' /\ MiningOK' /\ NetworkOK' /\ ThreadsOK'
    BY <1>1, <1>4, <1>5, EmptyValues
       DEF ChainsOK, ImportOK, MiningOK, NetworkOK, ThreadsOK, Labels
  <1>7. ChainsLinked'
    BY <1>1, <1>4, <1>5, EmptyValues DEF ChainsLinked
  <1>8. PcInv' /\ LockInv' /\ NonEmptyInv' /\ ContenderInv'
    BY <1>1 DEF PcInv, LockInv, NonEmptyInv, ContenderInv, ThreadsOK,
                ImportLabels
  <1>9. CopyInv' /\ BlockInv'
    <2>1. /\ Len(blockchain.chain) \in Nat /\ Len(mainCopy.chain) \in Nat
          /\ Len(blockchain'.chain) \in Nat
      BY <1>2, <1>5, ChainLength DEF MiningOK
    <2>2. /\ pc'["minning"] = pc["minning"]
          /\ pc["minning"] \notin {"hash", "transactions", "main"}
      BY <1>1, LockExcludes DEF ThreadsOK
    <2> QED
      BY <1>1, <1>5, <2>1, <2>2 DEF CopyInv, BlockInv
  <1> QED
    BY <1>6, <1>7, <1>8, <1>9

\* The equal lengths that _mine compares mean equal chains.
LEMMA CopyIsCurrent ==
  ASSUME IInv, pc["minning"] = "commit", ~IsStale
  PROVE  mainCopy = blockchain
  <1>1. Len(blockchain.chain) \in Nat
    BY ChainTypes DEF IInv, TypeOK
  <1> QED
    BY <1>1 DEF IInv, CopyInv, IsStale

\* The block is handed to processBlock, or appended when the checks are off.
LEMMA CommitBlockInv ==
  ASSUME IInv, commitBlock
  PROVE  IInv'
  <1> USE DEF IInv, TypeOK
  <1> DEFINE b == block["minning"]
  <1>1. /\ pc["minning"] = "commit" /\ lock' = "minning"
        /\ UNCHANGED <<secondaryChains, orphanBlocks, pool, arrived, block,
                       contender, import, mining, network>>
        /\ mainCopy = blockchain
    BY CopyIsCurrent DEF commitBlock
  <1>2. /\ blockchain \in Chain /\ b \in Block /\ Linked(blockchain.chain)
        /\ ~IsEmpty(blockchain) /\ block_belongs(blockchain, b)
    BY <1>1 DEF ChainsOK, ThreadsOK, ChainsLinked, BlockInv
  <1>3. \/ /\ pc' = [pc EXCEPT !["minning"] = "hash"] /\ UNCHANGED blockchain
        \/ /\ pc' = [pc EXCEPT !["minning"] = "broadcast"]
           /\ blockchain' = add_block(blockchain, b)
    BY DEF commitBlock, Goto
  <1>4. /\ blockchain' \in Chain /\ Linked(blockchain'.chain)
        /\ ~IsEmpty(blockchain')
    <2>1. /\ add_block(blockchain, b) \in Chain
          /\ ~IsEmpty(add_block(blockchain, b))
      BY <1>2, AddBlockType
    <2>2. Linked(add_block(blockchain, b).chain)
      BY <1>2, AddBlockLinked DEF block_belongs
    <2> QED
      BY <1>2, <1>3, <2>1, <2>2
  <1>5. ChainsOK' /\ ImportOK' /\ MiningOK' /\ NetworkOK'
    BY <1>1, <1>4 DEF ChainsOK, ImportOK, MiningOK, NetworkOK
  <1>6. ThreadsOK'
    BY <1>1, <1>3 DEF ThreadsOK, Labels, ProcessLabels, MiningLabels
  <1>7. ChainsLinked'
    BY <1>1, <1>4 DEF ChainsLinked
  <1>8. PcInv' /\ LockInv'
    BY <1>1, <1>3 DEF PcInv, LockInv, ThreadsOK, MiningLabels
  <1>9. CopyInv' /\ BlockInv'
    BY <1>1, <1>2, <1>3 DEF CopyInv, BlockInv, ThreadsOK
  <1>10. NonEmptyInv' /\ ContenderInv'
    BY <1>1, <1>3, <1>4 DEF NonEmptyInv, ContenderInv, ThreadsOK
  <1> QED
    BY <1>5, <1>6, <1>7, <1>8, <1>9, <1>10

\* The genesis block alone is a linked chain.
LEMMA CreateNewChainInv ==
  ASSUME IInv, createNewChain
  PROVE  IInv'
  <1> USE DEF IInv, TypeOK
  <1>1. /\ IsEmpty(blockchain)
        /\ UNCHANGED <<secondaryChains, orphanBlocks, pool, arrived, lock,
                       threads, import, mining, network>>
    BY DEF createNewChain
  <1>2. /\ blockchain' \in Chain /\ Linked(blockchain'.chain)
        /\ ~IsEmpty(blockchain') /\ Len(blockchain'.chain) = 1
    <2>1. PICK target \in Targets :
            blockchain' = [target |-> target, chain |-> <<Genesis>>]
      BY DEF createNewChain
    <2>2. <<Genesis>> \in Seq(Block) /\ Len(<<Genesis>>) = 1
          /\ <<Genesis>>[1] = Genesis
      BY EmptyValues
    <2>3. Linked(<<Genesis>>)
      BY DEF Linked, blockNumber, Genesis
    <2> QED
      BY <2>1, <2>2, <2>3 DEF Chain, IsEmpty
  <1>3. ChainsOK' /\ ImportOK' /\ MiningOK' /\ NetworkOK' /\ ThreadsOK'
    BY <1>1, <1>2 DEF ChainsOK, ImportOK, MiningOK, NetworkOK, ThreadsOK
  <1>4. ChainsLinked'
    BY <1>1, <1>2 DEF ChainsLinked
  <1>5. PcInv' /\ LockInv' /\ NonEmptyInv' /\ ContenderInv'
    BY <1>1, <1>2 DEF PcInv, LockInv, NonEmptyInv, ContenderInv
  <1>6. CopyInv' /\ BlockInv'
    <2>1. Len(blockchain.chain) = 0
      BY <1>1 DEF IsEmpty
    <2>2. mainCopy = blockchain => IsEmpty(mainCopy)
      BY <1>1
    <2> QED
      BY <1>1, <1>2, <2>1, <2>2 DEF CopyInv, BlockInv
  <1> QED
    BY <1>3, <1>4, <1>5, <1>6

-----------------------------------------------------------------------------
(* The invariant and the theorems.                                         *)

\* The node starts with nothing.
LEMMA InitInv == Init => IInv
  <1> SUFFICES ASSUME Init PROVE IInv
    OBVIOUS
  <1>1. ChainsOK /\ ImportOK /\ MiningOK /\ NetworkOK
    BY EmptyValues DEF Init, ChainsOK, ImportOK, MiningOK, NetworkOK
  <1>2. ThreadsOK
    BY EmptyValues DEF Init, ThreadsOK, Labels
  <1>3. ChainsLinked /\ PcInv /\ LockInv /\ CopyInv /\ BlockInv
        /\ NonEmptyInv /\ ContenderInv
    BY EmptyValues DEF Init, ChainsLinked, PcInv, LockInv, CopyInv, BlockInv,
                       NonEmptyInv, ContenderInv, ImportLabels
  <1> QED
    BY <1>1, <1>2, <1>3 DEF IInv, TypeOK

\* Every step of processBlock keeps the invariant, in either thread.
LEMMA ProcessBlockInv ==
  ASSUME IInv, NEW t \in Threads, processBlock(t)
  PROVE  IInv'
  BY NewBlockHashValidInv, NewBlockTransactionsValidInv,
     NewBlockBelongsOnMainChainInv, NoMainChainInv,
     NewBlockBelongsOnSecondaryChainsInv, ChallengeMainChainInv,
     NewBlockCausedAForkInv, AddOrphanBlockInv DEF processBlock

\* And so does every step of the node, of a user and of a peer.
LEMMA NextInv == IInv /\ [Next]_vars => IInv'
  <1> SUFFICES ASSUME IInv, [Next]_vars PROVE IInv'
    OBVIOUS
  <1>1. CASE processingThread
    <2>1. CASE processBlock("processing")
      BY <2>1, ProcessBlockInv
    <2> QED
      BY <1>1, <2>1, ReceiveBlockInv, ReceiveBlockchainInv, MergeOrphanInv,
         MergeDoneInv, RemoveOrphanInv, InstallBlockchainInv, QueuesEmptyInv
         DEF processingThread
  <1>2. CASE minningThread
    <2>1. CASE processBlock("minning")
      BY <2>1, ProcessBlockInv
    <2> QED
      BY <1>2, <2>1, TakeTransactionsInv, ExecTransactionInv, ExecDoneInv,
         CopyBlockchainInv, MineBlockInv, MineNothingInv, CommitStaleInv,
         CommitBlockInv, BroadcastBlockInv DEF minningThread
  <1>3. CASE environment
    BY <1>3, CreateNewChainInv, SendTransactionInv, PeerMinesInv
       DEF environment
  <1>4. CASE UNCHANGED vars
    BY <1>4 DEF vars, IInv, TypeOK, ChainsOK, ThreadsOK, ImportOK, MiningOK,
                NetworkOK, ChainsLinked, PcInv, LockInv, CopyInv, BlockInv,
                NonEmptyInv, ContenderInv
  <1> QED
    BY <1>1, <1>2, <1>3, <1>4 DEF Next

\* The strengthened invariant holds in every behaviour of the node.
THEOREM Invariance == Spec => []IInv
  BY InitInv, NextInv, PTL DEF Spec

\* What the node keeps always has the type that the constructor gives it, for
\* any miners, transactions, targets, contract code and bounds.
THEOREM TypeCorrect == Spec => []TypeOK
  <1>1. IInv => TypeOK
    BY DEF IInv
  <1> QED
    BY <1>1, Invariance, PTL

\* Every chain the node keeps or mines on is a chain of blocks from the genesis
\* block on, whatever arrives and however the two threads interleave.
THEOREM ChainsAreLinked == Spec => []ChainsLinked
  <1>1. IInv => ChainsLinked
    BY DEF IInv
  <1> QED
    BY <1>1, Invariance, PTL

\* The comparison of lengths in _mine is enough: what is mined here reaches
\* processBlock with its parent at the head of the main chain.
THEOREM MinesAtHead == Spec => []MinedAtHead
  <1>1. IInv => MinedAtHead
    BY DEF IInv, MinedAtHead, PcInv, BlockInv, MiningLabels, block_belongs
  <1> QED
    BY <1>1, Invariance, PTL

\* A step leaves the main chain alone or replaces it with a longer one.
LEMMA NextGrows ==
  ASSUME IInv, [Next]_vars
  PROVE  blockchain' = blockchain
           \/ Len(blockchain'.chain) > Len(blockchain.chain)
  <1>0. /\ blockchain \in Chain /\ Len(blockchain.chain) \in Nat
        /\ block \in [Threads -> Block]
    BY ChainTypes DEF IInv, TypeOK, ChainsOK, ThreadsOK
  <1>1. ASSUME NEW t \in Threads, newBlockBelongsOnMainChain(t)
        PROVE  blockchain' = blockchain
                 \/ Len(blockchain'.chain) > Len(blockchain.chain)
    BY <1>0, <1>1, AddBlockType DEF newBlockBelongsOnMainChain
  <1>2. ASSUME NEW t \in Threads, challengeMainChain(t)
        PROVE  blockchain' = blockchain
                 \/ Len(blockchain'.chain) > Len(blockchain.chain)
    BY <1>2 DEF challengeMainChain, Longer
  <1>3. ASSUME installBlockchain
        PROVE  blockchain' = blockchain
                 \/ Len(blockchain'.chain) > Len(blockchain.chain)
    BY <1>3 DEF installBlockchain, Longer
  <1>4. ASSUME commitBlock
        PROVE  blockchain' = blockchain
                 \/ Len(blockchain'.chain) > Len(blockchain.chain)
    <2>1. \/ blockchain' = add_block(blockchain, block["minning"])
          \/ blockchain' = blockchain
      BY <1>4 DEF commitBlock
    <2> QED
      BY <1>0, <2>1, AddBlockType
  <1>5. ASSUME createNewChain
        PROVE  Len(blockchain'.chain) > Len(blockchain.chain)
    BY <1>5 DEF createNewChain, IsEmpty
  <1>6. ASSUME NEW t \in Threads, processBlock(t)
        PROVE  blockchain' = blockchain
                 \/ Len(blockchain'.chain) > Len(blockchain.chain)
    BY <1>1, <1>2, <1>6
       DEF processBlock, newBlockHashValid, newBlockTransactionsValid,
           noMainChain, newBlockBelongsOnSecondaryChains, newBlockCausedAFork,
           addOrphanBlock
  <1>7. CASE processingThread
    BY <1>3, <1>6, <1>7
       DEF processingThread, receiveBlock, receiveBlockchain, mergeOrphan,
           mergeDone, removeOrphan, queuesEmpty, vars
  <1>8. CASE minningThread
    BY <1>4, <1>6, <1>8
       DEF minningThread, takeTransactions, execTransaction, execDone,
           copyBlockchain, mineBlock, mineNothing, commitStale, broadcastBlock
  <1>9. CASE environment
    BY <1>5, <1>9 DEF environment, sendTransaction, peerMines
  <1>10. CASE UNCHANGED vars
    BY <1>10 DEF vars
  <1> QED
    BY <1>7, <1>8, <1>9, <1>10 DEF Next

=============================================================================
