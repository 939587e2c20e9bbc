----------------------------- MODULE BlockProofs -----------------------------
(***************************************************************************)
(* Proofs of what a node of Bevali does with blocks.                       *)
(*                                                                         *)
(* The node implements ForkChoice: for any miners, transactions and bounds *)
(* no step loses a block, whichever of the lists and chains it moves, and  *)
(* the main chain is left only for a longer path of blocks that are kept.  *)
(*                                                                         *)
(* A node may rely on what it saw under an earlier lock: the main chain    *)
(* stays the longest, a block that joins it is valid on it, an orphan has  *)
(* no parent, and a block that is broadcast was added.  Between two steps  *)
(* of one thread the other one may have changed the main chain.  What the  *)
(* mining thread does meanwhile is harmless, because the block that it     *)
(* adds is nobody's parent yet; and the processing thread does nothing to  *)
(* the main chain while the mining thread has the lock.                    *)
(***************************************************************************)
EXTENDS BevaliProofs

-----------------------------------------------------------------------------
(* The lists and chains that steps move.                                   *)

\* What add_block leaves in a chain.
LEMMA AddBlockKeeps ==
  ASSUME NEW c \in Chain, NEW b \in Block
  PROVE  Blocks(c) \cup {b} \subseteq Blocks(add_block(c, b))
  <1>1. /\ c.chain \in Seq(Block) /\ Len(c.chain) \in Nat
        /\ add_block(c, b).chain = Append(c.chain, b)
    BY ChainLength, AddBlockType
  <1>2. /\ DOMAIN Append(c.chain, b) = 1..(Len(c.chain) + 1)
        /\ Append(c.chain, b)[Len(c.chain) + 1] = b
        /\ \A i \in 1..Len(c.chain) : Append(c.chain, b)[i] = c.chain[i]
    BY <1>1, AppendProperties
  <1>3. b \in Blocks(add_block(c, b))
    BY <1>1, <1>2 DEF Blocks
  <1>4. ASSUME NEW x \in Blocks(c)
        PROVE  x \in Blocks(add_block(c, b))
    <2>1. PICK i \in 1..Len(c.chain) : x = c.chain[i]
      BY <1>1, <1>4 DEF Blocks
    <2> QED
      BY <1>1, <1>2, <2>1 DEF Blocks
  <1> QED
    BY <1>3, <1>4

\* A list without its n-th entry has all the others.
LEMMA RemoveAtKeeps ==
  ASSUME NEW S, NEW s \in Seq(S), NEW n \in 1..Len(s), NEW i \in 1..Len(s),
         i # n
  PROVE  \E j \in DOMAIN RemoveAt(s, n) : RemoveAt(s, n)[j] = s[i]
  <1> DEFINE l == SubSeq(s, 1, n - 1)
  <1> DEFINE r == SubSeq(s, n + 1, Len(s))
  <1>1. Len(s) \in Nat /\ n \in Nat
    OBVIOUS
  <1>2. l \in Seq(S) /\ Len(l) = n - 1 /\ \A j \in 1..(n - 1) : l[j] = s[j]
    BY <1>1, SubSeqProperties
  <1>3. r \in Seq(S) /\ Len(r) = Len(s) - n
        /\ \A j \in 1..(Len(s) - n) : r[j] = s[n + j]
    BY <1>1, SubSeqProperties
  <1> HIDE DEF l, r
  <1>4. /\ DOMAIN (l \o r) = 1..(Len(s) - 1)
        /\ \A j \in 1..(Len(s) - 1) :
             (l \o r)[j] = IF j <= n - 1 THEN l[j] ELSE r[j - (n - 1)]
    <2>1. /\ l \o r \in Seq(S) /\ Len(l \o r) = Len(l) + Len(r)
          /\ \A j \in 1..(Len(l) + Len(r)) :
               (l \o r)[j] = IF j <= Len(l) THEN l[j] ELSE r[j - Len(l)]
      <3>1. l \in Seq(S) /\ r \in Seq(S)
        BY <1>2, <1>3
      <3> QED
        BY <3>1, ConcatProperties, ZenonT(30)
    <2>2. DOMAIN (l \o r) = 1..Len(l \o r) /\ Len(l) + Len(r) = Len(s) - 1
      BY <1>1, <1>2, <1>3, <2>1
    <2> QED
      BY <1>2, <2>1, <2>2
  <1>5. RemoveAt(s, n) = l \o r
    BY DEF RemoveAt, l, r
  <1>6. CASE i < n
    BY <1>1, <1>2, <1>4, <1>5, <1>6, SMTT(20)
  <1>7. CASE i > n
    <2>1. i - 1 \in 1..(Len(s) - 1) /\ ~(i - 1 <= n - 1)
          /\ (i - 1) - (n - 1) \in 1..(Len(s) - n)
          /\ n + ((i - 1) - (n - 1)) = i
      BY <1>1, <1>7
    <2>2. (l \o r)[i - 1] = s[i]
      BY <1>3, <1>4, <2>1
    <2> QED
      BY <1>4, <1>5, <2>1, <2>2
  <1> QED
    BY <1>1, <1>6, <1>7

\* A longer list has every entry of the one it was made from, and the new one.
LEMMA AppendKeeps ==
  ASSUME NEW S, NEW s \in Seq(S), NEW x \in S
  PROVE  /\ \E j \in DOMAIN Append(s, x) : Append(s, x)[j] = x
         /\ \A i \in DOMAIN s :
              \E j \in DOMAIN Append(s, x) : Append(s, x)[j] = s[i]
  <1>1. /\ Append(s, x) \in Seq(S) /\ Len(Append(s, x)) = Len(s) + 1
        /\ DOMAIN Append(s, x) = 1..(Len(s) + 1) /\ DOMAIN s = 1..Len(s)
        /\ \A j \in 1..Len(s) : Append(s, x)[j] = s[j]
        /\ Append(s, x)[Len(s) + 1] = x /\ Len(s) \in Nat
    BY AppendProperties
  <1> QED
    BY <1>1

-----------------------------------------------------------------------------
(* The orphans that are to be removed.                                     *)

\* They are in the chain that is examined when their removal begins.
LEMMA RemovalInit == Init => RemovalInv
  BY DEF Init, RemovalInv, ImportLabels, Threads

\* A step of the other thread, or of the same one outside the import.
LEMMA RemovalQuiet ==
  ASSUME RemovalInv, UNCHANGED <<newChain, removalList>>,
         pc'["processing"] \in ImportLabels <=> pc["processing"] \in ImportLabels
  PROVE  RemovalInv'
  BY DEF RemovalInv

LEMMA ProcessBlockRemoval ==
  ASSUME IInv, RemovalInv, NEW t \in Threads, processBlock(t)
  PROVE  RemovalInv'
  <1>1. UNCHANGED import /\ pc \in [Threads -> Labels]
    BY DEF IInv, TypeOK, ThreadsOK, processBlock, newBlockHashValid,
           newBlockTransactionsValid, newBlockBelongsOnMainChain, noMainChain,
           newBlockBelongsOnSecondaryChains, challengeMainChain,
           newBlockCausedAFork, addOrphanBlock
  <1>2. pc[t] \notin ImportLabels
    BY DEF ImportLabels, processBlock, newBlockHashValid,
           newBlockTransactionsValid, newBlockBelongsOnMainChain, noMainChain,
           newBlockBelongsOnSecondaryChains, challengeMainChain,
           newBlockCausedAFork, addOrphanBlock
  <1>3. \E label \in {"loop", "broadcast"} \cup ProcessLabels :
          pc' = [pc EXCEPT ![t] = label]
    BY DEF ProcessLabels, Goto, Proceed, Return, processBlock,
           newBlockHashValid, newBlockTransactionsValid,
           newBlockBelongsOnMainChain, noMainChain,
           newBlockBelongsOnSecondaryChains, challengeMainChain,
           newBlockCausedAFork, addOrphanBlock
  <1>4. pc'["processing"] \in ImportLabels <=> pc["processing"] \in ImportLabels
    BY <1>1, <1>2, <1>3 DEF ImportLabels, ProcessLabels, Threads
  <1> QED
    BY <1>1, <1>4, RemovalQuiet DEF import

\* mergeOrphan puts an orphan on the list only if the chain has it.
LEMMA MergeRemoval ==
  ASSUME IInv, RemovalInv, mergeOrphan
  PROVE  RemovalInv'
  <1> DEFINE orphan == orphanBlocks[visited + 1]
  <1>1. /\ pc["processing"] = "merge" /\ UNCHANGED pc
        /\ orphan \in Block /\ newChain \in Chain /\ removalList \in Seq(Block)
        /\ Elems(removalList) \subseteq Blocks(newChain)
    BY DEF mergeOrphan, IInv, TypeOK, ChainsOK, ImportOK, RemovalInv,
           ImportLabels, threads
  <1> HIDE DEF orphan
  <1>2. CASE is_block_in_chain(newChain, orphan)
    <2>1. removalList' = Append(removalList, orphan) /\ UNCHANGED newChain
      BY <1>2 DEF mergeOrphan, orphan
    <2>2. Elems(Append(removalList, orphan)) \subseteq
            Elems(removalList) \cup {orphan}
      BY <1>1, AppendProperties DEF Elems
    <2>3. orphan \in Blocks(newChain)
      BY <1>2 DEF is_block_in_chain
    <2> QED
      BY <1>1, <2>1, <2>2, <2>3 DEF RemovalInv, ImportLabels
  <1>3. CASE ~is_block_in_chain(newChain, orphan)
    <2>1. newChain' \in {newChain, add_block(newChain, orphan)}
          /\ UNCHANGED removalList
      BY <1>3 DEF mergeOrphan, orphan
    <2>2. Blocks(newChain) \subseteq Blocks(newChain')
      BY <1>1, <2>1, AddBlockKeeps
    <2> QED
      BY <1>1, <2>1, <2>2 DEF RemovalInv, ImportLabels
  <1> QED
    BY <1>2, <1>3

LEMMA RemoveRemoval ==
  ASSUME IInv, RemovalInv, removeOrphan
  PROVE  RemovalInv'
  <1>1. /\ pc["processing"] = "remove" /\ UNCHANGED <<pc, newChain>>
        /\ removalList \in Seq(Block) /\ removalList # <<>>
        /\ removalList' = Tail(removalList)
        /\ Elems(removalList) \subseteq Blocks(newChain)
    BY DEF removeOrphan, IInv, TypeOK, ImportOK, RemovalInv, ImportLabels,
           threads
  <1>2. Elems(Tail(removalList)) \subseteq Elems(removalList)
    BY <1>1, HeadTailProperties DEF Elems
  <1> QED
    BY <1>1, <1>2 DEF RemovalInv

\* Every other step starts outside the import, with an empty list, or is one of
\* the mining thread.
LEMMA NextRemoval ==
  ASSUME IInv, RemovalInv, [Next]_vars
  PROVE  RemovalInv'
  <1> USE DEF ImportLabels
  <1>1. pc \in [Threads -> Labels] /\ Threads = {"processing", "minning"}
    BY DEF IInv, TypeOK, ThreadsOK, Threads
  <1>2. CASE processingThread
    <2>1. CASE receiveBlock \/ mergeDone \/ queuesEmpty
      BY <1>1, <2>1 DEF RemovalInv, Goto, receiveBlock, mergeDone, queuesEmpty,
                        import, vars, threads
    <2>2. CASE receiveBlockchain
      BY <1>1, <2>2 DEF RemovalInv, Goto, receiveBlockchain, Elems
    <2>3. CASE installBlockchain
      BY <1>1, <2>3 DEF RemovalInv, Goto, installBlockchain
    <2> QED
      BY <1>1, <1>2, <2>1, <2>2, <2>3, MergeRemoval, RemoveRemoval,
         ProcessBlockRemoval DEF processingThread
  <1>3. CASE minningThread
    <2>1. CASE processBlock("minning")
      BY <1>1, <2>1, ProcessBlockRemoval
    <2>2. CASE ~processBlock("minning")
      <3>1. UNCHANGED import /\ pc'["processing"] = pc["processing"]
        BY <1>1, <1>3, <2>2
           DEF minningThread, takeTransactions, execTransaction, execDone,
               copyBlockchain, mineBlock, mineNothing, commitStale,
               commitBlock, broadcastBlock, endRound, Goto, threads
      <3> QED
        BY <3>1, RemovalQuiet DEF import
    <2> QED
      BY <2>1, <2>2
  <1>4. CASE environment
    BY <1>4 DEF environment, createNewChain, sendTransaction, peerMines,
                threads, import, RemovalInv
  <1>5. CASE UNCHANGED vars
    BY <1>5 DEF vars, threads, import, RemovalInv
  <1> QED
    BY <1>2, <1>3, <1>4, <1>5 DEF Next

-----------------------------------------------------------------------------
(* No step loses a block.                                                  *)

\* The blocks of the secondary chains S.
Kept(S) == UNION {Blocks(S[i]) : i \in DOMAIN S}

\* A step that changes nothing of what the node keeps.
LEMMA QuietKeeps ==
  ASSUME UNCHANGED <<blockchain, secondaryChains, orphanBlocks, newChain>>
  PROVE  Known' = Known
  BY DEF Known

\* The parts may each grow.
LEMMA PartsKeep ==
  ASSUME Blocks(blockchain) \subseteq Known',
         Kept(secondaryChains) \subseteq Known',
         Elems(orphanBlocks) \subseteq Known',
         Blocks(newChain) \subseteq Known'
  PROVE  Known \subseteq Known'
  BY DEF Known, Kept

LEMMA InKnown ==
  /\ Blocks(blockchain) \subseteq Known
  /\ Kept(secondaryChains) \subseteq Known
  /\ Elems(orphanBlocks) \subseteq Known
  /\ Blocks(newChain) \subseteq Known
  BY DEF Known, Kept

\* A chain on the list is kept.
LEMMA OnList ==
  ASSUME NEW S, NEW i \in DOMAIN S
  PROVE  Blocks(S[i]) \subseteq Kept(S)
  BY DEF Kept

\* Chains that are appended to the list are kept with the others.
LEMMA AppendChain ==
  ASSUME NEW S \in Seq(Chain), NEW c \in Chain
  PROVE  Kept(S) \cup Blocks(c) \subseteq Kept(Append(S, c))
  <1>1. /\ \E j \in DOMAIN Append(S, c) : Append(S, c)[j] = c
        /\ \A i \in DOMAIN S :
             \E j \in DOMAIN Append(S, c) : Append(S, c)[j] = S[i]
    BY AppendKeeps, SMTT(30)
  <1> QED
    BY <1>1 DEF Kept

\* Step 3 and the commit without checks: a block is added to the main chain.
LEMMA MainKeeps ==
  ASSUME IInv, NEW b \in Block,
         blockchain' \in {blockchain, add_block(blockchain, b)},
         UNCHANGED <<secondaryChains, orphanBlocks, newChain>>
  PROVE  Known \subseteq Known'
  <1>1. Blocks(blockchain) \subseteq Blocks(blockchain')
    BY AddBlockKeeps DEF IInv, TypeOK, ChainsOK
  <1> QED
    BY <1>1 DEF Known

\* Step 4: secondary chains become longer.
LEMMA SecondaryKeeps ==
  ASSUME IInv, NEW t \in Threads, newBlockBelongsOnSecondaryChains(t)
  PROVE  Known \subseteq Known'
  <1> DEFINE S == secondaryChains
  <1>1. /\ S' = ExtendAll(S, block[t])
        /\ UNCHANGED <<blockchain, orphanBlocks, newChain>>
    BY SecondaryStep DEF import
  <1>2. block[t] \in Block /\ \A i \in DOMAIN S : S[i] \in Chain
    BY DEF IInv, TypeOK, ThreadsOK, ChainsOK
  <1>3. ASSUME NEW i \in DOMAIN S
        PROVE  i \in DOMAIN S' /\ Blocks(S[i]) \subseteq Blocks(S'[i])
    BY <1>1, <1>2, <1>3, AddBlockKeeps DEF ExtendAll
  <1>4. Kept(S) \subseteq Kept(S')
    BY <1>3 DEF Kept
  <1> QED
    BY <1>1, <1>4 DEF Known, Kept

\* Step 5: the two chains trade places.
LEMMA ChallengeKeeps ==
  ASSUME IInv, NEW t \in Threads, challengeMainChain(t)
  PROVE  Known \subseteq Known'
  <1> DEFINE S == secondaryChains
  <1>1. /\ S \in Seq(Chain) /\ blockchain \in Chain
        /\ Len(S) \in Nat /\ DOMAIN S = 1..Len(S)
        /\ contender \in 1..Len(S)
        /\ UNCHANGED <<orphanBlocks, newChain>>
    <2>1. t = "processing"
      BY DEF challengeMainChain, IInv, PcInv, ImportLabels, MiningLabels,
             Threads
    <2>2. /\ S \in Seq(Chain) /\ blockchain \in Chain
          /\ Len(S) \in Nat /\ DOMAIN S = 1..Len(S)
      BY ChainTypes DEF IInv, TypeOK, ChainsOK
    <2>3. contender \in 1..Len(S) /\ UNCHANGED <<orphanBlocks, newChain>>
      BY <2>1 DEF challengeMainChain, IInv, ContenderInv, import
    <2> QED
      BY <2>2, <2>3
  <1> DEFINE R == RemoveAt(S, contender)
  <1>2. CASE UNCHANGED <<blockchain, secondaryChains>>
    BY <1>1, <1>2, QuietKeeps
  <1>3. CASE ~UNCHANGED <<blockchain, secondaryChains>>
    <2>1. blockchain' = S[contender] /\ S' = Append(R, blockchain)
      BY <1>3 DEF challengeMainChain
    <2> HIDE DEF S
    <2>2. R \in Seq(Chain)
      BY <1>1, RemoveAtEntries
    <2>3. ASSUME NEW i \in DOMAIN S, i # contender
          PROVE  Blocks(S[i]) \subseteq Kept(R)
      <3>1. PICK j \in DOMAIN R : R[j] = S[i]
        BY <1>1, <2>3, RemoveAtKeeps
      <3> HIDE DEF R
      <3> QED
        BY <3>1, OnList
    <2> HIDE DEF R
    <2>4. Kept(R) \cup Blocks(blockchain) \subseteq Kept(S')
      BY <1>1, <2>1, <2>2, AppendChain
    <2>5. \A i \in DOMAIN S : Blocks(S[i]) \subseteq Kept(S') \cup Blocks(blockchain')
      BY <2>1, <2>3, <2>4
    <2>6. Kept(S) \subseteq Kept(S') \cup Blocks(blockchain')
      BY <2>5 DEF Kept
    <2> QED
      BY <1>1, <2>4, <2>6 DEF Known, Kept, S
  <1> QED
    BY <1>2, <1>3

\* Step 6: the list of chains gets one more.
LEMMA ForkKeeps ==
  ASSUME IInv, NEW t \in Threads, newBlockCausedAFork(t)
  PROVE  Known \subseteq Known'
  <1> DEFINE number == is_prev_hash_in_chain(blockchain, block[t])
  <1> DEFINE fork == add_block(copyUpTo(blockchain, number), block[t])
  <1>1. UNCHANGED <<blockchain, orphanBlocks, newChain>>
    BY DEF newBlockCausedAFork, import
  <1>2. CASE number = 0
    BY <1>1, <1>2, QuietKeeps DEF newBlockCausedAFork
  <1>3. CASE number # 0
    <2>1. /\ secondaryChains \in Seq(Chain)
          /\ blockchain \in Chain /\ Linked(blockchain.chain)
          /\ block[t] \in Block
      BY DEF IInv, TypeOK, ChainsOK, ThreadsOK, ChainsLinked
    <2>2. fork \in Chain /\ secondaryChains' = Append(secondaryChains, fork)
      BY <1>3, <2>1, ForkChain DEF newBlockCausedAFork
    <2> HIDE DEF fork
    <2>3. Kept(secondaryChains) \subseteq Kept(secondaryChains')
      BY <2>1, <2>2, AppendChain
    <2> QED
      BY <1>1, <2>3 DEF Known, Kept
  <1> QED
    BY <1>2, <1>3

\* Step 7: so does the list of orphans.
LEMMA OrphanKeeps ==
  ASSUME IInv, NEW t \in Threads, addOrphanBlock(t)
  PROVE  Known \subseteq Known'
  <1>1. /\ orphanBlocks \in Seq(Block) /\ block[t] \in Block
        /\ orphanBlocks' = Append(orphanBlocks, block[t])
        /\ UNCHANGED <<blockchain, secondaryChains, newChain>>
    BY DEF addOrphanBlock, import, IInv, TypeOK, ChainsOK, ThreadsOK
  <1>2. Elems(orphanBlocks) \subseteq Elems(orphanBlocks')
    <2>1. \A i \in DOMAIN orphanBlocks :
             \E j \in DOMAIN orphanBlocks' : orphanBlocks'[j] = orphanBlocks[i]
      BY <1>1, AppendKeeps
    <2> QED
      BY <2>1 DEF Elems
  <1> QED
    BY <1>1, <1>2 DEF Known

\* An orphan joins the chain that is examined, or the list of those that have.
LEMMA MergeKeeps ==
  ASSUME IInv, mergeOrphan
  PROVE  Known \subseteq Known'
  <1> DEFINE orphan == orphanBlocks[visited + 1]
  <1>1. /\ orphan \in Block /\ newChain \in Chain
        /\ newChain' \in {newChain, add_block(newChain, orphan)}
        /\ UNCHANGED <<blockchain, secondaryChains, orphanBlocks>>
    BY DEF mergeOrphan, IInv, TypeOK, ChainsOK, ImportOK, chains
  <1>2. Blocks(newChain) \subseteq Blocks(newChain')
    BY <1>1, AddBlockKeeps
  <1> QED
    BY <1>1, <1>2 DEF Known

\* An orphan that is removed is in the chain that is examined.
LEMMA RemoveKeeps ==
  ASSUME IInv, RemovalInv, removeOrphan
  PROVE  Known \subseteq Known'
  <1>1. /\ UNCHANGED <<blockchain, secondaryChains, newChain>>
        /\ orphanBlocks \in Seq(Block)
        /\ DOMAIN orphanBlocks = 1..Len(orphanBlocks)
        /\ removalList \in Seq(Block) /\ removalList # <<>>
        /\ Elems(removalList) \subseteq Blocks(newChain)
    BY DEF removeOrphan, IInv, TypeOK, ImportOK, ChainsOK, RemovalInv,
           ImportLabels
  <1>2. PICK n \in DOMAIN orphanBlocks :
          /\ orphanBlocks[n] = Head(removalList)
          /\ orphanBlocks' = RemoveAt(orphanBlocks, n)
    BY DEF removeOrphan
  <1>3. Head(removalList) \in Blocks(newChain)
    <2>1. Head(removalList) = removalList[1] /\ 1 \in DOMAIN removalList
      BY <1>1
    <2> QED
      BY <1>1, <2>1 DEF Elems
  <1>4. ASSUME NEW i \in DOMAIN orphanBlocks
        PROVE  orphanBlocks[i] \in Known'
    <2>1. CASE i = n
      BY <1>1, <1>2, <1>3, <2>1 DEF Known
    <2>2. CASE i # n
      <3>1. PICK j \in DOMAIN orphanBlocks' : orphanBlocks'[j] = orphanBlocks[i]
        BY <1>1, <1>2, <2>2, RemoveAtKeeps
      <3> QED
        BY <3>1 DEF Known, Elems
    <2> QED
      BY <2>1, <2>2
  <1>5. Elems(orphanBlocks) \subseteq Known'
    BY <1>4 DEF Elems
  <1> QED
    BY <1>1, <1>5 DEF Known

\* A chain is examined when none is.
LEMMA ReceiveKeeps ==
  ASSUME RemovalInv, receiveBlockchain
  PROVE  Known \subseteq Known'
  <1>1. Blocks(newChain) = {}
    BY DEF receiveBlockchain, RemovalInv, ImportLabels, EmptyChain, Blocks
  <1> QED
    BY <1>1 DEF receiveBlockchain, chains, Known

\* The chain that was examined becomes a chain of the node, or is one already.
LEMMA InstallKeeps ==
  ASSUME IInv, installBlockchain
  PROVE  Known \subseteq Known'
  <1> DEFINE S == secondaryChains
  <1>1. /\ S \in Seq(Chain) /\ blockchain \in Chain /\ newChain \in Chain
        /\ UNCHANGED orphanBlocks
    BY DEF installBlockchain, IInv, TypeOK, ChainsOK, ImportOK
  <1>2. CASE Longer(newChain, blockchain)
    <2>1. blockchain' = newChain /\ S' = WithOldChain
      BY <1>2 DEF installBlockchain
    <2>2. CASE IsEmpty(blockchain)
      <3>1. S' = S /\ Blocks(blockchain) = {}
        BY <2>1, <2>2 DEF WithOldChain, IsEmpty, Blocks
      <3> QED
        BY <1>1, <2>1, <3>1 DEF Known
    <2>3. CASE ~IsEmpty(blockchain)
      <3>1. S' = Append(S, blockchain)
        BY <2>1, <2>3 DEF WithOldChain
      <3>2. Kept(S) \cup Blocks(blockchain) \subseteq Kept(S')
        BY <1>1, <3>1, AppendChain
      <3> QED
        BY <1>1, <2>1, <3>2 DEF Known, Kept
    <2> QED
      BY <2>2, <2>3
  <1>3. CASE ~Longer(newChain, blockchain) /\ is_equal(blockchain, newChain)
    <2>1. UNCHANGED <<blockchain, secondaryChains>>
      BY <1>3 DEF installBlockchain
    <2>2. Blocks(newChain) = Blocks(blockchain)
      BY <1>3 DEF is_equal, Blocks
    <2> QED
      BY <1>1, <2>1, <2>2 DEF Known
  <1>4. CASE ~Longer(newChain, blockchain) /\ ~is_equal(blockchain, newChain)
    <2>1. UNCHANGED blockchain /\ S' = Append(S, newChain)
      BY <1>4 DEF installBlockchain
    <2>2. Kept(S) \cup Blocks(newChain) \subseteq Kept(S')
      BY <1>1, <2>1, AppendChain
    <2> QED
      BY <1>1, <2>1, <2>2 DEF Known, Kept
  <1> QED
    BY <1>2, <1>3, <1>4

\* A chain is created when there is none.
LEMMA CreateKeeps ==
  ASSUME createNewChain
  PROVE  Known \subseteq Known'
  <1>1. /\ Blocks(blockchain) = {}
        /\ UNCHANGED <<secondaryChains, orphanBlocks, newChain>>
    BY DEF createNewChain, IsEmpty, Blocks, import
  <1> QED
    BY <1>1 DEF Known

\* So no block is forgotten.
LEMMA NextKeeps ==
  ASSUME IInv, RemovalInv, [Next]_vars
  PROVE  Known \subseteq Known'
  <1>0. block \in [Threads -> Block] /\ "minning" \in Threads
    BY DEF IInv, TypeOK, ThreadsOK, Threads
  <1>1. ASSUME NEW t \in Threads, processBlock(t)
        PROVE  Known \subseteq Known'
    <2>1. CASE newBlockBelongsOnMainChain(t)
      <3>1. block[t] \in Block
        BY <1>0
      <3>2. blockchain' \in {blockchain, add_block(blockchain, block[t])}
            /\ UNCHANGED <<secondaryChains, orphanBlocks, newChain>>
        BY <2>1 DEF newBlockBelongsOnMainChain, import
      <3> QED
        BY <3>1, <3>2, MainKeeps
    <2>2. CASE newBlockHashValid(t) \/ newBlockTransactionsValid(t)
                 \/ noMainChain(t)
      BY <2>2, QuietKeeps DEF newBlockHashValid, newBlockTransactionsValid,
                              noMainChain, chains, import
    <2> QED
      BY <1>1, <2>1, <2>2, SecondaryKeeps, ChallengeKeeps, ForkKeeps,
         OrphanKeeps DEF processBlock
  <1>2. CASE processingThread
    <2>1. CASE receiveBlock \/ mergeDone \/ queuesEmpty
      BY <2>1, QuietKeeps DEF receiveBlock, mergeDone, queuesEmpty, chains,
                              import, vars
    <2>2. CASE processBlock("processing")
      BY <1>1, <2>2 DEF Threads
    <2> QED
      BY <1>2, <2>1, <2>2, ReceiveKeeps, MergeKeeps, RemoveKeeps, InstallKeeps
         DEF processingThread
  <1>3. CASE minningThread
    <2>1. CASE processBlock("minning")
      BY <1>0, <1>1, <2>1
    <2>2. CASE commitBlock
      <3>1. block["minning"] \in Block
        BY <1>0
      <3>2. blockchain' \in {blockchain, add_block(blockchain, block["minning"])}
            /\ UNCHANGED <<secondaryChains, orphanBlocks, newChain>>
        BY <2>2 DEF commitBlock, import
      <3> QED
        BY <3>1, <3>2, MainKeeps
    <2>3. CASE ~processBlock("minning") /\ ~commitBlock
      BY <1>3, <2>3, QuietKeeps
         DEF minningThread, takeTransactions, execTransaction, execDone,
             copyBlockchain, mineBlock, mineNothing, commitStale,
             broadcastBlock, chains, import
    <2> QED
      BY <2>1, <2>2, <2>3
  <1>4. CASE environment
    BY <1>4, CreateKeeps, QuietKeeps
       DEF environment, sendTransaction, peerMines, chains, import
  <1>5. CASE UNCHANGED vars
    BY <1>5, QuietKeeps DEF vars, chains, import
  <1> QED
    BY <1>2, <1>3, <1>4, <1>5 DEF Next

-----------------------------------------------------------------------------
(* The refinement.                                                         *)

\* The node starts with no block and no chain.
LEMMA InitChooses == Init => FromOutside!Init
  BY EmptyValues DEF Init, FromOutside!Init, Known, Blocks, Elems, EmptyChain

\* A step that leaves the main chain only adds to what is known, and one that
\* changes it chooses a longer path of what is kept.
LEMMA NextChooses ==
  ASSUME IInv, IInv', RemovalInv, [Next]_vars
  PROVE  [FromOutside!Next]_<<Known, blockchain.chain>>
  <1>1. Known \subseteq Known'
    BY NextKeeps
  <1>2. CASE blockchain'.chain = blockchain.chain
    BY <1>1, <1>2 DEF FromOutside!Next, FromOutside!learn
  <1>3. CASE blockchain'.chain # blockchain.chain
    <2>1. Len(blockchain'.chain) > Len(blockchain.chain)
      BY <1>3, NextGrows
    <2>2. Linked(blockchain'.chain)
      BY DEF IInv, ChainsLinked
    <2>3. \A i \in DOMAIN blockchain'.chain : blockchain'.chain[i] \in Known'
      BY DEF Known, Blocks
    <2> QED
      BY <1>1, <2>1, <2>2, <2>3
         DEF FromOutside!Next, FromOutside!choose, FromOutside!Linked, Linked,
             FromOutside!Follows, Follows, FromOutside!blockNumber,
             blockNumber, FromOutside!Genesis, Genesis
  <1> QED
    BY <1>2, <1>3

\* The node keeps what it was given and leaves its chain only for a longer one:
\* it implements ForkChoice, whatever its peers and users do.
THEOREM ImplementsForkChoice == Spec => ChoosesForks
  <1>1. Init => RemovalInv
    BY RemovalInit
  <1>2. IInv /\ RemovalInv /\ [Next]_vars => RemovalInv'
    BY NextRemoval
  <1>3. Spec => [](IInv /\ RemovalInv)
    BY <1>1, <1>2, Invariance, PTL DEF Spec
  <1>4. IInv /\ IInv' /\ RemovalInv /\ [Next]_vars =>
          [FromOutside!Next]_<<Known, blockchain.chain>>
    BY NextChooses
  <1> QED
    BY <1>3, <1>4, InitChooses, PTL DEF Spec, ChoosesForks, FromOutside!Spec

-----------------------------------------------------------------------------
USE BevaliAssumption DEF Threads, Goto, chains, import, mining, network, threads

-----------------------------------------------------------------------------
(* The longest chain.  A fork is dangerous only if its parent is the head  *)
(* of the main chain: then the secondary chain it starts would be longer   *)
(* than the main chain, and nothing would compare the two.  Step 3 of      *)
(* processBlock rules that out for the head it sees, but the mining thread *)
(* can add a block before step 6.  It is harmless, because nobody can have *)
(* built on a block that has not been broadcast; and a block that was      *)
(* broadcast without being added was not valid, so no honest node has      *)
(* built on it.                                                            *)

\* The block that follows the head of a chain has the chain's length as its
\* number.
LEMMA HeadNumber ==
  ASSUME NEW c \in Chain, Linked(c.chain), ~IsEmpty(c), NEW b \in Block,
         Follows(b, Newest(c))
  PROVE  Len(b) = Len(c.chain) /\ Len(c.chain) \in Nat \ {0}
  <1>1. c.chain \in Seq(Block) /\ Len(c.chain) \in Nat \ {0}
    BY ChainLength, EmptySeq DEF IsEmpty
  <1>2. blockNumber(Newest(c)) = Len(c.chain) - 1
    BY <1>1 DEF Linked, Newest
  <1>3. blockNumber(b) = blockNumber(Newest(c)) + 1
    BY FollowsNumber
  <1> QED
    BY <1>1, <1>2, <1>3 DEF blockNumber

\* A linked chain is the path to its last block.
LEMMA LinkedPath ==
  ASSUME NEW c \in Chain, Linked(c.chain), ~IsEmpty(c)
  PROVE  Path(Newest(c)) = c.chain
  <1> DEFINE s == c.chain
  <1> DEFINE n == Len(s)
  <1> DEFINE bad == {i \in 1..n : s[i] # SubSeq(s[n], 1, i - 1)}
  <1>1. s \in Seq(Block) /\ n \in Nat \ {0}
    BY ChainLength, EmptySeq DEF IsEmpty
  <1>2. s[n] \in Seq(Content) /\ Len(s[n]) = n - 1
    BY <1>1 DEF Linked, blockNumber, Block
  <1>3. bad = {}
    <2> SUFFICES ASSUME bad # {} PROVE FALSE
      OBVIOUS
    <2>1. PICK i \in bad : \A j \in bad : j <= i
      <3>1. bad \subseteq 0..n
        OBVIOUS
      <3> QED
        BY <1>1, <3>1, GreatestNat
    <2>2. i \in 1..n /\ s[i] # SubSeq(s[n], 1, i - 1)
      BY <2>1
    <2>3. CASE i = n
      BY <1>2, <2>2, <2>3
    <2>4. CASE i < n
      <3>1. i + 1 \in 1..n /\ i + 1 \notin bad
        BY <1>1, <2>1, <2>2, <2>4, SMTT(20)
      <3>2. s[i + 1] = SubSeq(s[n], 1, i)
        BY <1>1, <2>2, <3>1
      <3>3. s[i] = SubSeq(s[i + 1], 1, Len(s[i + 1]) - 1) /\ Len(s[i + 1]) = i
        BY <1>1, <2>2, <3>1 DEF Linked, Follows, blockNumber
      <3>4. SubSeq(SubSeq(s[n], 1, i), 1, i - 1) = SubSeq(s[n], 1, i - 1)
        BY <1>1, <1>2, <2>2, <2>4
      <3> QED
        BY <2>2, <3>2, <3>3, <3>4
    <2> QED
      BY <1>1, <2>2, <2>3, <2>4
  <1>4. \A i \in 1..n : s[i] = SubSeq(s[n], 1, i - 1)
    BY <1>3
  <1>5. Path(s[n]) = [i \in 1..n |-> SubSeq(s[n], 1, i - 1)]
    BY <1>1, <1>2 DEF Path
  <1>6. s = [i \in 1..n |-> s[i]]
    BY <1>1
  <1> QED
    BY <1>4, <1>5, <1>6 DEF Newest

\* A block that is not valid on the chain it extends is not sound.
LEMMA InvalidNotSound ==
  ASSUME NEW c \in Chain, Linked(c.chain), ~IsEmpty(c), NEW b \in Block,
         Follows(b, Newest(c)), ~transactionsValid(c.chain, b)
  PROVE  ~SoundPath(b)
  <1>1. Path(Newest(c)) = c.chain
    BY LinkedPath
  <1>2. Newest(c) = SubSeq(b, 1, Len(b) - 1) /\ b # <<>>
    BY DEF Follows, Genesis
  <1>3. b \in Seq(Content) /\ Len(b) \in 1..Len(b) /\ SubSeq(b, 1, Len(b)) = b
    BY <1>2 DEF Block
  <1> QED
    BY <1>1, <1>2, <1>3 DEF SoundPath

-----------------------------------------------------------------------------
(* What keeps LInv when the chains stay, or the main chain just grows.     *)

Committing == {"commit", "hash", "transactions", "main", "broadcast"}

\* The processing thread is where it was, or has nothing to do with a block.
Elsewhere ==
  \/ /\ pc'["processing"] = pc["processing"]
     /\ block'["processing"] = block["processing"]
  \/ /\ pc["processing"] # "challenge"
     /\ pc'["processing"] \in {"loop", "merge", "remove"}

\* The chains stay and no block is under way to a step that matters.
LEMMA QuietLongest ==
  ASSUME LInv, UNCHANGED <<blockchain, secondaryChains, contender, mined>>,
         Elsewhere
  PROVE  LongestChain' /\ ChallengeInv' /\ ForkInv'
  <1> USE DEF LInv
  <1>1. LongestChain'
    BY DEF LongestChain, Elsewhere
  <1>2. ChallengeInv'
    BY DEF ChallengeInv, Elsewhere
  <1>3. ForkInv'
    BY DEF ForkInv, Elsewhere, ProcessLabels
  <1> QED
    BY <1>1, <1>2, <1>3

\* Nothing is broadcast and the main chain does not shrink.
LEMMA QuietMined ==
  ASSUME LInv, UNCHANGED mined, Len(blockchain.chain) \in Nat,
         Len(blockchain'.chain) \in Nat,
         Len(blockchain'.chain) >= Len(blockchain.chain),
         block \in [Threads -> Block], block' \in [Threads -> Block],
         mined \subseteq Block,
         \/ pc'["minning"] \notin Committing
         \/ /\ pc'["minning"] = "commit" /\ MinedHere(block'["minning"])
         \/ /\ pc'["minning"] \in Committing \ {"broadcast"}
            /\ pc["minning"] \in Committing
            /\ block'["minning"] = block["minning"]
         \/ /\ pc'["minning"] = "broadcast" /\ pc["minning"] = "broadcast"
            /\ block'["minning"] = block["minning"]
  PROVE  MinedInv'
  <1> USE DEF LInv, MinedInv, Committing
  <1>1. ASSUME NEW b \in mined
        PROVE  /\ b # Genesis
               /\ MinedHere(b) /\ SoundPath(b) => Len(b) < Len(blockchain'.chain)
               /\ MinedHere(Parent(b)) =>
                    Len(Parent(b)) < Len(blockchain'.chain)
    <2>1. Len(b) \in Nat /\ Len(Parent(b)) \in Nat
      BY <1>1 DEF Block, Parent
    <2> QED
      BY <2>1
  <1>2. pc'["minning"] \in Committing => MinedHere(block'["minning"])
    OBVIOUS
  <1>3. ASSUME pc'["minning"] = "broadcast"
        PROVE  /\ Len(block'["minning"]) <= Len(blockchain'.chain)
               /\ SoundPath(block'["minning"]) =>
                    Len(block'["minning"]) < Len(blockchain'.chain)
    <2>1. Len(block["minning"]) \in Nat
      BY DEF Block
    <2> QED
      BY <1>3, <2>1
  <1> QED
    BY <1>1, <1>2, <1>3

\* A step that changes none of the chains and does not broadcast.
LEMMA QuietInv ==
  ASSUME IInv, IInv', LInv, Elsewhere,
         UNCHANGED <<blockchain, secondaryChains, contender, mined>>,
         \/ pc'["minning"] \notin Committing
         \/ /\ pc'["minning"] = "commit" /\ MinedHere(block'["minning"])
         \/ /\ pc'["minning"] \in Committing \ {"broadcast"}
            /\ pc["minning"] \in Committing
            /\ block'["minning"] = block["minning"]
         \/ /\ pc'["minning"] = "broadcast" /\ pc["minning"] = "broadcast"
            /\ block'["minning"] = block["minning"]
  PROVE  LInv'
  <1>1. Len(blockchain.chain) \in Nat
    BY ChainTypes DEF IInv, TypeOK
  <1>2. block \in [Threads -> Block] /\ block' \in [Threads -> Block]
        /\ mined \subseteq Block
    BY DEF IInv, TypeOK, ThreadsOK, NetworkOK
  <1>3. MinedInv'
    BY <1>1, <1>2, QuietMined
  <1> QED
    BY <1>3, QuietLongest DEF LInv

\* A main chain that grows stays longer than the same secondary chains.
LEMMA GrownLongest ==
  ASSUME LongestChain, UNCHANGED secondaryChains,
         pc["processing"] # "challenge" \/ pc'["processing"] = pc["processing"],
         \A i \in DOMAIN secondaryChains :
           Len(secondaryChains[i].chain) \in Nat,
         Len(blockchain.chain) \in Nat, Len(blockchain'.chain) \in Nat,
         Len(blockchain.chain) < Len(blockchain'.chain)
  PROVE  LongestChain'
  <1> DEFINE old == Len(blockchain.chain)
  <1> DEFINE new == Len(blockchain'.chain)
  <1> DEFINE slack == IF pc["processing"] = "challenge" THEN 1 ELSE 0
  <1> DEFINE newSlack == IF pc'["processing"] = "challenge" THEN 1 ELSE 0
  <1>1. slack \in Nat /\ newSlack \in Nat
    OBVIOUS
  <1>2. ASSUME NEW i \in DOMAIN secondaryChains
        PROVE  Len(secondaryChains[i].chain) <= new + newSlack
    <2> DEFINE m == Len(secondaryChains[i].chain)
    <2>1. m \in Nat /\ m <= old + slack
      BY DEF LongestChain
    <2>2. slack <= newSlack \/ slack = 0
      OBVIOUS
    <2> HIDE DEF m, old, new, slack, newSlack
    <2>3. m <= new + newSlack
      BY <1>1, <2>1, <2>2 DEF old, new
    <2> QED
      BY <2>3 DEF m
  <1> QED
    BY <1>2 DEF LongestChain

\* The block that the mining thread adds to the main chain is the parent of no
\* block that the processing thread has, which was broadcast before.
LEMMA MiningAdds ==
  ASSUME IInv, IInv', LInv,
         blockchain' = add_block(blockchain, block["minning"]),
         ~IsEmpty(blockchain), Follows(block["minning"], Newest(blockchain)),
         MinedHere(block["minning"]),
         pc' = [pc EXCEPT !["minning"] = "broadcast"],
         block'["processing"] = block["processing"],
         block'["minning"] = block["minning"],
         UNCHANGED <<secondaryChains, contender, mined>>
  PROVE  LInv'
  <1> DEFINE b == block["minning"]
  <1> DEFINE n == Len(blockchain.chain)
  <1> USE DEF IInv, TypeOK, LInv
  <1>1. /\ blockchain \in Chain /\ b \in Block /\ Linked(blockchain.chain)
        /\ mined \subseteq Block /\ block \in [Threads -> Block]
    BY DEF ChainsOK, ThreadsOK, ChainsLinked, NetworkOK
  <1>2. Len(b) = n /\ n \in Nat
    BY <1>1, HeadNumber
  <1>3. /\ Len(blockchain'.chain) = n + 1
        /\ blockchain'.chain = Append(blockchain.chain, b)
        /\ blockchain'.target = blockchain.target
    BY <1>1, AddBlockType DEF add_block
  <1>4. Newest(blockchain') = b
    BY <1>1, <1>3, ChainLength, AppendProperties DEF Newest
  <1>5. pc'["processing"] = pc["processing"] /\ pc'["minning"] = "broadcast"
    BY DEF ThreadsOK
  <1>6. LongestChain' /\ ChallengeInv'
    <2>1. \A i \in DOMAIN secondaryChains : Len(secondaryChains[i].chain) \in Nat
      BY ChainTypes
    <2>2. secondaryChains' = secondaryChains /\ contender' = contender
          /\ Len(blockchain'.chain) \in Nat
          /\ Len(blockchain.chain) < Len(blockchain'.chain)
      BY <1>2, <1>3
    <2> HIDE DEF n
    <2>3. LongestChain'
      BY <1>2, <1>5, <2>1, <2>2, GrownLongest
    <2>4. ChallengeInv'
      BY <1>2, <1>5, <2>1, <2>2 DEF ChallengeInv
    <2> QED
      BY <2>3, <2>4
  <1>7. ForkInv'
    <2>1. pc["processing"] \in ProcessLabels => ~Follows(block["processing"], b)
      <3> SUFFICES ASSUME pc["processing"] \in ProcessLabels,
                          Follows(block["processing"], b)
                   PROVE  FALSE
        OBVIOUS
      <3>1. block["processing"] \in mined /\ Parent(block["processing"]) = b
        BY DEF ForkInv, Follows, Parent
      <3>2. Len(b) < n
        BY <3>1 DEF MinedInv
      <3> QED
        BY <1>2, <3>2
    <2> QED
      BY <1>3, <1>4, <1>5, <2>1 DEF ForkInv, block_valid, ProcessLabels
  <1>8. MinedInv'
    <2>1. \A x \in mined : Len(x) \in Nat /\ Len(Parent(x)) \in Nat
      BY <1>1 DEF Block, Parent
    <2> QED
      BY <1>2, <1>3, <1>5, <2>1 DEF MinedInv
  <1> QED
    BY <1>6, <1>7, <1>8

-----------------------------------------------------------------------------
(* The steps of processBlock.                                              *)

\* Step 1: from here on the target of the main chain is known to be met.
LEMMA HashLongest ==
  ASSUME IInv, IInv', LInv, NEW t \in Threads, newBlockHashValid(t)
  PROVE  LInv'
  <1>1. CASE t = "minning"
    <2>1. block_valid(blockchain, block[t])
      BY <1>1 DEF newBlockHashValid, IInv, BlockInv, block_belongs
    <2> QED
      BY <1>1, <2>1, QuietInv
         DEF newBlockHashValid, Proceed, Elsewhere, Committing, IInv, TypeOK,
             ThreadsOK
  <1>2. CASE t = "processing" /\ ~block_valid(blockchain, block[t])
    <2>1. Elsewhere /\ UNCHANGED <<blockchain, secondaryChains, contender, mined>>
          /\ pc'["minning"] = pc["minning"] /\ block'["minning"] = block["minning"]
      BY <1>2 DEF newBlockHashValid, Return, Elsewhere, IInv, TypeOK, ThreadsOK
    <2> QED
      BY <2>1, QuietInv
  <1>3. CASE t = "processing" /\ block_valid(blockchain, block[t])
    <2>1. /\ pc["processing"] = "hash" /\ pc'["processing"] = "transactions"
          /\ pc'["minning"] = pc["minning"] /\ UNCHANGED block
          /\ UNCHANGED <<blockchain, secondaryChains, contender, mined>>
      BY <1>3 DEF newBlockHashValid, Proceed, IInv, TypeOK, ThreadsOK
    <2>2. LongestChain' /\ ChallengeInv'
      BY <2>1 DEF LInv, LongestChain, ChallengeInv
    <2>3. ForkInv'
      BY <1>3, <2>1 DEF LInv, ForkInv, ProcessLabels
    <2>4. MinedInv'
      BY <2>1 DEF LInv, MinedInv
    <2> QED
      BY <2>2, <2>3, <2>4 DEF LInv
  <1> QED
    BY <1>1, <1>2, <1>3

\* Step 2: a block mined here that is turned down is broadcast all the same, but
\* it is not sound.
LEMMA TransactionsLongest ==
  ASSUME IInv, IInv', LInv, NEW t \in Threads, newBlockTransactionsValid(t)
  PROVE  LInv'
  <1>1. pc[t] = "transactions"
        /\ UNCHANGED <<blockchain, secondaryChains, contender, mined>>
    BY DEF newBlockTransactionsValid
  <1>2. CASE t = "minning" /\ transactionsValid(blockchain.chain, block[t])
    BY <1>1, <1>2, QuietInv
       DEF newBlockTransactionsValid, Proceed, Elsewhere, Committing, IInv,
           TypeOK, ThreadsOK
  <1>3. CASE t = "minning" /\ ~transactionsValid(blockchain.chain, block[t])
    <2>1. pc' = [pc EXCEPT !["minning"] = "broadcast"] /\ UNCHANGED block
      BY <1>3 DEF newBlockTransactionsValid, Return
    <2>2. /\ blockchain \in Chain /\ Linked(blockchain.chain)
          /\ ~IsEmpty(blockchain) /\ block[t] \in Block
          /\ Follows(block[t], Newest(blockchain))
      BY <1>1, <1>3 DEF IInv, TypeOK, ChainsOK, ThreadsOK, ChainsLinked,
                        BlockInv, block_belongs
    <2>3. ~SoundPath(block[t]) /\ Len(block[t]) <= Len(blockchain.chain)
      BY <1>3, <2>2, InvalidNotSound, HeadNumber
    <2>4. Elsewhere /\ pc'["processing"] = pc["processing"]
      BY <2>1 DEF Elsewhere, IInv, TypeOK, ThreadsOK
    <2>5. MinedInv'
      BY <1>1, <1>3, <2>1, <2>3 DEF LInv, MinedInv, IInv, TypeOK, ThreadsOK
    <2> QED
      BY <1>1, <2>4, <2>5, QuietLongest DEF LInv
  <1>4. CASE t = "processing" /\ ~transactionsValid(blockchain.chain, block[t])
    <2>1. Elsewhere
          /\ pc'["minning"] = pc["minning"] /\ block'["minning"] = block["minning"]
      BY <1>1, <1>4
         DEF newBlockTransactionsValid, Return, Elsewhere, IInv, TypeOK, ThreadsOK
    <2> QED
      BY <1>1, <2>1, QuietInv
  <1>5. CASE t = "processing" /\ transactionsValid(blockchain.chain, block[t])
    <2>1. /\ pc["processing"] = "transactions" /\ pc'["processing"] = "main"
          /\ pc'["minning"] = pc["minning"] /\ UNCHANGED block
      BY <1>5 DEF newBlockTransactionsValid, Proceed, IInv, TypeOK, ThreadsOK
    <2>2. LongestChain' /\ ChallengeInv'
      BY <1>1, <2>1 DEF LInv, LongestChain, ChallengeInv
    <2>3. ForkInv'
      BY <1>1, <2>1 DEF LInv, ForkInv, ProcessLabels
    <2>4. MinedInv'
      BY <1>1, <2>1 DEF LInv, MinedInv
    <2> QED
      BY <2>2, <2>3, <2>4 DEF LInv
  <1> QED
    BY <1>2, <1>3, <1>4, <1>5

\* An empty main chain ends the processing of a block.
LEMMA NoMainChainLongest ==
  ASSUME IInv, IInv', LInv, NEW t \in Threads, noMainChain(t)
  PROVE  LInv'
  <1>1. t = "processing"
    BY DEF IInv, noMainChain, BlockInv
  <1>2. Elsewhere /\ UNCHANGED <<blockchain, secondaryChains, contender, mined>>
        /\ pc'["minning"] = pc["minning"] /\ block'["minning"] = block["minning"]
    BY <1>1 DEF noMainChain, Elsewhere, IInv, TypeOK, ThreadsOK
  <1> QED
    BY <1>2, QuietInv

\* Step 7 changes no chain.
LEMMA OrphanLongest ==
  ASSUME IInv, IInv', LInv, NEW t \in Threads, addOrphanBlock(t)
  PROVE  LInv'
  <1>1. t = "processing"
    BY DEF IInv, addOrphanBlock, PcInv, ImportLabels, MiningLabels
  <1>2. Elsewhere /\ UNCHANGED <<blockchain, secondaryChains, contender, mined>>
        /\ pc'["minning"] = pc["minning"] /\ block'["minning"] = block["minning"]
    BY <1>1 DEF addOrphanBlock, Return, Elsewhere, IInv, TypeOK, ThreadsOK
  <1> QED
    BY <1>2, QuietInv

\* Step 3: a block that goes on does not follow the head of the main chain.
LEMMA MainChainLongest ==
  ASSUME IInv, IInv', LInv, NEW t \in Threads, newBlockBelongsOnMainChain(t)
  PROVE  LInv'
  <1> USE DEF IInv, TypeOK
  <1>1. /\ pc[t] = "main" /\ ~IsEmpty(blockchain)
        /\ UNCHANGED <<secondaryChains, contender, mined>>
    BY DEF newBlockBelongsOnMainChain
  <1>2. CASE t = "minning"
    <2>1. block_belongs(blockchain, block[t])
      BY <1>1, <1>2 DEF BlockInv
    <2>2. /\ blockchain' = add_block(blockchain, block[t])
          /\ pc' = [pc EXCEPT !["minning"] = "broadcast"] /\ UNCHANGED block
      BY <1>2, <2>1 DEF newBlockBelongsOnMainChain, Return
    <2>3. MinedHere(block["minning"])
      BY <1>1, <1>2 DEF LInv, MinedInv
    <2> QED
      BY <1>1, <1>2, <2>1, <2>2, <2>3, MiningAdds DEF block_belongs
  <1>3. CASE t = "processing" /\ block_belongs(blockchain, block[t])
    <2>1. /\ blockchain' = add_block(blockchain, block[t])
          /\ pc' = [pc EXCEPT !["processing"] = "loop"]
          /\ block' = [block EXCEPT !["processing"] = Genesis]
      BY <1>3 DEF newBlockBelongsOnMainChain, Return
    <2>2. /\ Len(blockchain.chain) \in Nat
          /\ Len(blockchain'.chain) = Len(blockchain.chain) + 1
          /\ \A i \in DOMAIN secondaryChains :
               Len(secondaryChains[i].chain) \in Nat
      BY <1>3, <2>1, ChainTypes, AddBlockType DEF ChainsOK, ThreadsOK
    <2>3. pc'["processing"] = "loop" /\ pc'["minning"] = pc["minning"]
          /\ block'["minning"] = block["minning"] /\ pc["processing"] = "main"
      BY <1>1, <1>3, <2>1 DEF ThreadsOK
    <2> DEFINE m == Len(blockchain'.chain)
    <2> HIDE DEF m
    <2>4. LongestChain'
      BY <1>1, <2>2, <2>3 DEF LInv, LongestChain
    <2>5. ChallengeInv' /\ ForkInv'
      BY <2>3 DEF ChallengeInv, ForkInv, ProcessLabels
    <2>6. MinedInv'
      BY <1>1, <2>2, <2>3, QuietMined DEF ThreadsOK, NetworkOK
    <2> QED
      BY <2>4, <2>5, <2>6 DEF LInv
  <1>4. CASE t = "processing" /\ ~block_belongs(blockchain, block[t])
    <2>1. /\ UNCHANGED <<blockchain, block>>
          /\ pc["processing"] = "main" /\ pc'["processing"] = "secondary"
          /\ pc'["minning"] = pc["minning"]
      BY <1>1, <1>4 DEF newBlockBelongsOnMainChain, Proceed, ThreadsOK
    <2>2. LongestChain' /\ ChallengeInv'
      BY <1>1, <2>1 DEF LInv, LongestChain, ChallengeInv
    <2>3. ForkInv'
      BY <1>1, <1>4, <2>1 DEF LInv, ForkInv, ProcessLabels, block_belongs
    <2>4. MinedInv'
      BY <1>1, <2>1 DEF LInv, MinedInv
    <2> QED
      BY <2>2, <2>3, <2>4 DEF LInv
  <1> QED
    BY <1>2, <1>3, <1>4

\* Step 4: all the chains that are extended get the same length, at most one
\* more than the main chain's, and one of them is the contender.
LEMMA SecondaryLongest ==
  ASSUME IInv, IInv', LInv, NEW t \in Threads, newBlockBelongsOnSecondaryChains(t)
  PROVE  LInv'
  <1> USE DEF IInv, TypeOK
  <1> DEFINE S == secondaryChains
  <1> DEFINE b == block[t]
  <1>1. /\ t = "processing" /\ pc["processing"] = "secondary"
        /\ S' = ExtendAll(S, b)
        /\ UNCHANGED <<blockchain, block, mined>>
        /\ \/ /\ Extended(S, b) = {}
              /\ pc' = [pc EXCEPT ![t] = "fork"]
           \/ /\ pc' = [pc EXCEPT ![t] = "challenge"]
              /\ contender' \in Extended(S, b)
    BY SecondaryStep
  <1>2. S \in Seq(Chain) /\ b \in Block /\ Len(blockchain.chain) \in Nat
        /\ \A i \in DOMAIN S : Linked(S[i].chain) /\ ~IsEmpty(S[i])
    BY ChainTypes DEF ChainsOK, ThreadsOK, ChainsLinked
  <1>3. /\ Len(S') = Len(S) /\ DOMAIN S = 1..Len(S) /\ DOMAIN S' = 1..Len(S)
        /\ \A i \in 1..Len(S) :
             /\ Len(S[i].chain) \in Nat
             /\ i \in Extended(S, b) =>
                  /\ Len(S'[i].chain) = blockNumber(b) + 1
                  /\ Len(S'[i].chain) = Len(S[i].chain) + 1
             /\ i \notin Extended(S, b) => S'[i] = S[i]
    <2>1. ExtendAll(S, b) \in Seq(Chain)
      BY <1>2, ExtendAllChains
    <2> QED
      BY <1>1, <1>2, <2>1, ExtendAllChains
  <1>4. \A i \in 1..Len(S) : Len(S[i].chain) <= Len(blockchain.chain)
    <2>1. \A i \in DOMAIN S : Len(S[i].chain) <= Len(blockchain.chain) + 0
      BY <1>1 DEF LInv, LongestChain
    <2> HIDE DEF S, b, IInv, TypeOK
    <2> QED
      BY <1>2, <1>3, <2>1
  <1>5. Extended(S, b) \subseteq 1..Len(S)
    BY <1>3 DEF Extended
  <1>6. pc'["minning"] = pc["minning"]
        /\ pc'["processing"] \in {"fork", "challenge"}
    BY <1>1 DEF ThreadsOK
  <1>7. ForkInv' /\ MinedInv'
    BY <1>1, <1>6 DEF LInv, ForkInv, MinedInv, ProcessLabels
  <1> HIDE DEF S, b
  <1>8. CASE pc'["processing"] = "fork"
    <2>1. Extended(S, b) = {}
      BY <1>1, <1>8 DEF ThreadsOK
    <2>2. \A i \in 1..Len(S) : Len(S'[i].chain) <= Len(blockchain.chain)
      BY <1>3, <1>4, <2>1
    <2>3. LongestChain' /\ ChallengeInv'
      BY <1>1, <1>3, <1>8, <2>2 DEF LongestChain, ChallengeInv, S
    <2> QED
      BY <1>7, <2>3 DEF LInv
  <1>9. CASE pc'["processing"] = "challenge"
    <2>1. contender' \in Extended(S, b)
      BY <1>1, <1>9 DEF ThreadsOK
    <2>2. \A i \in 1..Len(S) :
            /\ Len(S'[i].chain) <= Len(blockchain.chain) + 1
            /\ \/ Len(S'[i].chain) <= Len(blockchain.chain)
               \/ Len(S'[i].chain) = Len(S'[contender'].chain)
      <3> SUFFICES ASSUME NEW i \in 1..Len(S)
                   PROVE  /\ Len(S'[i].chain) <= Len(blockchain.chain) + 1
                          /\ \/ Len(S'[i].chain) <= Len(blockchain.chain)
                             \/ Len(S'[i].chain) = Len(S'[contender'].chain)
        OBVIOUS
      <3>1. CASE i \in Extended(S, b)
        <4>1. /\ Len(S'[i].chain) = Len(S[i].chain) + 1
              /\ Len(S'[i].chain) = Len(S'[contender'].chain)
          BY <1>3, <1>5, <2>1, <3>1
        <4> QED
          BY <1>2, <1>3, <1>4, <4>1
      <3>2. CASE i \notin Extended(S, b)
        BY <1>2, <1>3, <1>4, <3>2
      <3> QED
        BY <3>1, <3>2
    <2>3. LongestChain' /\ ChallengeInv'
      BY <1>1, <1>3, <1>9, <2>2 DEF LongestChain, ChallengeInv, S
    <2> QED
      BY <1>7, <2>3 DEF LInv
  <1> QED
    BY <1>6, <1>8, <1>9

\* Step 5: whichever of the two wins is the longest chain of all.
LEMMA ChallengeLongest ==
  ASSUME IInv, IInv', LInv, NEW t \in Threads, challengeMainChain(t)
  PROVE  LInv'
  <1> USE DEF IInv, TypeOK
  <1> DEFINE S == secondaryChains
  <1> DEFINE c == S[contender]
  <1>1. t = "processing"
    BY DEF challengeMainChain, PcInv, ImportLabels, MiningLabels
  <1>2. /\ pc["processing"] = "challenge" /\ UNCHANGED mined
        /\ pc'["processing"] = "loop" /\ pc'["minning"] = pc["minning"]
        /\ block'["minning"] = block["minning"]
    BY <1>1 DEF challengeMainChain, Return, ThreadsOK
  <1>3. /\ blockchain \in Chain /\ S \in Seq(Chain)
        /\ Len(blockchain.chain) \in Nat /\ DOMAIN S = 1..Len(S)
        /\ \A i \in 1..Len(S) : S[i] \in Chain /\ Len(S[i].chain) \in Nat
        /\ contender \in 1..Len(S)
    BY <1>2, ChainTypes DEF ChainsOK, ContenderInv
  <1>4. \A i \in 1..Len(S) : \/ Len(S[i].chain) <= Len(blockchain.chain)
                             \/ Len(S[i].chain) = Len(c.chain)
    BY <1>2, <1>3 DEF LInv, ChallengeInv
  <1>5. ChallengeInv' /\ ForkInv'
    BY <1>2 DEF ChallengeInv, ForkInv, ProcessLabels
  <1>6. CASE Longer(c, blockchain)
    <2>1. /\ blockchain' = c /\ Len(c.chain) > Len(blockchain.chain)
          /\ S' = Append(RemoveAt(S, contender), blockchain)
      BY <1>6 DEF challengeMainChain, Longer
    <2>2. Len(blockchain'.chain) \in Nat
      BY <1>3, <2>1
    <2> HIDE DEF S, c
    <2>3. /\ DOMAIN S' = 1..Len(S')
          /\ \A j \in 1..Len(S') :
               S'[j] = blockchain \/ \E i \in 1..Len(S) : S'[j] = S[i]
      BY <1>3, <2>1, SwapEntries
    <2>4. \A j \in 1..Len(S') : Len(S'[j].chain) <= Len(blockchain'.chain)
      <3>1. \A i \in 1..Len(S) : Len(S[i].chain) <= Len(c.chain)
        BY <1>3, <1>4, <2>1, <2>2
      <3>2. Len(blockchain.chain) <= Len(c.chain)
        BY <1>3, <2>1, <2>2
      <3> QED
        BY <2>1, <2>3, <3>1, <3>2
    <2>5. LongestChain'
      BY <1>2, <2>2, <2>3, <2>4 DEF LongestChain, S
    <2>6. MinedInv'
      BY <1>2, <1>3, <2>1, <2>2, QuietMined DEF ThreadsOK, NetworkOK
    <2> QED
      BY <1>5, <2>5, <2>6 DEF LInv
  <1>7. CASE ~Longer(c, blockchain)
    <2>1. /\ UNCHANGED <<blockchain, secondaryChains>>
          /\ ~(Len(c.chain) > Len(blockchain.chain))
      BY <1>7 DEF challengeMainChain, Longer
    <2>2. \A i \in 1..Len(S) : Len(S[i].chain) <= Len(blockchain.chain)
      BY <1>3, <1>4, <2>1
    <2>3. LongestChain'
      BY <1>2, <1>3, <2>1, <2>2 DEF LongestChain
    <2>4. MinedInv'
      BY <1>2, <2>1 DEF LInv, MinedInv
    <2> QED
      BY <1>5, <2>3, <2>4 DEF LInv
  <1> QED
    BY <1>6, <1>7

\* Away from the challenge, LongestChain says what its name says.
LEMMA NotLonger ==
  ASSUME pc'["processing"] # "challenge", Len(blockchain'.chain) \in Nat,
         \A j \in DOMAIN secondaryChains' :
           Len(secondaryChains'[j].chain) <= Len(blockchain'.chain)
  PROVE  LongestChain'
  BY DEF LongestChain

\* Step 6: the parent is not the head, so the fork is no longer than the main
\* chain.
LEMMA ForkLongest ==
  ASSUME IInv, IInv', LInv, NEW t \in Threads, newBlockCausedAFork(t)
  PROVE  LInv'
  <1> USE DEF IInv, TypeOK
  <1> DEFINE S == secondaryChains
  <1> DEFINE number == is_prev_hash_in_chain(blockchain, block[t])
  <1> DEFINE fork == add_block(copyUpTo(blockchain, number), block[t])
  <1>1. t = "processing"
    BY DEF newBlockCausedAFork, PcInv, ImportLabels, MiningLabels
  <1>2. /\ pc["processing"] = "fork" /\ pc'["minning"] = pc["minning"]
        /\ UNCHANGED <<blockchain, contender, mined>>
        /\ block'["minning"] = block["minning"]
        /\ \/ pc'["processing"] = "loop"
           \/ pc'["processing"] = "orphan" /\ UNCHANGED block
    BY <1>1 DEF newBlockCausedAFork, Return, Proceed, ThreadsOK
  <1>3. ChallengeInv' /\ ForkInv' /\ MinedInv'
    BY <1>2 DEF LInv, ChallengeInv, ForkInv, MinedInv, ProcessLabels
  <1>4. /\ \A i \in 1..Len(S) : Len(S[i].chain) <= Len(blockchain.chain)
        /\ S \in Seq(Chain) /\ DOMAIN S = 1..Len(S)
        /\ Len(blockchain.chain) \in Nat
    <2>1. S \in Seq(Chain) /\ DOMAIN S = 1..Len(S)
          /\ Len(blockchain.chain) \in Nat
          /\ \A i \in 1..Len(S) : Len(S[i].chain) \in Nat
      BY ChainTypes DEF ChainsOK
    <2> QED
      BY <1>2, <2>1 DEF LInv, LongestChain
  <1>5. CASE number # 0
    <2>1. S' = Append(S, fork)
      BY <1>5 DEF newBlockCausedAFork
    <2>2. block[t] \in Block /\ blockchain \in Chain /\ Linked(blockchain.chain)
      BY DEF ThreadsOK, ChainsOK, ChainsLinked
    <2>3. /\ number \in Nat /\ number < Len(blockchain.chain)
          /\ Follows(block[t], blockchain.chain[number + 1])
          /\ fork \in Chain /\ Len(fork.chain) = number + 2
      BY <1>5, <2>2, ForkChain
    <2>4. number + 1 # Len(blockchain.chain)
      BY <1>1, <1>2, <2>3 DEF LInv, ForkInv, Newest
    <2>5. Len(fork.chain) <= Len(blockchain.chain)
      BY <1>4, <2>3, <2>4
    <2> HIDE DEF fork, number, S
    <2>6. /\ S' \in Seq(Chain) /\ DOMAIN S' = 1..Len(S')
          /\ \A j \in 1..Len(S') :
               S'[j] = fork \/ \E i \in 1..Len(S) : S'[j] = S[i]
      BY <1>4, <2>1, <2>3, AppendEntries
    <2>7. \A j \in 1..Len(S') : Len(S'[j].chain) <= Len(blockchain.chain)
      BY <1>4, <2>5, <2>6
    <2>8. LongestChain'
      BY <1>2, <1>4, <2>6, <2>7, NotLonger DEF S
    <2> QED
      BY <1>3, <2>8 DEF LInv
  <1>6. CASE number = 0
    <2>1. UNCHANGED secondaryChains
      BY <1>6 DEF newBlockCausedAFork, Proceed
    <2>2. LongestChain'
      BY <1>2, <1>4, <2>1, NotLonger
    <2> QED
      BY <1>3, <2>2 DEF LInv
  <1> QED
    BY <1>5, <1>6

-----------------------------------------------------------------------------
(* The other steps.                                                        *)

\* A block that is received was broadcast.
LEMMA ReceiveLongest ==
  ASSUME IInv, IInv', LInv, receiveBlock
  PROVE  LInv'
  <1>1. /\ pc["processing"] = "loop" /\ pc'["processing"] = "hash"
        /\ block'["processing"] \in mined
        /\ pc'["minning"] = pc["minning"] /\ block'["minning"] = block["minning"]
        /\ UNCHANGED <<blockchain, secondaryChains, contender, mined>>
    BY DEF receiveBlock, IInv, TypeOK, ThreadsOK
  <1>2. LongestChain' /\ ChallengeInv'
    BY <1>1 DEF LInv, LongestChain, ChallengeInv
  <1>3. ForkInv' /\ MinedInv'
    BY <1>1 DEF LInv, ForkInv, MinedInv
  <1> QED
    BY <1>2, <1>3 DEF LInv

\* The examination of a chain changes none that is kept.
LEMMA ImportLongest ==
  ASSUME IInv, IInv', LInv,
         receiveBlockchain \/ mergeOrphan \/ mergeDone \/ removeOrphan
  PROVE  LInv'
  <1>1. Elsewhere /\ UNCHANGED <<blockchain, secondaryChains, contender, mined>>
        /\ pc'["minning"] = pc["minning"] /\ block'["minning"] = block["minning"]
    BY DEF receiveBlockchain, mergeOrphan, mergeDone, removeOrphan, Elsewhere,
           IInv, TypeOK, ThreadsOK
  <1> QED
    BY <1>1, QuietInv

\* The longer of the two chains becomes the main one.
LEMMA InstallLongest ==
  ASSUME IInv, IInv', LInv, installBlockchain
  PROVE  LInv'
  <1> USE DEF IInv, TypeOK
  <1> DEFINE S == secondaryChains
  <1>1. /\ pc["processing"] = "remove" /\ UNCHANGED <<block, contender, mined>>
        /\ pc'["processing"] = "loop" /\ pc'["minning"] = pc["minning"]
    BY DEF installBlockchain, ThreadsOK
  <1>2. /\ newChain \in Chain /\ blockchain \in Chain /\ S \in Seq(Chain)
        /\ Len(newChain.chain) \in Nat /\ Len(blockchain.chain) \in Nat
        /\ DOMAIN S = 1..Len(S)
        /\ \A i \in 1..Len(S) : Len(S[i].chain) \in Nat
    BY ChainTypes, ChainLength DEF ImportOK, ChainsOK
  <1>3. \A i \in 1..Len(S) : Len(S[i].chain) <= Len(blockchain.chain)
    BY <1>1, <1>2 DEF LInv, LongestChain
  <1>4. ChallengeInv' /\ ForkInv'
    BY <1>1 DEF ChallengeInv, ForkInv, ProcessLabels
  <1>5. \/ UNCHANGED <<blockchain, secondaryChains>>
        \/ /\ UNCHANGED blockchain /\ S' = Append(S, newChain)
           /\ ~(Len(newChain.chain) > Len(blockchain.chain))
        \/ /\ blockchain' = newChain
           /\ Len(newChain.chain) > Len(blockchain.chain)
           /\ S' \in {S, Append(S, blockchain)}
    BY DEF installBlockchain, WithOldChain, Longer
  <1>6. Len(blockchain'.chain) \in Nat
        /\ Len(blockchain'.chain) >= Len(blockchain.chain)
    BY <1>2, <1>5
  <1>7. MinedInv'
    BY <1>1, <1>2, <1>6, QuietMined DEF ThreadsOK, NetworkOK
  <1> HIDE DEF S
  <1>8. \A j \in DOMAIN S' : Len(S'[j].chain) <= Len(blockchain'.chain)
    <2>1. CASE S' = S
      BY <1>2, <1>3, <1>6, <2>1
    <2>2. CASE S' # S
      <3>1. PICK x \in {newChain, blockchain} :
              S' = Append(S, x) /\ Len(x.chain) <= Len(blockchain'.chain)
        BY <1>2, <1>5, <1>6, <2>2 DEF S
      <3>2. /\ DOMAIN S' = 1..Len(S')
            /\ \A j \in 1..Len(S') : S'[j] = x \/ \E i \in 1..Len(S) : S'[j] = S[i]
        BY <1>2, <3>1, AppendEntries
      <3> QED
        BY <1>2, <1>3, <1>6, <3>1, <3>2
    <2> QED
      BY <2>1, <2>2
  <1>9. LongestChain'
    BY <1>1, <1>6, <1>8, NotLonger DEF S
  <1> QED
    BY <1>4, <1>7, <1>9 DEF LInv

\* The mining thread's steps before it has a block, or after it gave one up.
LEMMA MiningLongest ==
  ASSUME IInv, IInv', LInv,
         \/ takeTransactions \/ execTransaction \/ execDone
         \/ copyBlockchain \/ mineNothing \/ commitStale
  PROVE  LInv'
  <1>1. /\ UNCHANGED <<blockchain, secondaryChains, contender, mined>>
        /\ pc'["minning"] \in {"exec", "copy", "mine", "loop"}
        /\ pc'["processing"] = pc["processing"]
        /\ block'["processing"] = block["processing"]
    BY DEF takeTransactions, execTransaction, execDone, copyBlockchain,
           mineNothing, commitStale, endRound, IInv, TypeOK, ThreadsOK
  <1> QED
    BY <1>1, QuietInv DEF Elsewhere, Committing

\* The block carries this node as its miner.
LEMMA MineBlockLongest ==
  ASSUME IInv, IInv', LInv, mineBlock
  PROVE  LInv'
  <1> USE DEF IInv, TypeOK
  <1> DEFINE content == [miner |-> Self, work |-> mainCopy.target, data |-> data]
  <1>1. /\ UNCHANGED <<blockchain, secondaryChains, contender, mined>>
        /\ block' = [block EXCEPT !["minning"] = Append(Newest(mainCopy), content)]
        /\ pc' = [pc EXCEPT !["minning"] = "commit"] /\ ~IsEmpty(mainCopy)
    BY DEF mineBlock, mine_block
  <1>2. Newest(mainCopy) \in Block
    <2>1. mainCopy.chain \in Seq(Block) /\ mainCopy.chain # <<>>
      BY <1>1, ChainLength DEF MiningOK, IsEmpty
    <2> QED
      BY <2>1, EmptySeq DEF Newest
  <1>3. content \in Content
    BY DEF MiningOK, Chain, Content
  <1>4. MinedHere(Append(Newest(mainCopy), content))
    <2>1. Append(Newest(mainCopy), content) \in Seq(Content)
          /\ Len(Append(Newest(mainCopy), content)) = Len(Newest(mainCopy)) + 1
          /\ Append(Newest(mainCopy), content)[Len(Newest(mainCopy)) + 1] = content
          /\ Len(Newest(mainCopy)) \in Nat
      BY <1>2, <1>3, AppendProperties DEF Block
    <2> QED
      BY <2>1 DEF MinedHere, Genesis
  <1>5. Elsewhere /\ pc'["minning"] = "commit"
        /\ block'["minning"] = Append(Newest(mainCopy), content)
    BY <1>1 DEF Elsewhere, ThreadsOK
  <1> QED
    BY <1>1, <1>4, <1>5, QuietInv

\* The copy is the main chain, so the block is one longer than it.
LEMMA CommitLongest ==
  ASSUME IInv, IInv', LInv, commitBlock
  PROVE  LInv'
  <1> USE DEF IInv, TypeOK
  <1>1. /\ pc["minning"] = "commit" /\ mainCopy = blockchain
        /\ UNCHANGED <<secondaryChains, block, contender, mined>>
    BY CopyIsCurrent DEF commitBlock
  <1>2. MinedHere(block["minning"])
        /\ ~IsEmpty(blockchain) /\ Follows(block["minning"], Newest(blockchain))
    BY <1>1 DEF LInv, MinedInv, BlockInv, block_belongs
  <1>3. CASE /\ blockchain' = add_block(blockchain, block["minning"])
             /\ pc' = [pc EXCEPT !["minning"] = "broadcast"]
    BY <1>1, <1>2, <1>3, MiningAdds
  <1>4. CASE UNCHANGED blockchain /\ pc' = [pc EXCEPT !["minning"] = "hash"]
    <2>1. Elsewhere /\ pc'["minning"] = "hash"
      BY <1>1, <1>4 DEF Elsewhere, ThreadsOK
    <2> QED
      BY <1>1, <1>4, <2>1, QuietInv DEF Committing
  <1> QED
    BY <1>3, <1>4 DEF commitBlock, Goto

\* A block is broadcast after it was added, or else it is not sound.
LEMMA BroadcastLongest ==
  ASSUME IInv, IInv', LInv, broadcastBlock
  PROVE  LInv'
  <1> USE DEF IInv, TypeOK
  <1> DEFINE b == block["minning"]
  <1>1. /\ pc["minning"] = "broadcast" /\ mined' = mined \cup {b}
        /\ UNCHANGED <<blockchain, secondaryChains, contender>>
        /\ pc'["minning"] = "loop" /\ pc'["processing"] = pc["processing"]
        /\ block'["processing"] = block["processing"]
    BY DEF broadcastBlock, endRound, ThreadsOK
  <1>2. LongestChain' /\ ChallengeInv' /\ ForkInv'
    BY <1>1 DEF LInv, LongestChain, ChallengeInv, ForkInv
  <1>3. /\ b # Genesis /\ Len(b) <= Len(blockchain.chain)
        /\ SoundPath(b) => Len(b) < Len(blockchain.chain)
    BY <1>1 DEF LInv, MinedInv, MinedHere
  <1>4. Len(Parent(b)) < Len(blockchain.chain)
    <2>1. b \in Seq(Content) /\ Len(b) \in Nat \ {0}
      BY <1>3, EmptySeq DEF ThreadsOK, Block, Genesis
    <2>2. Len(Parent(b)) = Len(b) - 1
      BY <2>1, SubSeqProperties DEF Parent
    <2>3. Len(blockchain.chain) \in Nat
      BY ChainTypes
    <2> QED
      BY <1>3, <2>1, <2>2, <2>3
  <1>5. MinedInv'
    BY <1>1, <1>3, <1>4 DEF LInv, MinedInv
  <1> QED
    BY <1>2, <1>5 DEF LInv

\* A peer puts its own name on a block, and builds on a sound block that was
\* broadcast.
LEMMA PeerBlock ==
  ASSUME IInv, peerMines
  PROVE  \E b \in Block :
           /\ mined' = mined \cup {b} /\ b # Genesis /\ ~MinedHere(b)
           /\ SoundPath(Parent(b)) /\ Parent(b) \in mined \cup {Genesis}
  <1> USE DEF IInv, TypeOK
  <1>1. PICK miner \in Miners \ {Self}, target \in Targets,
             p \in mined \cup {Genesis}, tx \in Submissions :
          /\ SoundPath(p)
          /\ mined' = mined \cup
               {Append(p, [miner |-> miner, work |-> target,
                           data |-> exec(Path(p), tx, 0)])}
    BY DEF peerMines
  <1> DEFINE content == [miner |-> miner, work |-> target,
                         data |-> exec(Path(p), tx, 0)]
  <1> DEFINE b == Append(p, content)
  <1>2. p \in Block /\ content \in Content
    <2>1. p \in Block /\ tx \in Tx
      BY EmptyValues DEF NetworkOK
    <2>2. exec(Path(p), tx, 0) \in Seq(Elements)
      BY <2>1, PathType, ExecType
    <2> QED
      BY <2>1, <2>2 DEF Content
  <1>3. b \in Block /\ b # Genesis /\ Parent(b) = p /\ b[Len(b)].miner = miner
    <2>1. p \in Seq(Content) /\ Len(p) \in Nat
      BY <1>2 DEF Block
    <2>2. /\ b \in Seq(Content) /\ Len(b) = Len(p) + 1 /\ b[Len(p) + 1] = content
          /\ \A i \in 1..Len(p) : b[i] = p[i]
      BY <1>2, <2>1, AppendProperties
    <2> HIDE DEF b
    <2>3. SubSeq(b, 1, Len(p)) = p
      BY <2>1, <2>2
    <2> QED
      BY <2>1, <2>2, <2>3 DEF Parent, Genesis, Block
  <1>4. mined' = mined \cup {b}
    BY <1>1
  <1> HIDE DEF b, content
  <1> QED
    BY <1>1, <1>3, <1>4 DEF MinedHere

\* So what it mines leaves the invariant as it is.
LEMMA PeerMinesLongest ==
  ASSUME IInv, IInv', LInv, peerMines
  PROVE  LInv'
  <1>1. UNCHANGED <<chains, pc, block, contender>>
    BY DEF peerMines
  <1>2. PICK b \in Block :
          /\ mined' = mined \cup {b} /\ b # Genesis /\ ~MinedHere(b)
          /\ SoundPath(Parent(b)) /\ Parent(b) \in mined \cup {Genesis}
    BY PeerBlock
  <1>3. MinedHere(Parent(b)) => Len(Parent(b)) < Len(blockchain.chain)
    BY <1>2 DEF LInv, MinedInv, MinedHere
  <1>4. LongestChain' /\ ChallengeInv' /\ ForkInv'
    BY <1>1, <1>2 DEF LInv, LongestChain, ChallengeInv, ForkInv
  <1>5. MinedInv'
    <2>1. UNCHANGED <<blockchain, pc, block>>
      BY <1>1
    <2>2. ASSUME NEW x \in mined'
          PROVE  /\ x # Genesis
                 /\ MinedHere(x) /\ SoundPath(x) => Len(x) < Len(blockchain.chain)
                 /\ MinedHere(Parent(x)) => Len(Parent(x)) < Len(blockchain.chain)
      <3>1. CASE x \in mined
        BY <3>1 DEF LInv, MinedInv
      <3>2. CASE x = b
        BY <1>2, <1>3, <3>2
      <3> QED
        BY <1>2, <3>1, <3>2
    <2> QED
      BY <2>1, <2>2 DEF LInv, MinedInv
  <1> QED
    BY <1>4, <1>5 DEF LInv

\* A node creates its chain before there is any block to process.
LEMMA CreateLongest ==
  ASSUME IInv, IInv', LInv, createNewChain
  PROVE  LInv'
  <1> USE DEF IInv, TypeOK
  <1>1. /\ mined = {} /\ UNCHANGED <<secondaryChains, pc, block, contender, mined>>
        /\ Len(blockchain.chain) = 0 /\ Len(blockchain'.chain) = 1
    BY DEF createNewChain, IsEmpty
  <1>2. pc["processing"] \notin ProcessLabels
    BY <1>1 DEF LInv, ForkInv
  <1>3. LongestChain'
    <2>1. /\ Len(blockchain.chain) \in Nat /\ Len(blockchain'.chain) \in Nat
          /\ Len(blockchain.chain) < Len(blockchain'.chain)
      BY <1>1
    <2>2. \A i \in DOMAIN secondaryChains : Len(secondaryChains[i].chain) \in Nat
      BY ChainTypes
    <2> QED
      BY <1>1, <2>1, <2>2, GrownLongest DEF LInv
  <1>4. ChallengeInv' /\ ForkInv'
    BY <1>1, <1>2 DEF ChallengeInv, ForkInv, ProcessLabels
  <1>5. MinedInv'
    <2>1. Len(block["minning"]) \in Nat
      BY DEF ThreadsOK, Block
    <2> QED
      BY <1>1, <2>1 DEF LInv, MinedInv
  <1> QED
    BY <1>3, <1>4, <1>5 DEF LInv

\* Every step keeps the second invariant, given the first.
LEMMA NextLongest ==
  ASSUME IInv, IInv', LInv, [Next]_vars
  PROVE  LInv'
  <1>1. ASSUME NEW t \in Threads, processBlock(t)
        PROVE  LInv'
    BY <1>1, HashLongest, TransactionsLongest, MainChainLongest,
       NoMainChainLongest, SecondaryLongest, ChallengeLongest, ForkLongest,
       OrphanLongest DEF processBlock
  <1>2. ASSUME UNCHANGED <<blockchain, secondaryChains, contender, mined, pc,
                           block>>
        PROVE  LInv'
    BY <1>2 DEF LInv, LongestChain, ChallengeInv, ForkInv, MinedInv
  <1>3. CASE processingThread
    BY <1>1, <1>2, <1>3, ReceiveLongest, ImportLongest, InstallLongest
       DEF processingThread, queuesEmpty, vars
  <1>4. CASE minningThread
    BY <1>1, <1>4, MiningLongest, MineBlockLongest, CommitLongest,
       BroadcastLongest DEF minningThread
  <1>5. CASE environment
    BY <1>2, <1>5, CreateLongest, PeerMinesLongest
       DEF environment, sendTransaction
  <1>6. CASE UNCHANGED vars
    BY <1>2, <1>6 DEF vars
  <1> QED
    BY <1>3, <1>4, <1>5, <1>6 DEF Next

\* The node stays on the longest of the chains it keeps: for all that arrives,
\* all that it mines and all interleavings of its threads, and for any number
\* of peers, blocks and imports.
THEOREM StaysLongest == Spec => []LongestChain
  <1>1. Init => LInv
    BY DEF Init, LInv, LongestChain, ChallengeInv, ForkInv, MinedInv,
           ProcessLabels
  <1>2. IInv /\ IInv' /\ LInv /\ [Next]_vars => LInv'
    BY NextLongest
  <1>3. LInv => LongestChain
    BY DEF LInv
  <1> QED
    BY <1>1, <1>2, <1>3, Invariance, PTL DEF Spec

-----------------------------------------------------------------------------
(* How a step can change the main chain.                                   *)

\* The mining thread adds its block.
Adds ==
  /\ pc["minning"] \in {"commit", "main"}
  /\ pc' = [pc EXCEPT !["minning"] = "broadcast"]
  /\ ~IsEmpty(blockchain)
  /\ block_belongs(blockchain, block["minning"])
  /\ blockchain' = add_block(blockchain, block["minning"])
  /\ UNCHANGED <<secondaryChains, block, mined, received>>

\* The processing thread ends its round while it can have the lock.
Settles ==
  /\ pc["minning"] \notin {"hash", "transactions", "main", "broadcast"}
  /\ pc'["processing"] = "loop"
  /\ pc'["minning"] = pc["minning"]

\* A user creates the chain before there is any block.
Begins ==
  /\ IsEmpty(blockchain) /\ mined = {}
  /\ UNCHANGED <<secondaryChains, pc, block, mined, received>>

LEMMA MainChainSteps ==
  ASSUME IInv, [Next]_vars
  PROVE  UNCHANGED blockchain \/ Adds \/ Settles \/ Begins
  <1> USE DEF IInv, TypeOK
  <1>1. ASSUME NEW t \in Threads, newBlockBelongsOnMainChain(t)
        PROVE  UNCHANGED blockchain \/ Adds \/ Settles
    <2>1. CASE t = "minning"
      BY <1>1, <2>1 DEF newBlockBelongsOnMainChain, Adds, Return, BlockInv
    <2>2. CASE t = "processing"
      BY <1>1, <2>2, LockExcludes
         DEF newBlockBelongsOnMainChain, Settles, Return, ThreadsOK
    <2> QED
      BY <2>1, <2>2
  <1>2. ASSUME NEW t \in Threads, challengeMainChain(t)
        PROVE  Settles
    <2>1. t = "processing"
      BY <1>2 DEF challengeMainChain, PcInv, MiningLabels
    <2> QED
      BY <1>2, <2>1, LockExcludes
         DEF challengeMainChain, Settles, Return, ThreadsOK
  <1>3. ASSUME installBlockchain
        PROVE  Settles
    BY <1>3, LockExcludes DEF installBlockchain, Settles, ThreadsOK
  <1>4. ASSUME commitBlock
        PROVE  UNCHANGED blockchain \/ Adds
    BY <1>4, CopyIsCurrent DEF commitBlock, Adds, BlockInv
  <1>5. ASSUME createNewChain
        PROVE  Begins
    BY <1>5 DEF createNewChain, Begins
  <1>6. ASSUME NEW t \in Threads, processBlock(t)
        PROVE  UNCHANGED blockchain \/ Adds \/ Settles
    BY <1>1, <1>2, <1>6
       DEF processBlock, newBlockHashValid, newBlockTransactionsValid,
           noMainChain, newBlockBelongsOnSecondaryChains, newBlockCausedAFork,
           addOrphanBlock
  <1>7. CASE processingThread
    BY <1>3, <1>6, <1>7
       DEF processingThread, receiveBlock, receiveBlockchain, mergeOrphan,
           mergeDone, removeOrphan, queuesEmpty, vars
  <1>8. CASE minningThread
    BY <1>4, <1>6, <1>8
       DEF minningThread, takeTransactions, execTransaction, execDone,
           copyBlockchain, mineBlock, mineNothing, commitStale, broadcastBlock
  <1>9. CASE environment
    BY <1>5, <1>9 DEF environment, sendTransaction, peerMines
  <1>10. CASE UNCHANGED vars
    BY <1>10 DEF vars
  <1> QED
    BY <1>7, <1>8, <1>9, <1>10 DEF Next

\* The block that the mining thread adds is the parent of none that the
\* processing thread has.
LEMMA AddsNoParent ==
  ASSUME IInv, LInv, Adds
  PROVE  /\ blockchain'.chain = Append(blockchain.chain, block["minning"])
         /\ Len(blockchain'.chain) = Len(blockchain.chain) + 1
         /\ Newest(blockchain') = block["minning"]
         /\ pc'["processing"] = pc["processing"]
         /\ pc["processing"] \in ProcessLabels =>
              ~Follows(block["processing"], block["minning"])
  <1> DEFINE b == block["minning"]
  <1> DEFINE n == Len(blockchain.chain)
  <1> USE DEF IInv, TypeOK
  <1>1. /\ blockchain \in Chain /\ b \in Block /\ Linked(blockchain.chain)
        /\ ~IsEmpty(blockchain) /\ Follows(b, Newest(blockchain))
        /\ pc' = [pc EXCEPT !["minning"] = "broadcast"]
        /\ blockchain' = add_block(blockchain, b) /\ pc \in [Threads -> Labels]
    BY DEF ChainsOK, ThreadsOK, ChainsLinked, Adds, block_belongs
  <1>2. Len(b) = n /\ n \in Nat
    BY <1>1, HeadNumber
  <1>3. /\ Len(blockchain'.chain) = n + 1
        /\ blockchain'.chain = Append(blockchain.chain, b)
    BY <1>1, AddBlockType
  <1>4. Newest(blockchain') = b
    BY <1>1, <1>3, ChainLength, AppendProperties DEF Newest
  <1>5. pc["processing"] \in ProcessLabels => ~Follows(block["processing"], b)
    <2> SUFFICES ASSUME pc["processing"] \in ProcessLabels,
                        Follows(block["processing"], b)
                 PROVE  FALSE
      OBVIOUS
    <2>1. block["processing"] \in mined /\ Parent(block["processing"]) = b
      BY DEF LInv, ForkInv, Follows, Parent
    <2>2. MinedHere(b)
      BY DEF LInv, MinedInv, Adds
    <2>3. Len(b) < n
      BY <2>1, <2>2 DEF LInv, MinedInv
    <2> QED
      BY <1>2, <2>3
  <1> QED
    BY <1>1, <1>3, <1>4, <1>5

-----------------------------------------------------------------------------
(* The parts of the invariant, one after the other.                        *)

\* A node's own blocks are in "received" when it broadcasts them.
LEMMA OwnKept ==
  ASSUME IInv, LInv, OwnInv, [Next]_vars
  PROVE  OwnInv'
  <1> USE DEF IInv, TypeOK
  <1> DEFINE Still == /\ UNCHANGED <<mined, received>>
                      /\ pc'["processing"] \in ProcessLabels =>
                           /\ pc["processing"] \in ProcessLabels
                           /\ block'["processing"] = block["processing"]
  <1>1. ASSUME Still PROVE OwnInv'
    BY <1>1 DEF OwnInv
  <1>2. ASSUME NEW t \in Threads, processBlock(t)
        PROVE  Still
    BY <1>2
       DEF processBlock, newBlockHashValid, newBlockTransactionsValid,
           newBlockBelongsOnMainChain, noMainChain,
           newBlockBelongsOnSecondaryChains, challengeMainChain,
           newBlockCausedAFork, addOrphanBlock, Proceed, Return, ProcessLabels,
           ThreadsOK
  <1>3. CASE receiveBlock
    BY <1>3 DEF receiveBlock, OwnInv, ThreadsOK
  <1>4. CASE broadcastBlock
    BY <1>4 DEF broadcastBlock, endRound, OwnInv, ThreadsOK
  <1>5. CASE peerMines
    <2>1. UNCHANGED <<pc, block, received>>
      BY <1>5 DEF peerMines
    <2>2. PICK b \in Block : mined' = mined \cup {b} /\ ~MinedHere(b)
      BY <1>5, PeerBlock
    <2> QED
      BY <2>1, <2>2 DEF OwnInv
  <1>6. CASE processingThread /\ ~receiveBlock
    <2>1. Still
      BY <1>2, <1>6
         DEF processingThread, receiveBlockchain, mergeOrphan, mergeDone,
             removeOrphan, installBlockchain, queuesEmpty, vars, ProcessLabels,
             ThreadsOK
    <2> QED
      BY <1>1, <2>1
  <1>7. CASE minningThread /\ ~broadcastBlock
    <2>1. Still
      BY <1>2, <1>7
         DEF minningThread, takeTransactions, execTransaction, execDone,
             copyBlockchain, mineBlock, mineNothing, commitStale, commitBlock,
             endRound, ThreadsOK
    <2> QED
      BY <1>1, <2>1
  <1>8. CASE environment /\ ~peerMines
    BY <1>1, <1>8 DEF environment, createNewChain, sendTransaction
  <1>9. CASE UNCHANGED vars
    BY <1>1, <1>9 DEF vars
  <1> QED
    BY <1>3, <1>4, <1>5, <1>6, <1>7, <1>8, <1>9 DEF Next

\* A thread comes to step 3 from step 2.
LEMMA MainSteps ==
  ASSUME IInv, [Next]_vars, NEW t \in Threads, pc'[t] = "main"
  PROVE  \/ pc[t] = "main" /\ block'[t] = block[t]
         \/ /\ UNCHANGED <<blockchain, block>>
            /\ transactionsValid(blockchain.chain, block[t])
  <1> USE DEF IInv, TypeOK, ThreadsOK
  <1> DEFINE Goal == \/ pc[t] = "main" /\ block'[t] = block[t]
                     \/ /\ UNCHANGED <<blockchain, block>>
                        /\ transactionsValid(blockchain.chain, block[t])
  <1>1. ASSUME NEW u \in Threads, processBlock(u)
        PROVE  Goal
    BY <1>1
       DEF processBlock, newBlockHashValid, newBlockTransactionsValid,
           newBlockBelongsOnMainChain, noMainChain,
           newBlockBelongsOnSecondaryChains, challengeMainChain,
           newBlockCausedAFork, addOrphanBlock, Proceed, Return
  <1>2. CASE processingThread
    BY <1>1, <1>2
       DEF processingThread, receiveBlock, receiveBlockchain, mergeOrphan,
           mergeDone, removeOrphan, installBlockchain, queuesEmpty, vars
  <1>3. CASE minningThread
    BY <1>1, <1>3
       DEF minningThread, takeTransactions, execTransaction, execDone,
           copyBlockchain, mineBlock, mineNothing, commitStale, commitBlock,
           broadcastBlock, endRound
  <1>4. CASE environment
    BY <1>4 DEF environment, createNewChain, sendTransaction, peerMines
  <1>5. CASE UNCHANGED vars
    BY <1>5 DEF vars
  <1> QED
    BY <1>2, <1>3, <1>4, <1>5 DEF Next

\* While it is there the main chain does not change, or it changes to one that
\* the block does not follow.
LEMMA ValidKept ==
  ASSUME IInv, LInv, ValidInv, [Next]_vars
  PROVE  ValidInv'
  <1> USE DEF IInv
  <1> SUFFICES ASSUME NEW t \in Threads, pc'[t] = "main", ~IsEmpty(blockchain'),
                      Follows(block'[t], Newest(blockchain'))
               PROVE  transactionsValid(blockchain'.chain, block'[t])
    BY DEF ValidInv
  <1>1. CASE UNCHANGED <<blockchain, block>>
               /\ transactionsValid(blockchain.chain, block[t])
    BY <1>1
  <1>2. CASE pc[t] = "main" /\ block'[t] = block[t]
    <2>1. CASE UNCHANGED blockchain
      BY <1>2, <2>1 DEF ValidInv
    <2>2. CASE Adds
      <3>1. t = "processing"
        BY <2>2 DEF Adds, TypeOK, ThreadsOK
      <3> QED
        BY <1>2, <2>2, <3>1, AddsNoParent DEF ProcessLabels
    <2>3. CASE Settles
      BY <1>2, <2>3 DEF Settles
    <2>4. CASE Begins
      BY <1>2, <2>4 DEF Begins, LInv, ForkInv, ProcessLabels, BlockInv
    <2> QED
      BY <2>1, <2>2, <2>3, <2>4, MainChainSteps
  <1> QED
    BY <1>1, <1>2, MainSteps

\* The processing thread comes to step 6 when step 4 found no chain that the
\* block extends, and to step 7 when step 6 found no parent.
LEMMA ForkSteps ==
  ASSUME IInv, [Next]_vars, pc'["processing"] \in {"fork", "orphan"}
  PROVE  /\ block'["processing"] = block["processing"]
         /\ UNCHANGED secondaryChains
         /\ \/ pc["processing"] = pc'["processing"]
            \/ /\ pc["processing"] = "fork" /\ pc'["processing"] = "orphan"
               /\ is_prev_hash_in_chain(blockchain, block["processing"]) = 0
               /\ UNCHANGED blockchain
            \/ /\ pc["processing"] = "secondary" /\ pc'["processing"] = "fork"
               /\ Extended(secondaryChains, block["processing"]) = {}
  <1> USE DEF IInv, TypeOK, ThreadsOK
  <1> DEFINE Goal ==
        /\ block'["processing"] = block["processing"]
        /\ UNCHANGED secondaryChains
        /\ \/ pc["processing"] = pc'["processing"]
           \/ /\ pc["processing"] = "fork" /\ pc'["processing"] = "orphan"
              /\ is_prev_hash_in_chain(blockchain, block["processing"]) = 0
              /\ UNCHANGED blockchain
           \/ /\ pc["processing"] = "secondary" /\ pc'["processing"] = "fork"
              /\ Extended(secondaryChains, block["processing"]) = {}
  <1>1. ASSUME NEW t \in Threads, newBlockBelongsOnSecondaryChains(t)
        PROVE  Goal
    <2>1. /\ t = "processing" /\ pc["processing"] = "secondary"
          /\ secondaryChains' = ExtendAll(secondaryChains, block[t])
          /\ UNCHANGED block
          /\ \/ Extended(secondaryChains, block[t]) = {}
             \/ pc' = [pc EXCEPT ![t] = "challenge"]
      BY <1>1, SecondaryStep
    <2>2. Extended(secondaryChains, block[t]) = {}
      BY <2>1
    <2>3. secondaryChains' = [i \in DOMAIN secondaryChains |-> secondaryChains[i]]
      BY <2>1, <2>2 DEF ExtendAll
    <2>4. secondaryChains' = secondaryChains
      BY <2>3 DEF ChainsOK
    <2>5. pc'["processing"] = "fork"
      BY <1>1, <2>1, <2>2
         DEF newBlockBelongsOnSecondaryChains, Proceed, Extended
    <2> QED
      BY <2>1, <2>2, <2>4, <2>5
  <1>2. ASSUME NEW t \in Threads, newBlockCausedAFork(t)
        PROVE  Goal
    <2>1. t = "processing"
      BY <1>2 DEF newBlockCausedAFork, PcInv, ImportLabels, MiningLabels
    <2> QED
      BY <1>2, <2>1 DEF newBlockCausedAFork, Proceed, Return
  <1>3. ASSUME NEW t \in Threads, processBlock(t)
        PROVE  Goal
    <2>1. CASE challengeMainChain(t) \/ noMainChain(t)
      <3>1. pc'[t] \notin {"fork", "orphan"}
        BY <2>1 DEF challengeMainChain, noMainChain, Return
      <3>2. t # "processing"
        BY <3>1
      <3> QED
        BY <2>1, <3>2
           DEF challengeMainChain, noMainChain, PcInv, ImportLabels,
               MiningLabels
    <2>2. CASE newBlockHashValid(t) \/ newBlockTransactionsValid(t)
      BY <2>2 DEF newBlockHashValid, newBlockTransactionsValid, Proceed, Return
    <2>3. CASE newBlockBelongsOnMainChain(t)
      BY <2>3 DEF newBlockBelongsOnMainChain, Proceed, Return
    <2>4. CASE addOrphanBlock(t)
      BY <2>4 DEF addOrphanBlock, Return
    <2> QED
      BY <1>1, <1>2, <1>3, <2>1, <2>2, <2>3, <2>4 DEF processBlock
  <1>4. CASE processingThread
    BY <1>3, <1>4
       DEF processingThread, receiveBlock, receiveBlockchain, mergeOrphan,
           mergeDone, removeOrphan, installBlockchain, queuesEmpty, vars
  <1>5. CASE minningThread
    BY <1>3, <1>5
       DEF minningThread, takeTransactions, execTransaction, execDone,
           copyBlockchain, mineBlock, mineNothing, commitStale, commitBlock,
           broadcastBlock, endRound
  <1>6. CASE environment
    BY <1>6 DEF environment, createNewChain, sendTransaction, peerMines
  <1>7. CASE UNCHANGED vars
    BY <1>7 DEF vars
  <1> QED
    BY <1>4, <1>5, <1>6, <1>7 DEF Next

LEMMA ForkedKept ==
  ASSUME IInv, ForkedInv, [Next]_vars
  PROVE  ForkedInv'
  <1> SUFFICES ASSUME pc'["processing"] \in {"fork", "orphan"},
                      NEW i \in DOMAIN secondaryChains'
               PROVE  ~block_belongs(secondaryChains'[i], block'["processing"])
    BY DEF ForkedInv
  <1> QED
    BY ForkSteps DEF ForkedInv, Extended

\* A block whose parent step 6 does not find has none but the genesis block.
LEMMA NoParentFound ==
  ASSUME NEW c \in Chain, Linked(c.chain), NEW b \in Block,
         is_prev_hash_in_chain(c, b) = 0, NEW i \in 2..Len(c.chain)
  PROVE  ~Follows(b, c.chain[i])
  <1> SUFFICES ASSUME Follows(b, c.chain[i]) PROVE FALSE
    OBVIOUS
  <1>1. c.chain \in Seq(Block)
    BY DEF Chain
  <1>2. i \in DOMAIN c.chain /\ c.chain[i] \in Block /\ Len(c.chain) \in Nat
    BY <1>1
  <1>3. blockNumber(c.chain[i]) = i - 1
    BY <1>2 DEF Linked
  <1>4. blockNumber(b) = blockNumber(c.chain[i]) + 1
    BY <1>2, FollowsNumber
  <1>5. blockNumber(b) - 1 = 0
    BY <1>2 DEF is_prev_hash_in_chain, Blocks
  <1> QED
    BY <1>2, <1>3, <1>4, <1>5

LEMMA OrphanKept ==
  ASSUME IInv, LInv, ForkedInv, OrphanHasNoParent, [Next]_vars
  PROVE  OrphanHasNoParent'
  <1> USE DEF IInv, TypeOK
  <1> DEFINE b == block["processing"]
  <1> DEFINE c == blockchain'.chain
  <1>1. SUFFICES ASSUME pc'["processing"] = "orphan"
                 PROVE  \A i \in 2..Len(c) : ~Follows(b, c[i])
    <2>1. pc'["processing"] = "orphan" =>
            /\ block'["processing"] = b
            /\ \A i \in DOMAIN secondaryChains' :
                 ~block_belongs(secondaryChains'[i], block'["processing"])
      BY ForkSteps, ForkedKept DEF ForkedInv
    <2> QED
      BY <2>1 DEF OrphanHasNoParent
  <1>2. /\ blockchain \in Chain /\ Linked(blockchain.chain) /\ b \in Block
        /\ blockchain.chain \in Seq(Block) /\ Len(blockchain.chain) \in Nat
    BY ChainTypes DEF ChainsOK, ChainsLinked, ThreadsOK
  <1>3. CASE /\ is_prev_hash_in_chain(blockchain, b) = 0
             /\ UNCHANGED blockchain
    BY <1>2, <1>3, NoParentFound
  <1>4. CASE pc["processing"] = "orphan"
    <2>1. \A i \in 2..Len(blockchain.chain) : ~Follows(b, blockchain.chain[i])
      BY <1>4 DEF OrphanHasNoParent
    <2>2. CASE UNCHANGED blockchain
      BY <2>1, <2>2
    <2>3. CASE Adds
      <3>1. /\ c = Append(blockchain.chain, block["minning"])
            /\ ~Follows(b, block["minning"])
        BY <1>4, <2>3, AddsNoParent DEF ProcessLabels
      <3> HIDE DEF b, c
      <3> QED
        BY <1>2, <2>1, <3>1, AppendProperties
    <2>4. CASE Settles
      BY <1>1, <2>4 DEF Settles
    <2>5. CASE Begins
      BY <1>4, <2>5 DEF Begins, LInv, ForkInv, ProcessLabels
    <2> QED
      BY <2>2, <2>3, <2>4, <2>5, MainChainSteps
  <1> QED
    BY <1>1, <1>3, <1>4, ForkSteps

\* The mining thread comes to the broadcast with a block that it has added, or
\* that was turned down because it is not valid.
LEMMA BroadcastSteps ==
  ASSUME IInv, [Next]_vars, pc'["minning"] = "broadcast"
  PROVE  \/ Adds
         \/ pc["minning"] = "broadcast" /\ block'["minning"] = block["minning"]
         \/ /\ UNCHANGED <<blockchain, block>>
            /\ ~IsEmpty(blockchain) /\ ~SoundPath(block["minning"])
  <1> USE DEF IInv, TypeOK, ThreadsOK
  <1> DEFINE Goal ==
        \/ Adds
        \/ pc["minning"] = "broadcast" /\ block'["minning"] = block["minning"]
        \/ /\ UNCHANGED <<blockchain, block>>
           /\ ~IsEmpty(blockchain) /\ ~SoundPath(block["minning"])
  <1>1. ASSUME NEW t \in Threads, newBlockHashValid(t)
        PROVE  Goal
    BY <1>1 DEF newBlockHashValid, Proceed, Return, BlockInv, block_belongs
  <1>2. ASSUME NEW t \in Threads, newBlockTransactionsValid(t)
        PROVE  Goal
    <2>1. CASE t = "minning" /\ ~transactionsValid(blockchain.chain, block[t])
      <3>1. /\ blockchain \in Chain /\ Linked(blockchain.chain)
            /\ ~IsEmpty(blockchain) /\ block[t] \in Block
            /\ Follows(block[t], Newest(blockchain)) /\ UNCHANGED block
            /\ UNCHANGED blockchain
        BY <1>2, <2>1
           DEF newBlockTransactionsValid, Return, ChainsOK, ChainsLinked,
               BlockInv, block_belongs
      <3>2. ~SoundPath(block[t])
        BY <2>1, <3>1, InvalidNotSound
      <3> QED
        BY <2>1, <3>1, <3>2
    <2>2. CASE ~(t = "minning" /\ ~transactionsValid(blockchain.chain, block[t]))
      BY <1>2, <2>2 DEF newBlockTransactionsValid, Proceed, Return
    <2> QED
      BY <2>1, <2>2
  <1>3. ASSUME NEW t \in Threads, newBlockBelongsOnMainChain(t)
        PROVE  Goal
    BY <1>3 DEF newBlockBelongsOnMainChain, Proceed, Return, Adds
  <1>4. ASSUME NEW t \in Threads, processBlock(t)
        PROVE  Goal
    BY <1>1, <1>2, <1>3, <1>4
       DEF processBlock, noMainChain, newBlockBelongsOnSecondaryChains,
           challengeMainChain, newBlockCausedAFork, addOrphanBlock, Proceed,
           Return, PcInv, ImportLabels, MiningLabels
  <1>5. CASE processingThread
    BY <1>4, <1>5
       DEF processingThread, receiveBlock, receiveBlockchain, mergeOrphan,
           mergeDone, removeOrphan, installBlockchain, queuesEmpty, vars
  <1>6. ASSUME commitBlock
        PROVE  Goal
    BY <1>6, CopyIsCurrent DEF commitBlock, Adds, BlockInv
  <1>7. CASE minningThread
    BY <1>4, <1>6, <1>7
       DEF minningThread, takeTransactions, execTransaction, execDone,
           copyBlockchain, mineBlock, mineNothing, commitStale, broadcastBlock,
           endRound
  <1>8. CASE environment
    BY <1>8 DEF environment, createNewChain, sendTransaction, peerMines
  <1>9. CASE UNCHANGED vars
    BY <1>9 DEF vars
  <1> QED
    BY <1>5, <1>7, <1>8, <1>9 DEF Next

LEMMA BroadcastKept ==
  ASSUME IInv, LInv, ReadyInv, BroadcastAtHead, [Next]_vars
  PROVE  ReadyInv' /\ BroadcastAtHead'
  <1> SUFFICES ASSUME pc'["minning"] = "broadcast"
               PROVE  /\ ~IsEmpty(blockchain')
                      /\ SoundPath(block'["minning"]) =>
                           Newest(blockchain') = block'["minning"]
    BY DEF ReadyInv, BroadcastAtHead
  <1>1. CASE Adds
    <2>1. Len(blockchain.chain) \in Nat
      BY ChainTypes DEF IInv, TypeOK
    <2>2. /\ Len(blockchain'.chain) = Len(blockchain.chain) + 1
          /\ Newest(blockchain') = block["minning"]
      BY <1>1, AddsNoParent
    <2>3. UNCHANGED block
      BY <1>1 DEF Adds
    <2>4. blockchain'.chain # <<>>
      BY <2>1, <2>2
    <2> QED
      BY <2>2, <2>3, <2>4 DEF IsEmpty
  <1>2. CASE pc["minning"] = "broadcast" /\ block'["minning"] = block["minning"]
             /\ ~Adds
    <2>1. UNCHANGED blockchain
      BY <1>2, MainChainSteps DEF Settles, Begins, ReadyInv
    <2> QED
      BY <1>2, <2>1 DEF ReadyInv, BroadcastAtHead
  <1>3. CASE /\ UNCHANGED <<blockchain, block>>
             /\ ~IsEmpty(blockchain) /\ ~SoundPath(block["minning"])
    BY <1>3
  <1> QED
    BY <1>1, <1>2, <1>3, BroadcastSteps

-----------------------------------------------------------------------------
(* The theorems.                                                           *)

LEMMA InitSound == Init => SInv
  BY DEF Init, SInv, OwnInv, ValidInv, ForkedInv, ReadyInv, OrphanHasNoParent,
         BroadcastAtHead, ProcessLabels

LEMMA SoundInvariance == Spec => [](IInv /\ LInv /\ SInv)
  <1>1. Init => LInv
    BY DEF Init, LInv, LongestChain, ChallengeInv, ForkInv, MinedInv,
           ProcessLabels
  <1>2. IInv /\ IInv' /\ LInv /\ [Next]_vars => LInv'
    BY NextLongest
  <1>3. IInv /\ LInv /\ SInv /\ [Next]_vars => SInv'
    BY OwnKept, ValidKept, ForkedKept, OrphanKept, BroadcastKept DEF SInv
  <1> QED
    BY <1>1, <1>2, <1>3, InitSound, Invariance, PTL DEF Spec

\* A block becomes an orphan only if it has no parent but the genesis block on
\* the main chain and extends no secondary chain, although steps 3, 4 and 6 of
\* processBlock looked at different times, under different locks.
THEOREM OrphansAreOrphans == Spec => []OrphanHasNoParent
  <1>1. SInv => OrphanHasNoParent
    BY DEF SInv
  <1> QED
    BY <1>1, SoundInvariance, PTL

\* What _mine broadcasts without looking at the result of processBlock is at
\* the head of the node's own main chain, or no peer will build on it.
THEOREM BroadcastsWhatItAdded == Spec => []BroadcastAtHead
  <1>1. SInv => BroadcastAtHead
    BY DEF SInv
  <1> QED
    BY <1>1, SoundInvariance, PTL

\* While the processing thread is at step 3 it changes the main chain only by
\* adding its block to the head.
LEMMA AddsToHead ==
  ASSUME IInv, [Next]_vars, pc["processing"] = "main", pc'["processing"] = "loop"
  PROVE  \/ UNCHANGED blockchain
         \/ ~IsEmpty(blockchain)
            /\ Follows(block["processing"], Newest(blockchain))
  <1> USE DEF IInv, TypeOK, ThreadsOK
  <1>1. ASSUME NEW t \in Threads, processBlock(t)
        PROVE  t = "processing"
               /\ (newBlockBelongsOnMainChain(t) \/ noMainChain(t))
    <2>1. t = "processing"
      BY <1>1
         DEF processBlock, newBlockHashValid, newBlockTransactionsValid,
             newBlockBelongsOnMainChain, noMainChain,
             newBlockBelongsOnSecondaryChains, challengeMainChain,
             newBlockCausedAFork, addOrphanBlock, Proceed, Return, PcInv,
             ImportLabels, MiningLabels
    <2> QED
      BY <1>1, <2>1
         DEF processBlock, newBlockHashValid, newBlockTransactionsValid,
             newBlockBelongsOnSecondaryChains, challengeMainChain,
             newBlockCausedAFork, addOrphanBlock
  <1>2. ASSUME NEW t \in Threads, processBlock(t)
        PROVE  \/ UNCHANGED blockchain
               \/ ~IsEmpty(blockchain)
                  /\ Follows(block["processing"], Newest(blockchain))
    BY <1>1, <1>2 DEF newBlockBelongsOnMainChain, noMainChain, block_belongs
  <1>3. CASE processingThread
    BY <1>2, <1>3
       DEF processingThread, receiveBlock, receiveBlockchain, mergeOrphan,
           mergeDone, removeOrphan, installBlockchain, queuesEmpty, vars
  <1>4. CASE minningThread
    BY <1>2, <1>4
       DEF minningThread, takeTransactions, execTransaction, execDone,
           copyBlockchain, mineBlock, mineNothing, commitStale, commitBlock,
           broadcastBlock, endRound
  <1>5. CASE environment
    BY <1>5 DEF environment, createNewChain, sendTransaction, peerMines
  <1>6. CASE UNCHANGED vars
    BY <1>6 DEF vars
  <1> QED
    BY <1>3, <1>4, <1>5, <1>6 DEF Next

\* Of two threads with a block at step 3 only the one whose block is added adds
\* it: the block of the processing thread was not mined here.
LEMMA AddedIsValid ==
  ASSUME IInv, LInv, SInv, [Next]_vars, NEW t \in Threads, pc[t] = "main",
         blockchain' = add_block(blockchain, block[t])
  PROVE  transactionsValid(blockchain.chain, block[t])
  <1> USE DEF IInv, TypeOK
  <1>1. /\ block[t] \in Block /\ block["minning"] \in Block
        /\ blockchain \in Chain /\ blockchain.chain \in Seq(Block)
        /\ Len(blockchain.chain) \in Nat
    BY ChainTypes DEF ChainsOK, ThreadsOK
  <1>2. SUFFICES /\ ~IsEmpty(blockchain)
                 /\ Follows(block[t], Newest(blockchain))
    BY DEF SInv, ValidInv
  <1>3. Len(blockchain'.chain) = Len(blockchain.chain) + 1
    BY <1>1, AddBlockType
  <1>4. CASE UNCHANGED blockchain
    BY <1>1, <1>3, <1>4
  <1>5. CASE Adds
    <2>1. /\ blockchain' = add_block(blockchain, block["minning"])
          /\ ~IsEmpty(blockchain)
          /\ Follows(block["minning"], Newest(blockchain))
      BY <1>5 DEF Adds, block_belongs
    <2>2. block[t] = block["minning"]
      <3>1. Append(blockchain.chain, block[t])
              = Append(blockchain.chain, block["minning"])
        BY <2>1 DEF add_block
      <3> QED
        BY <1>1, <3>1, AppendProperties
    <2> QED
      BY <2>1, <2>2
  <1>6. CASE Settles
    <2>1. t = "processing"
      BY <1>6 DEF Settles
    <2> QED
      BY <1>1, <1>3, <1>6, <2>1, AddsToHead DEF Settles
  <1>7. CASE Begins
    BY <1>7 DEF Begins, LInv, ForkInv, ProcessLabels, BlockInv
  <1> QED
    BY <1>4, <1>5, <1>6, <1>7, MainChainSteps

\* A block joins the main chain only if its transactions are valid on the very
\* chain it joins, although newBlockTransactionsValid looked under an earlier
\* lock and the mining thread may have added a block since.
THEOREM JoinsWhereValid == Spec => ValidWhereItJoins
  <1>1. IInv /\ LInv /\ SInv /\ [Next]_vars =>
          [\A t \in Threads :
             pc[t] = "main" /\ blockchain' = add_block(blockchain, block[t]) =>
               transactionsValid(blockchain.chain, block[t])]_vars
    BY AddedIsValid
  <1> QED
    BY <1>1, SoundInvariance, PTL DEF Spec, ValidWhereItJoins

=============================================================================
