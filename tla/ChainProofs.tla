----------------------------- MODULE ChainProofs -----------------------------
(***************************************************************************)
(* Lemmas about the operators of Blockchain and Transactions.              *)
(***************************************************************************)
EXTENDS Transactions, SequenceTheorems, WellFoundedInduction, TLAPS

-----------------------------------------------------------------------------
(* Blocks and chains.                                                      *)

\* The parent of a block is a block, and has the number before it.
LEMMA FollowsNumber ==
  ASSUME NEW b \in Block, NEW p, Follows(b, p)
  PROVE  p \in Block /\ blockNumber(b) = blockNumber(p) + 1
  BY DEF Block, Follows, blockNumber, Genesis

\* add_block appends, and keeps what a chain is made of.
LEMMA AddBlockType ==
  ASSUME NEW c \in Chain, NEW b \in Block
  PROVE  /\ add_block(c, b) \in Chain
         /\ add_block(c, b).chain = Append(c.chain, b)
         /\ Len(add_block(c, b).chain) = Len(c.chain) + 1
         /\ ~IsEmpty(add_block(c, b))
  <1>1. c.chain \in Seq(Block) /\ c.target \in Targets
    BY DEF Chain
  <1>2. add_block(c, b) = [target |-> c.target, chain |-> Append(c.chain, b)]
    BY DEF add_block, Chain
  <1>3. Append(c.chain, b) \in Seq(Block)
        /\ Len(Append(c.chain, b)) = Len(c.chain) + 1
        /\ Append(c.chain, b) # <<>>
    BY <1>1, AppendProperties
  <1> QED
    BY <1>1, <1>2, <1>3 DEF Chain, IsEmpty

\* A block that follows the newest block of a linked chain may be added to it.
LEMMA AddBlockLinked ==
  ASSUME NEW c \in Chain, NEW b \in Block, Linked(c.chain), ~IsEmpty(c),
         Follows(b, Newest(c))
  PROVE  Linked(add_block(c, b).chain)
  <1> DEFINE s == c.chain
  <1> DEFINE n == Len(s)
  <1>1. s \in Seq(Block) /\ n \in Nat \ {0}
    BY EmptySeq DEF Chain, IsEmpty
  <1>2. blockNumber(b) = blockNumber(s[n]) + 1
    BY FollowsNumber DEF Newest
  <1>3. blockNumber(b) = n
    BY <1>1, <1>2 DEF Linked
  <1>4. ASSUME NEW i \in 1..(n + 1)
        PROVE  /\ blockNumber(Append(s, b)[i]) = i - 1
               /\ i > 1 => Follows(Append(s, b)[i], Append(s, b)[i - 1])
    <2>1. CASE i = n + 1
      <3>1. Append(s, b)[i] = b /\ (i > 1 => Append(s, b)[i - 1] = s[n])
        BY <1>1, <2>1, AppendProperties
      <3> QED
        BY <1>1, <1>3, <2>1, <3>1 DEF Newest
    <2>2. CASE i \in 1..n
      <3>1. Append(s, b)[i] = s[i] /\ (i > 1 => Append(s, b)[i - 1] = s[i - 1])
        BY <1>1, <2>2, AppendProperties
      <3> QED
        BY <2>2, <3>1 DEF Linked
    <2> QED
      BY <1>1, <2>1, <2>2
  <1> QED
    BY <1>1, <1>4, AddBlockType DEF Linked

\* The copy of a linked chain up to a number is linked, and ends at the block
\* of that number.
LEMMA CopyUpTo ==
  ASSUME NEW c \in Chain, Linked(c.chain), NEW n \in Nat, n < Len(c.chain)
  PROVE  /\ copyUpTo(c, n) \in Chain
         /\ Linked(copyUpTo(c, n).chain)
         /\ Len(copyUpTo(c, n).chain) = n + 1
         /\ ~IsEmpty(copyUpTo(c, n))
         /\ Newest(copyUpTo(c, n)) = c.chain[n + 1]
  <1> DEFINE s == SubSeq(c.chain, 1, n + 1)
  <1>1. c.chain \in Seq(Block) /\ c.target \in Targets
    BY DEF Chain
  <1>2. copyUpTo(c, n) = [target |-> c.target, chain |-> s]
    BY DEF copyUpTo, Chain
  <1>3. s \in Seq(Block) /\ Len(s) = n + 1 /\ s # <<>>
        /\ \A i \in 1..(n + 1) : s[i] = c.chain[i]
    BY <1>1
  <1>4. Linked(s)
    BY <1>1, <1>3 DEF Linked
  <1> QED
    BY <1>1, <1>2, <1>3, <1>4 DEF Chain, IsEmpty, Newest

\* In a linked chain the parent of a block is where newBlockCausedAFork looks.
LEMMA ParentIndex ==
  ASSUME NEW c \in Chain, Linked(c.chain), NEW b \in Block,
         is_prev_hash_in_chain(c, b) # 0
  PROVE  /\ is_prev_hash_in_chain(c, b) \in Nat
         /\ is_prev_hash_in_chain(c, b) < Len(c.chain)
         /\ Follows(b, c.chain[is_prev_hash_in_chain(c, b) + 1])
  <1>1. PICK p \in Blocks(c) : Follows(b, p)
    BY DEF is_prev_hash_in_chain
  <1>2. c.chain \in Seq(Block)
    BY DEF Chain
  <1>3. PICK i \in 1..Len(c.chain) : p = c.chain[i]
    BY <1>1, <1>2 DEF Blocks
  <1>4. blockNumber(b) = blockNumber(p) + 1 /\ blockNumber(p) = i - 1
    BY <1>1, <1>3, FollowsNumber DEF Linked
  <1>5. is_prev_hash_in_chain(c, b) = i - 1
    BY <1>1, <1>2, <1>3, <1>4 DEF is_prev_hash_in_chain
  <1> QED
    BY <1>1, <1>2, <1>3, <1>5

\* The path to a block is a linked chain that ends at the block.
LEMMA PathType ==
  ASSUME NEW b \in Block
  PROVE  /\ Path(b) \in Seq(Block)
         /\ Len(Path(b)) = Len(b) + 1
         /\ Path(b) # <<>>
         /\ Linked(Path(b))
         /\ \A i \in 1..(Len(b) + 1) : Len(Path(b)[i]) = i - 1
  <1>1. b \in Seq(Content) /\ Len(b) \in Nat
    BY DEF Block
  <1>2. \A i \in 1..(Len(b) + 1) :
          SubSeq(b, 1, i - 1) \in Seq(Content) /\ Len(SubSeq(b, 1, i - 1)) = i - 1
    BY <1>1
  <1>3. Path(b) \in Seq(Block) /\ Len(Path(b)) = Len(b) + 1
    BY <1>1, <1>2, IsASeq DEF Path, Block
  <1>4. \A i \in 1..(Len(b) + 1) : Path(b)[i] = SubSeq(b, 1, i - 1)
    BY DEF Path
  <1>5. ASSUME NEW i \in 1..(Len(b) + 1), i > 1
        PROVE  Follows(Path(b)[i], Path(b)[i - 1])
    <2>1. SubSeq(SubSeq(b, 1, i - 1), 1, i - 2) = SubSeq(b, 1, i - 2)
      BY <1>1, <1>5
    <2> QED
      BY <1>1, <1>2, <1>4, <1>5, <2>1 DEF Follows, Genesis
  <1> QED
    BY <1>1, <1>2, <1>3, <1>4, <1>5 DEF Linked, blockNumber

\* A block mined on a chain is a block, and belongs on that chain.
LEMMA MineBlock ==
  ASSUME NEW c \in Chain, ~IsEmpty(c), NEW data \in Seq(Elements),
         NEW miner \in Miners
  PROVE  /\ mine_block(c, data, miner) \in Block
         /\ block_belongs(c, mine_block(c, data, miner))
  <1> DEFINE content == [miner |-> miner, work |-> c.target, data |-> data]
  <1> DEFINE b == Append(Newest(c), content)
  <1>1. c.chain \in Seq(Block) /\ c.target \in Targets /\ c.target \in Nat
    BY TargetsAssumption DEF Chain
  <1>2. Newest(c) \in Seq(Content)
    BY <1>1, EmptySeq DEF Newest, IsEmpty, Block
  <1>3. content \in Content
    BY <1>1 DEF Content
  <1>4. b \in Seq(Content) /\ Len(b) = Len(Newest(c)) + 1 /\ b # <<>>
        /\ b[Len(b)] = content
    BY <1>2, <1>3
  <1>5. SubSeq(b, 1, Len(b) - 1) = Newest(c)
    BY <1>2, <1>3, <1>4
  <1>6. mine_block(c, data, miner) = b
    BY DEF mine_block
  <1>7. block_valid(c, b) /\ Follows(b, Newest(c))
    BY <1>1, <1>4, <1>5 DEF block_valid, Follows, Genesis
  <1> HIDE DEF b
  <1> QED
    BY <1>4, <1>6, <1>7 DEF block_belongs, Block

-----------------------------------------------------------------------------
(* Least elements, for the definitions by CHOOSE.                          *)

\* A set of natural numbers that is not empty has a least element.
LEMMA LeastNat ==
  ASSUME NEW S, S \subseteq Nat, S # {}
  PROVE  \E n \in S : \A m \in S : n <= m
  <1>1. \E n \in S : \A m \in S : ~(<<m, n>> \in OpToRel(<, Nat))
    BY WFMin, NatLessThanWellFounded
  <1>2. PICK n \in S : \A m \in S : ~(<<m, n>> \in OpToRel(<, Nat))
    BY <1>1
  <1>3. \A m \in S : ~(m < n)
    BY <1>2 DEF OpToRel
  <1> QED
    BY <1>3

\* One that is bounded has a greatest element.
LEMMA GreatestNat ==
  ASSUME NEW N \in Nat, NEW S, S \subseteq 0..N, S # {}
  PROVE  \E n \in S : \A m \in S : m <= n
  <1> DEFINE T == {N - m : m \in S}
  <1>1. T \subseteq Nat /\ T # {}
    <2>1. \A m \in S : N - m \in Nat
      OBVIOUS
    <2>2. PICK m \in S : TRUE
      OBVIOUS
    <2>3. N - m \in T
      OBVIOUS
    <2> QED
      BY <2>1, <2>3
  <1>2. PICK t \in T : \A u \in T : t <= u
    BY <1>1, LeastNat
  <1>3. PICK n \in S : t = N - n
    OBVIOUS
  <1>4. \A m \in S : N - n <= N - m
    BY <1>2, <1>3
  <1> QED
    BY <1>4

\* The positions of the transactions of a list of blocks.
LEMMA PositionsType ==
  ASSUME NEW blocks \in Seq(Block), NEW p \in Positions(blocks)
  PROVE  /\ p = <<p[1], p[2]>> /\ p[1] \in 1..Len(blocks) /\ p[2] \in Nat
         /\ At(blocks, p) \in Elements
  <1>1. PICK i \in DOMAIN blocks : \E j \in DOMAIN Data(blocks[i]) : p = <<i, j>>
    BY DEF Positions
  <1>2. PICK j \in DOMAIN Data(blocks[i]) : p = <<i, j>>
    BY <1>1
  <1>3. i \in 1..Len(blocks) /\ blocks[i] \in Seq(Content)
    BY <1>1 DEF Block
  <1>4. Data(blocks[i]) \in Seq(Elements)
    <2>1. CASE blocks[i] = Genesis
      BY <2>1 DEF Data
    <2>2. CASE blocks[i] # Genesis
      <3>1. blocks[i][Len(blocks[i])] \in Content
        BY <1>3, <2>2, EmptySeq, ElementOfSeq DEF Genesis
      <3> QED
        BY <2>2, <3>1 DEF Data, Content
    <2> QED
      BY <2>1, <2>2
  <1>5. j \in 1..Len(Data(blocks[i])) /\ Data(blocks[i])[j] \in Elements
    BY <1>2, <1>4
  <1> QED
    BY <1>2, <1>3, <1>5 DEF At

\* Among some positions there is one that precedes the others ...
LEMMA FirstPosition ==
  ASSUME NEW blocks \in Seq(Block), NEW T, T \subseteq Positions(blocks), T # {}
  PROVE  \E p \in T : \A q \in T : Precedes(p, q)
  <1> DEFINE I == {p[1] : p \in T}
  <1>1. \A p \in T : p[1] \in Nat /\ p[2] \in Nat
    BY PositionsType
  <1>2. PICK i \in I : \A k \in I : i <= k
    <2>1. I \subseteq Nat /\ I # {}
      BY <1>1
    <2> QED
      BY <2>1, LeastNat
  <1> DEFINE J == {p[2] : p \in {q \in T : q[1] = i}}
  <1>3. PICK j \in J : \A k \in J : j <= k
    <2>1. J \subseteq Nat /\ J # {}
      BY <1>1, <1>2
    <2> QED
      BY <2>1, LeastNat
  <1>4. PICK p \in T : p[1] = i /\ p[2] = j
    BY <1>3
  <1>5. ASSUME NEW q \in T
        PROVE  Precedes(p, q)
    <2>1. i <= q[1] /\ (q[1] = i => j <= q[2])
      BY <1>2, <1>3
    <2> QED
      BY <1>1, <1>4, <2>1 DEF Precedes
  <1> QED
    BY <1>5

\* ... and one that findState meets first.
LEMMA FirstMet ==
  ASSUME NEW blocks \in Seq(Block), NEW T, T \subseteq Positions(blocks), T # {}
  PROVE  \E p \in T : \A q \in T : MetFirst(p, q)
  <1> DEFINE I == {p[1] : p \in T}
  <1>1. \A p \in T : p[1] \in 0..Len(blocks) /\ p[2] \in Nat
    BY PositionsType
  <1>2. PICK i \in I : \A k \in I : k <= i
    <2>1. I \subseteq 0..Len(blocks) /\ I # {} /\ Len(blocks) \in Nat
      BY <1>1
    <2> QED
      BY <2>1, GreatestNat
  <1> DEFINE J == {p[2] : p \in {q \in T : q[1] = i}}
  <1>3. PICK j \in J : \A k \in J : j <= k
    <2>1. J \subseteq Nat /\ J # {}
      BY <1>1, <1>2
    <2> QED
      BY <2>1, LeastNat
  <1>4. PICK p \in T : p[1] = i /\ p[2] = j
    BY <1>3
  <1>5. ASSUME NEW q \in T
        PROVE  MetFirst(p, q)
    <2>1. q[1] <= i /\ (q[1] = i => j <= q[2])
      BY <1>2, <1>3
    <2> QED
      BY <1>1, <1>4, <2>1 DEF MetFirst
  <1> QED
    BY <1>5

-----------------------------------------------------------------------------
(* What executing a transaction returns.                                   *)

\* findContract returns a creation of the contract, or nothing.
LEMMA FindContractType ==
  ASSUME NEW blocks \in Seq(Block), NEW contract,
         findContract(blocks, contract) # NoTx
  PROVE  findContract(blocks, contract) \in Creates
  <1> DEFINE found == Creations(blocks, contract)
  <1>1. found # {} /\ found \subseteq Positions(blocks)
    BY DEF findContract, Creations
  <1>2. \E p \in found : \A q \in found : Precedes(p, q)
    BY <1>1, FirstPosition
  <1>3. PICK p \in found : findContract(blocks, contract) = At(blocks, p)
    BY <1>1, <1>2 DEF findContract
  <1> QED
    BY <1>3 DEF Creations, Holds, Creates

\* findState returns a state, or nothing.
LEMMA FindStateType ==
  ASSUME NEW blocks \in Seq(Block), NEW contract, NEW keys \in SUBSET Keys
  PROVE  findState(blocks, contract, keys) \in States \cup {NoState}
  <1> DEFINE W(k) == Writers(blocks, contract, k)
  <1> DEFINE chosen(k) == CHOOSE p \in W(k) : \A q \in W(k) : MetFirst(p, q)
  <1>1. SUFFICES ASSUME \A k \in keys : W(k) # {}
                 PROVE  [k \in keys |-> At(blocks, chosen(k)).state[k]] \in States
    BY DEF findState
  <1>2. ASSUME NEW k \in keys
        PROVE  At(blocks, chosen(k)).state[k] \in Values
    <2>1. W(k) # {} /\ W(k) \subseteq Positions(blocks)
      BY <1>1 DEF Writers
    <2>2. \E p \in W(k) : \A q \in W(k) : MetFirst(p, q)
      BY <2>1, FirstMet
    <2>3. chosen(k) \in W(k)
      BY <2>2
    <2>4. At(blocks, chosen(k)) \in Tx /\ k \in DOMAIN At(blocks, chosen(k)).state
      BY <2>3 DEF Writers, Holds
    <2>5. At(blocks, chosen(k)).state \in States
      BY <2>4 DEF Tx
    <2>6. PICK ks \in SUBSET Keys : At(blocks, chosen(k)).state \in [ks -> Values]
      BY <2>5 DEF States
    <2> QED
      BY <2>4, <2>6
  <1>3. [k \in keys |-> At(blocks, chosen(k)).state[k]] \in [keys -> Values]
    BY <1>2
  <1> QED
    BY <1>3 DEF States

\* What contract code computes is a list of transactions, or it raises.
LEMMA OutcomeType ==
  ASSUME NEW blocks, NEW tx, NEW number
  PROVE  Outcome(blocks, tx, number) \in Seq(Tx) \cup {Raised}
  <1> DEFINE create == findContract(blocks, tx.contract)
  <1> DEFINE keys   == DOMAIN create.state
  <1> DEFINE state  == IF keys = {} THEN NoState
                       ELSE findState(Before(blocks, number), tx.contract, keys)
  <1>1. PICK result : result = Run(blocks, create, state, tx)
    OBVIOUS
  <1>2. Outcome(blocks, tx, number) =
          IF result \in Seq(Tx) THEN result ELSE Raised
    BY <1>1 DEF Outcome
  <1> QED
    BY <1>2

\* exec returns a list of what a block may hold.
LEMMA ExecType ==
  ASSUME NEW blocks \in Seq(Block), NEW tx \in Tx
  PROVE  exec(blocks, tx, 0) \in Seq(Elements)
  <1>1. <<tx>> \in Seq(Elements) /\ <<NoTx>> \in Seq(Elements)
    BY DEF Elements
  <1>2. CASE tx.kind # "invoke"
    BY <1>1, <1>2 DEF exec
  <1>3. CASE tx.kind = "invoke" /\ findContract(blocks, tx.contract) = NoTx
    BY <1>1, <1>3 DEF exec
  <1>4. CASE tx.kind = "invoke" /\ findContract(blocks, tx.contract) # NoTx
    <2>1. Outcome(blocks, tx, 0) \in Seq(Tx) \cup {Raised}
      BY OutcomeType
    <2>2. CASE Outcome(blocks, tx, 0) = Raised
      BY <1>1, <1>4, <2>2 DEF exec
    <2>3. CASE Outcome(blocks, tx, 0) # Raised
      <3>1. Outcome(blocks, tx, 0) \in Seq(Tx)
        BY <2>1, <2>3
      <3>2. Outcome(blocks, tx, 0) \in Seq(Elements)
        BY <3>1, SeqMonotonic DEF Elements
      <3>3. <<tx>> \o Outcome(blocks, tx, 0) \in Seq(Elements)
        BY <1>1, <3>2, ConcatProperties
      <3> QED
        BY <1>4, <2>3, <3>3 DEF exec
    <2> QED
      BY <2>2, <2>3
  <1> QED
    BY <1>2, <1>3, <1>4

=============================================================================
