----------------------------- MODULE Blockchain -----------------------------
(***************************************************************************)
(* Blocks, chains of blocks and the methods of the classes Block and       *)
(* Blockchain (blockchain/block.py, blockchain/blockchain.py).             *)
(*                                                                         *)
(* A block names its parent by the hash of the parent's whole contents, so *)
(* a block determines all its ancestors.  The hash is taken to be          *)
(* injective: a block IS the sequence of the contents of its ancestors     *)
(* after the genesis block, followed by its own.  The genesis block is the *)
(* empty sequence, the block's number is the sequence's length, and two    *)
(* blocks are equal exactly when their hashes are.  Nonce and timestamp    *)
(* are left out; what the nonce achieves, the number of leading zeros of   *)
(* the hash, is the field "work" of the contents.                          *)
(***************************************************************************)
EXTENDS Integers, Sequences

CONSTANTS
  Miners,      \* the nodes that mine, by the port a block carries as its miner
  Targets,     \* proof-of-work targets, as the number of zeros they ask for
  TxIds,       \* what tells apart the transactions that are submitted
  ContractIds, \* names of contracts
  Keys,        \* keys of a contract's state
  Values,      \* values of a contract's state
  NoTx         \* the Python None that a failed invocation leaves in a block

ASSUME TargetsAssumption == Targets \subseteq Nat

-----------------------------------------------------------------------------
(* What a block carries.  One record type stands for the four transaction  *)
(* classes; a field a class does not have is constant for that kind.       *)

TxKinds == {"plain", "create", "update", "invoke"}

States == UNION {[ks -> Values] : ks \in SUBSET Keys}

Tx == [kind : TxKinds, id : TxIds, contract : ContractIds, state : States,
       signed : BOOLEAN]  \* signed: absent, or present and verifying

ASSUME NoTxAssumption == NoTx \notin Tx

Elements == Tx \cup {NoTx}

Content == [miner : Miners, work : Targets, data : Seq(Elements)]

Block == Seq(Content)

Genesis == <<>>

blockNumber(b) == Len(b)

Data(b) == IF b = Genesis THEN <<>> ELSE b[Len(b)].data

Follows(b, p) == b # Genesis /\ SubSeq(b, 1, Len(b) - 1) = p

Parent(b) == SubSeq(b, 1, Len(b) - 1)

-----------------------------------------------------------------------------
(* A Blockchain object: its target and its list of blocks.                 *)

Chain == [target : Targets, chain : Seq(Block)]

Blocks(c) == {c.chain[i] : i \in DOMAIN c.chain}

IsEmpty(c) == c.chain = <<>>

Newest(c) == c.chain[Len(c.chain)]

add_block(c, b) == [target |-> c.target, chain |-> Append(c.chain, b)]

block_valid(c, b) == b = Genesis \/ b[Len(b)].work >= c.target

\* Python's chain[-1] raises on an empty chain: callers test IsEmpty first.
block_belongs(c, b) == block_valid(c, b) /\ Follows(b, Newest(c))

is_block_in_chain(c, b) == b \in Blocks(c)

\* Mutant: only the newest block is looked at.
is_prev_hash_at_head(c, b) ==
  IF Follows(b, Newest(c)) THEN blockNumber(b) - 1 ELSE 0

\* The loop returns the number of the parent, or False when it has none; the
\* number of the genesis block is 0, which a condition reads as False too.
is_prev_hash_in_chain(c, b) ==
  IF \E p \in Blocks(c) : Follows(b, p) THEN blockNumber(b) - 1 ELSE 0

is_equal(c, d) == c.chain = d.chain

\* Mutant: the chain is believed.
no_integrity_check(c) == c \in Chain

check_integrity(c) ==
  \A i \in 2..Len(c.chain) : Follows(c.chain[i], c.chain[i - 1])

\* copy(blockNumber), for a number that is not 0 and within the chain.
copyUpTo(c, n) ==
  [target |-> c.target, chain |-> SubSeq(c.chain, 1, n + 1)]

\* The loop over nonces ends on a hash that meets the target of the chain.
mine_block(c, data, miner) ==
  Append(Newest(c), [miner |-> miner, work |-> c.target, data |-> data])

-----------------------------------------------------------------------------
(* The chain that leads from the genesis block to b, and the property that *)
(* a list of blocks is such a chain: each block stands at its number, so   *)
(* that the genesis block is the first, and names the one before it.       *)

Path(b) == [i \in 1..(Len(b) + 1) |-> SubSeq(b, 1, i - 1)]

Linked(blocks) ==
  \A i \in 1..Len(blocks) :
    /\ blockNumber(blocks[i]) = i - 1
    /\ i > 1 => Follows(blocks[i], blocks[i - 1])

=============================================================================
