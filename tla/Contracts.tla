----------------------------- MODULE Contracts -----------------------------
(***************************************************************************)
(* The chains that one node mines out of what users submit, each block     *)
(* from a batch that was executed on the chain before it (a round of       *)
(* minningThread in bevali/bevali.py): what exec puts into a block against *)
(* what validate says of it, and what becomes of such a chain when another *)
(* node's chain wins.  The loops of findState are written out as the code  *)
(* has them.                                                               *)
(***************************************************************************)
EXTENDS OldForks, SequencesExt

CONSTANTS
  Submissions,  \* what users submit, at any time and as often as they like
  Self,         \* the node that mines the chain
  Rival,        \* another node that mines
  Target,       \* the proof-of-work target of the chain
  BatchSize,    \* TRANSACTIONS_TO_MINE
  MaxLen        \* bound: the number of blocks

ASSUME ContractsAssumption ==
  /\ Submissions \subseteq Tx
  /\ {Self, Rival} \subseteq Miners
  /\ Self # Rival
  /\ Target \in Targets
  /\ BatchSize \in Nat
  /\ MaxLen \in Nat

VARIABLE blocks

-----------------------------------------------------------------------------
(* Mining.                                                                 *)

\* What the pool gives: some transactions, each once.
Batches ==
  {batch \in UNION {[1..n -> Submissions] : n \in 1..BatchSize} :
     \A i, j \in DOMAIN batch : batch[i] = batch[j] => i = j}

\* The batch is executed on the chain, one transaction after the other, and
\* the results are put together.
Mined(chain, batch) ==
  mine_block([target |-> Target, chain |-> chain],
             FlattenSeq([i \in DOMAIN batch |-> exec(chain, batch[i], 0)]),
             Self)

Init == blocks = <<Genesis>>

\* The block joins the chain, valid or not: a node that has disabled its checks
\* appends each block it mines (_mine, 170-173), and one that has not appends
\* those that are valid.
Next == /\ Len(blocks) < MaxLen
        /\ \E batch \in Batches : blocks' = Append(blocks, Mined(blocks, batch))

Spec == Init /\ [][Next]_blocks

-----------------------------------------------------------------------------
(* The loops of findState.                                                 *)

\* One transaction of a block: the keys it gives a value are met, and no
\* longer looked for.
Meet(tx, contract, keys, state) ==
  LET hit == IF tx \in Tx /\ tx.kind \in {"update", "create"}
                          /\ tx.contract = contract
             THEN DOMAIN tx.state \cap (keys \ DOMAIN state) ELSE {}
  IN  [k \in hit \cup DOMAIN state |->
         IF k \in hit THEN tx.state[k] ELSE state[k]]

InBlock(txs, contract, keys, state) ==
  LET met[j \in 0..Len(txs)] ==
        IF j = 0 THEN state ELSE Meet(txs[j], contract, keys, met[j - 1])
  IN  met[Len(txs)]

\* The blocks from the newest of them on; the walk ends at the first block
\* after which no key is looked for, with a state, or with none.
FromNewest(chain, contract, keys) ==
  LET n == Len(chain)
      met[i \in 0..n] ==
        IF i = 0 THEN [k \in {} |-> k]
        ELSE IF DOMAIN met[i - 1] = keys THEN met[i - 1]
        ELSE InBlock(Data(chain[n + 1 - i]), contract, keys, met[i - 1])
  IN  IF DOMAIN met[n] = keys THEN met[n] ELSE NoState

\* What the walk of findState returns, newest block first and first
\* transaction first within a block, dropping the keys it has met, is what the
\* definition by the first writer met says; and the contract found is not
\* younger than any other creation of it.
LookupsAsLooped ==
  \A contract \in ContractIds :
    /\ \A n \in 1..Len(blocks), keys \in (SUBSET Keys) \ {{}} :
         findState(Before(blocks, n), contract, keys) =
           FromNewest(Before(blocks, n), contract, keys)
    /\ \A p \in Creations(blocks, contract) :
         \E q \in Creations(blocks, contract) :
           At(blocks, q) = findContract(blocks, contract) /\ Precedes(q, p)

-----------------------------------------------------------------------------
(* exec against validate.                                                  *)

Fails(tx) ==
  /\ tx.kind = "invoke"
  /\ \/ findContract(blocks, tx.contract) = NoTx
     \/ Outcome(blocks, tx, 0) = Raised

\* It is signed, and what it returns, if it runs, need not be run in turn.
Sound(tx) ==
  /\ tx.signed
  /\ tx.kind = "invoke" =>
       \A result \in Elems(Outcome(blocks, tx, 0)) :
         result.kind = "update" \/ (result.kind # "invoke" /\ result.signed)

\* A block that is mined from a batch none of whose invocations fails is valid
\* on the chain it was executed on: what exec puts in the block is what
\* validate computes again, though exec looks at the whole chain and validate
\* at the part below the block's number, and though a batch may hold several
\* invocations, and creations, of one contract.
ExecutedIsValid ==
  \A batch \in Batches :
    (\A i \in DOMAIN batch : ~Fails(batch[i]) /\ Sound(batch[i])) =>
      transactionsValid(blocks, Mined(blocks, batch))

\* One invocation that fails makes the whole block invalid, unless it stands
\* alone as a None: nobody who checks, the miner included, takes such a block.
FailurePoisons ==
  \A batch \in Batches :
    /\ \E i \in DOMAIN batch : Fails(batch[i])
    /\ \E tx \in Elems(Data(Mined(blocks, batch))) \ {NoTx} : tx.kind = "invoke"
    => ~transactionsValid(blocks, Mined(blocks, batch))

\* The code that an invocation runs computes the same on the first blocks of
\* the chain as on the whole of it, whatever state it is given.
ReadsNoFurther(tx, n) ==
  LET part   == SubSeq(blocks, 1, n)
      create == findContract(part, tx.contract)
  IN  \A state \in States \cup {NoState} :
        Run(part, create, state, tx) = Run(blocks, create, state, tx)

\* A block that is valid where it was mined is valid on every longer chain that
\* starts the same, so it can still be checked when it arrives late: the state
\* that findState cuts at block.blockNumber is still the one it was executed on,
\* though blocks above have written it, and the contract is still the same.
\* Only code that looks at the chain itself, which exec hands it uncut
\* (transaction.py 189), may compute something else.
ValidityLasts ==
  \A n \in DOMAIN blocks, batch \in Batches :
    LET part == SubSeq(blocks, 1, n)
        b    == Mined(part, batch)
    IN  /\ transactionsValid(part, b)
        /\ \A tx \in Elems(Data(b)) \ {NoTx} :
             tx.kind = "invoke" => ReadsNoFurther(tx, n)
        => transactionsValid(blocks, b)

-----------------------------------------------------------------------------
(* The chain that loses.                                                   *)

\* A chain of so many blocks that leaves this one after n of them: the other
\* node has mined the rest, all from the same data.
Departed(n, length, data) ==
  LET content == [miner |-> Rival, work |-> Target, data |-> data]
  IN  [i \in 1..length |->
         IF i <= n THEN blocks[i]
         ELSE blocks[n] \o [j \in 1..(i - n) |-> content]]

\* When forks that the main chain has outgrown are dropped, no transaction of
\* theirs is lost: it is on the main chain or back in the pool; none comes back
\* that the main chain has, if the chains hold the same objects; and until then
\* no fork is dropped and nothing comes back (bevali.py 221-258).  Not so for a
\* fork that leaves the main chain at the genesis block: nothing of it comes
\* back.
NothingIsLost ==
  \A n \in 2..Len(blocks), length \in Len(blocks)..(Len(blocks) + ReleaseAfter),
     batch \in Batches, copies \in BOOLEAN :
    LET main == Departed(n, length, batch)
        released == releaseTransactions(main, <<blocks, SubSeq(blocks, 1, n)>>,
                                        copies)
        inPool == UNION Range(released.pool)
        On(chain) == UNION {Elems(Data(chain[i])) : i \in DOMAIN chain}
        since == On(SubSeq(main, n, Len(main)))
    IN  IF released.secondaryChains = <<>>
        THEN /\ On(blocks) \ {NoTx} \subseteq On(main) \cup inPool
             /\ ~copies => inPool \cap since = {}
        ELSE inPool = {}

=============================================================================
