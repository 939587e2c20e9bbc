---------------------------- MODULE Transactions ----------------------------
(***************************************************************************)
(* What a transaction does with a chain: executing it while a block is     *)
(* assembled, and validating it when a block arrives                       *)
(* (transactions/transaction.py).                                          *)
(*                                                                         *)
(* Contract code is Python text run by exec().  It is an unknown function  *)
(* of the chain, the contract, the state found for it and the invocation.  *)
(***************************************************************************)
EXTENDS Blockchain

CONSTANTS
  Run(_, _, _, _), \* Run(blocks, create, state, invoke): what the contract's
                   \* code computes, when it is given all this
  NoState,      \* the state of a contract that keeps none, or has none found
  Raised        \* the outcome of code that raises an exception

Creates == {tx \in Tx : tx.kind = "create"}

ASSUME RunAssumption == NoState \notin States /\ Raised \notin Seq(Tx)

-----------------------------------------------------------------------------
(* The transactions of a list of blocks, by their position: block, index.  *)

Positions(blocks) ==
  UNION {{<<i, j>> : j \in DOMAIN Data(blocks[i])} : i \in DOMAIN blocks}

At(blocks, p) == Data(blocks[p[1]])[p[2]]

Elems(s) == {s[i] : i \in DOMAIN s}

Holds(blocks, p, kinds, contract) ==
  /\ At(blocks, p) \in Tx
  /\ At(blocks, p).kind \in kinds
  /\ At(blocks, p).contract = contract

\* findContract: the first creation of the contract, in chain order.
Creations(blocks, contract) ==
  {p \in Positions(blocks) : Holds(blocks, p, {"create"}, contract)}

Precedes(p, q) == p[1] < q[1] \/ (p[1] = q[1] /\ p[2] <= q[2])

findContract(blocks, contract) ==
  LET found == Creations(blocks, contract)
  IN  IF found = {} THEN NoTx
      ELSE At(blocks, CHOOSE p \in found : \A q \in found : Precedes(p, q))

\* findState walks the blocks from the newest and, inside a block, the
\* transactions from the first: each key takes the value it meets first.
Writers(blocks, contract, key) ==
  {p \in Positions(blocks) :
     /\ Holds(blocks, p, {"create", "update"}, contract)
     /\ key \in DOMAIN At(blocks, p).state}

\* Mutant: the last writer in a block counts.
MetLast(p, q) == p[1] > q[1] \/ (p[1] = q[1] /\ p[2] >= q[2])

MetFirst(p, q) == p[1] > q[1] \/ (p[1] = q[1] /\ p[2] <= q[2])

findState(blocks, contract, keys) ==
  LET writers(k) == Writers(blocks, contract, k)
  IN  IF \E k \in keys : writers(k) = {} THEN NoState
      ELSE [k \in keys |->
              At(blocks, CHOOSE p \in writers(k) :
                           \A q \in writers(k) : MetFirst(p, q)).state[k]]

-----------------------------------------------------------------------------
(* exec and validate.                                                      *)

\* Mutants: no cut, and a cut one block too low.
Uncut(blocks, number) == IF number \in Nat THEN blocks ELSE <<>>
CutTooLow(blocks, number) ==
  IF number = 0 THEN blocks ELSE SubSeq(blocks, 1, number - 1)

\* The part of the chain that a state is looked up in: all of it for number
\* 0 (no number was given), the blocks below the number otherwise.
Before(blocks, number) ==
  IF number = 0 \/ number > Len(blocks) THEN blocks
  ELSE SubSeq(blocks, 1, number)

\* The outcome of an invocation of a contract that the chain holds: a list of
\* transactions, or an exception.  The state is looked up below the number, but
\* the code is given the whole chain.
Outcome(blocks, invoke, number) ==
  LET create == findContract(blocks, invoke.contract)
      keys   == DOMAIN create.state
      state  == IF keys = {} THEN NoState
                ELSE findState(Before(blocks, number), invoke.contract, keys)
      result == Run(blocks, create, state, invoke)
  IN  IF result \in Seq(Tx) THEN result ELSE Raised

\* exec: a transaction that is no invocation stands for itself.
exec(blocks, tx, number) ==
  IF tx.kind # "invoke" THEN <<tx>>
  ELSE IF findContract(blocks, tx.contract) = NoTx THEN <<NoTx>>
  ELSE IF Outcome(blocks, tx, number) = Raised THEN <<tx>>
  ELSE <<tx>> \o Outcome(blocks, tx, number)

\* Mutant: code that raises is let pass.
invocationPassed(blocks, tx, b) ==
  /\ findContract(blocks, tx.contract) # NoTx
  /\ NoTx \notin Elems(Data(b))
  /\ \/ Outcome(blocks, tx, blockNumber(b)) = Raised
     \/ Elems(Outcome(blocks, tx, blockNumber(b))) \subseteq Elems(Data(b))

\* validate of an invocation runs it again, on the chain below the block: it
\* fails on a missing contract, on code that raises and on a None in the block.
invocationValid(blocks, tx, b) ==
  /\ findContract(blocks, tx.contract) # NoTx
  /\ Outcome(blocks, tx, blockNumber(b)) # Raised
  /\ NoTx \notin Elems(Data(b))
  /\ Elems(Outcome(blocks, tx, blockNumber(b))) \subseteq Elems(Data(b))

validate(blocks, tx, b) ==
  CASE tx.kind = "update" -> TRUE
    [] tx.kind = "invoke" -> tx.signed /\ invocationValid(blocks, tx, b)
    [] OTHER -> tx.signed

\* The loop of newBlockTransactionsValid, which skips what is no transaction.
transactionsValid(blocks, b) ==
  \A tx \in Elems(Data(b)) \ {NoTx} : validate(blocks, tx, b)

=============================================================================
