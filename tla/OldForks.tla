------------------------------ MODULE OldForks ------------------------------
(***************************************************************************)
(* The transactions of forks that have lost go back to the pool            *)
(* (releaseTransactions in bevali/bevali.py with findCommonBlock and       *)
(* getListOfTransactionsInChain).  Its only call outside the tests is      *)
(* commented out, so these are operators and no action of module Bevali.   *)
(***************************************************************************)
EXTENDS Transactions, FiniteSetsExt

\* RELEASE_TRANSACTIONS_AFTER
ReleaseAfter == 2

\* Mutant: the head of the fork is taken for the common block.
headOfFork(main, fork) == Len(fork) - 1

\* Both pointers start at the head of the fork and go down together until the
\* hashes are equal; the index, as Python counts, on either chain.
findCommonBlock(main, fork) ==
  Max({i \in DOMAIN fork : i \in DOMAIN main /\ main[i] = fork[i]}) - 1

\* The transactions from an index on; index 0 is read as none given.
getListOfTransactionsInChain(blocks, fromIndex) ==
  IF fromIndex = 0 THEN {}
  ELSE (UNION {Elems(Data(blocks[i])) : i \in (fromIndex + 1)..Len(blocks)})
         \ {NoTx}

\* A transaction has neither __eq__ nor __hash__: the difference of the two sets
\* takes away only objects that are in both chains, and of those that are copies
\* of each other none.
toRelease(main, fork, copies) ==
  LET n == findCommonBlock(main, fork)
      onFork == getListOfTransactionsInChain(fork, n)
  IN  IF copies THEN onFork
      ELSE onFork \ getListOfTransactionsInChain(main, n)

DefinitelyAhead(main, forks) ==
  \A i \in DOMAIN forks : Len(main) >= Len(forks[i]) + ReleaseAfter

\* What the pool gets for each fork, and the forks that are left.
releaseTransactions(main, forks, copies) ==
  IF DefinitelyAhead(main, forks)
  THEN [pool |-> [i \in DOMAIN forks |-> toRelease(main, forks[i], copies)],
        secondaryChains |-> <<>>]
  ELSE [pool |-> [i \in DOMAIN forks |-> {}], secondaryChains |-> forks]

=============================================================================
