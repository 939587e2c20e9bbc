------------------------------ MODULE MCBevali ------------------------------
(* Values of the constants of Bevali for the model checker.                *)
EXTENDS Bevali, TLC

CONSTANTS c1, k1, t1, t2, peer1, peer2

Submitted(kind, id, state) ==
  [kind |-> kind, id |-> id, contract |-> c1, state |-> state, signed |-> TRUE]

\* Plain transactions, as for a user that stores data.
MCOnePlain == {Submitted("plain", t1, <<>>)}
MCTwoPlain == {Submitted("plain", t1, <<>>), Submitted("plain", t2, <<>>)}

\* A contract that counts, and one invocation of it.
MCCounter == {Submitted("create", t1, k1 :> 0), Submitted("invoke", t2, <<>>)}

\* The counter's code: it returns the update of its state, and raises when it
\* finds no state or has reached the end of its range.
MCCount(blocks, create, state, invoke) ==
  IF state = NoState \/ DOMAIN state = {} \/ state[k1] = 1 THEN Raised
  ELSE <<[kind |-> "update", id |-> invoke.id, contract |-> create.contract,
          state |-> k1 :> (state[k1] + 1), signed |-> TRUE]>>

\* Bounds: a few blocks, with no chain or one received besides.
MCTwoBlocks == {<<2, 0>>}
MCTwoBlocksOneChain == {<<2, 1>>}
MCFourBlocks == {<<4, 0>>}

\* Four blocks make two forks of two blocks; with three, two chains may come.
MCChains == {<<4, 0>>, <<3, 2>>}

\* The two peers are interchangeable.
PeerSymmetry == Permutations({peer1, peer2})

=============================================================================
