------------------------------ MODULE MCJoining ------------------------------
(* Setups for the model checker: who joins whom in a network of three.      *)
EXTENDS Joining

CONSTANTS a, b, d

Call(n, q) == [by |-> n, to |-> q]

Setup(members, miner, n, inTurn, calls) ==
  [members |-> members, miner |-> miner, blocks |-> n, inTurn |-> inTurn,
   calls |-> calls]

\* Two nodes that mine and join, a node that is called by the one with the
\* chain, a line of joins, a node that joins two that are connected, three that
\* all are, and a node that calls one without a chain first.
MCSetups == {
  Setup({a}, a, 2, TRUE, <<Call(b, a)>>),
  Setup({a}, a, 1, TRUE, <<Call(a, b)>>),
  Setup({a}, a, 0, TRUE, <<Call(b, a), Call(d, b)>>),
  Setup({a, b}, a, 1, TRUE, <<Call(d, b)>>),
  Setup({a, b, d}, a, 2, TRUE, <<>>),
  Setup({a}, a, 0, TRUE, <<Call(b, d), Call(b, a)>>)}

=============================================================================
