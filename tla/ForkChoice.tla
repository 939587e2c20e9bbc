----------------------------- MODULE ForkChoice -----------------------------
(***************************************************************************)
(* What a node does with the blocks that come in, seen from outside: it    *)
(* gathers blocks and never forgets one that it has, and of what it has it *)
(* chooses a chain, from the genesis block on, which it leaves only for a  *)
(* strictly longer one (the rule of challengeMainChain and of              *)
(* processBlockchain in bevali/bevali.py).                                 *)
(***************************************************************************)
EXTENDS Blockchain

VARIABLES
  known,   \* the blocks that the node keeps, wherever it keeps them
  chosen   \* the chain that it takes for the main one

Init == known = {} /\ chosen = <<>>

learn ==
  /\ known \subseteq known'
  /\ UNCHANGED chosen

choose ==
  /\ known \subseteq known'
  /\ Len(chosen') > Len(chosen)
  /\ Linked(chosen')
  /\ \A i \in DOMAIN chosen' : chosen'[i] \in known'

Next == learn \/ choose

Spec == Init /\ [][Next]_<<known, chosen>>

=============================================================================
