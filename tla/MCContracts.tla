---------------------------- MODULE MCContracts ----------------------------
(***************************************************************************)
(* Every chain of a few blocks that can be mined from one contract and     *)
(* three invocations of it.                                                *)
(***************************************************************************)
EXTENDS Contracts

CONSTANTS c1, k1, k2, t0, t1, t2, t3

\* The contract keeps two keys.  t1 writes one of them, and what it writes
\* depends on the chain; t2 writes both; t3 adds one to a key and raises at the
\* end of its range.

Submitted(kind, id, contract, state) ==
  [kind |-> kind, id |-> id, contract |-> contract, state |-> state,
   signed |-> TRUE]

MCSubmissions ==
  {Submitted("create", t0, c1, k1 :> 0 @@ k2 :> 0),
   Submitted("invoke", t1, c1, <<>>), Submitted("invoke", t2, c1, <<>>),
   Submitted("invoke", t3, c1, <<>>)}

MCRun(chain, create, state, invoke) ==
  LET updated(s) == <<Submitted("update", invoke.id, create.contract, s)>>
  IN  CASE state = NoState \/ DOMAIN state # {k1, k2} -> Raised
        [] invoke.id = t1 -> updated(k1 :> Len(chain) % 2)
        [] invoke.id = t2 -> updated(k1 :> 0 @@ k2 :> 1)
        [] invoke.id = t3 /\ state[k1] = 0 -> updated(k1 :> 1 @@ k2 :> 1)
        [] OTHER -> Raised

\* "Find contracts latest state" (transaction.py, 167): the value of a key is
\* the one that was written last.
StateIsLatest ==
  LET state == findState(blocks, c1, {k1})
  IN  state # NoState =>
        \E p \in Writers(blocks, c1, k1) :
          /\ At(blocks, p).state[k1] = state[k1]
          /\ \A q \in Writers(blocks, c1, k1) : Precedes(q, p)

=============================================================================
