------------------------------ MODULE Broadcast ------------------------------
(***************************************************************************)
(* What PeerRouter.send and PeerRouter.broadcast promise to the programs   *)
(* above them (networking/peer_router.py): data reaches only whom it is    *)
(* for, a receiver gets it at most once, and what one node sends to        *)
(* another arrives in the order of sending.  It may be lost.               *)
(*                                                                         *)
(* A router that stops forgets what it has received, and what it has sent: *)
(* when it comes back, its own broadcast may come back to it, and of what  *)
(* it sends then and what it sent before no order is promised.             *)
(***************************************************************************)
EXTENDS Integers, Sequences

CONSTANTS
  Nodes,   \* the routers
  Calls    \* what users call: [op, by, to, id], a send, a broadcast or a stop
           \* of a router; calls of another kind carry no data

VARIABLES
  sent,     \* the calls made so far, oldest first
  received  \* the data each node has received, oldest first

Elements(s) == {s[i] : i \in DOMAIN s}

Init == sent = <<>> /\ received = [n \in Nodes |-> <<>>]

submit(c) ==
  /\ c \notin Elements(sent)
  /\ sent' = Append(sent, c)
  /\ received' = IF c.op = "stop" THEN [received EXCEPT ![c.by] = <<>>]
                 ELSE received

\* Whether n is stopped by one of these calls.
Stopped(n, calls) == \E k \in calls : sent[k].op = "stop" /\ sent[k].by = n

\* Whether something sent after it, by the same node to the same one, is there.
Overtaken(i, n) ==
  \E j \in DOMAIN sent :
    /\ i < j /\ sent[j].op = "send" /\ sent[j].by = sent[i].by
    /\ sent[j] \in Elements(received[n])
    /\ ~Stopped(sent[i].by, i..j)

deliver(i, n) ==
  /\ \/ sent[i].op = "send" /\ sent[i].to = n /\ ~Overtaken(i, n)
     \/ /\ sent[i].op = "broadcast"
        /\ sent[i].by = n => Stopped(n, i..Len(sent))
  /\ sent[i] \notin Elements(received[n])
  /\ received' = [received EXCEPT ![n] = Append(@, sent[i])]
  /\ UNCHANGED sent

Next ==
  \/ \E c \in Calls : submit(c)
  \/ \E i \in DOMAIN sent, n \in Nodes : deliver(i, n)

Spec == Init /\ [][Next]_<<sent, received>>

=============================================================================
