------------------------------- MODULE MCRouter -------------------------------
(* Setups for the model checker: what users do in a network of three.      *)
EXTENDS Router

CONSTANTS a, b, d

Connect(n, q, i) == [op |-> "connect", by |-> n, to |-> q, id |-> i]
GetPeers(n, q) == [op |-> "getPeerList", by |-> n, to |-> q, id |-> 0]
Send(n, q, i) == [op |-> "send", by |-> n, to |-> q, id |-> i]
Stop(n, i) == [op |-> "stop", by |-> n, to |-> NoNode, id |-> i]
Tell(n, i) == [op |-> "broadcast", by |-> n, to |-> NoNode, id |-> i]

Setup(mesh, late, calls) == [mesh |-> mesh, late |-> late, calls |-> calls]

MCSetups == {
  \* tests/test_networking.py 309: a broadcast in a cycle of three
  Setup(FALSE, {},
        {Connect(a, b, 0), Connect(b, d, 0), Connect(d, a, 1), Tell(a, 1)}),
  \* two nodes that connect to each other
  Setup(FALSE, {}, {Connect(a, b, 0), Connect(b, a, 0), Tell(a, 0), Send(b, a, 1)}),
  \* a mesh that grows by itself
  Setup(TRUE, {}, {Connect(b, a, 0), Connect(d, a, 0), Tell(d, 0)}),
  \* a node that asks another for its peers
  Setup(FALSE, {}, {Connect(b, a, 0), GetPeers(d, a), Tell(b, 0)}),
  \* messages for a node that may not be there yet
  Setup(FALSE, {b}, {Send(a, b, 1), Send(a, b, 2), Send(a, b, 3)}),
  \* a node that stops, comes back, and is connected to again
  Setup(FALSE, {},
        {Connect(a, b, 0), Stop(b, 0), Connect(a, b, 1), Send(a, b, 1)}),
  \* a node that stops, comes back, and connects to its old peer
  Setup(FALSE, {},
        {Connect(a, b, 0), Stop(b, 1), Connect(b, a, 2), Send(b, a, 3)}),
  \* a node that sends a broadcast and leaves
  Setup(FALSE, {}, {Connect(a, b, 0), Connect(b, d, 0), Tell(a, 0), Stop(a, 0)}),
  \* messages of a router that stops and comes back
  Setup(FALSE, {b}, {Send(a, b, 0), Stop(a, 1), Send(a, b, 2)}),
  \* a node that leaves a mesh
  Setup(TRUE, {}, {Connect(b, a, 0), Connect(d, a, 0), Stop(b, 1)}),
  \* two nodes that connect to each other, and a third one
  Setup(FALSE, {},
        {Connect(a, b, 0), Connect(b, a, 0), Connect(d, a, 1), Send(b, a, 2)}),
  \* two nodes that connect to each other, one of which leaves
  Setup(FALSE, {}, {Connect(a, b, 0), Connect(b, a, 0), Stop(b, 1)})}

\* Two nodes that connect to each other, one of which stops.
MCLeaving == {
  Setup(FALSE, {}, {Connect(a, b, 0), Connect(b, a, 0), Stop(b, 1)})}

=============================================================================
