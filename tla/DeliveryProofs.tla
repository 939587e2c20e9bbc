--------------------------- MODULE DeliveryProofs ---------------------------
(***************************************************************************)
(* Proof that the routers implement Broadcast, for any routers and any     *)
(* calls of their users.  Data on its way from one node to another passes  *)
(* through four stages: it waits to be sent, is under way, has been read,  *)
(* is received.  Of two data messages the one that is further on was       *)
(* called first, or the caller was stopped between the two calls; what     *)
(* makes this true of two connections is that all a node sends to another  *)
(* in one life goes on the connection that it keeps in its table, as long  *)
(* as the other one can read it there.  A broadcast is received once       *)
(* because what was received has been seen.                                *)
(***************************************************************************)
EXTENDS RouterProofs

USE DEF history, streams, sockets, contents

-----------------------------------------------------------------------------
(* The inductive invariants.                                               *)

\* A router of which one of these calls is the stop.
StopIn(calls, n, S) == \E k \in S : calls[k].op = "stop" /\ calls[k].by = n

\* The router that a was called of has not been stopped since.
Current(calls, a) ==
  \A i \in DOMAIN calls :
    calls[i] = a => ~StopIn(calls, a.by, i..Len(calls))

\* It is in order that b comes after a: b was called later, of another router, or
\* the router has been stopped between the two.
InTurn(calls, a, b) ==
  \A i, j \in DOMAIN calls :
    calls[i] = a /\ calls[j] = b /\ a.by = b.by /\ j <= i =>
      StopIn(calls, a.by, j..i)

Ahead(calls, A, B) == \A a \in A, b \in B : InTurn(calls, a, b)

\* The data for q that is in a sequence of messages.
Data(s, q) == {m.body : m \in {l \in ToSet(s) : l.kind = "data" /\ l.to = q}}

\* For each node, the data in s is in order.
InOrder(calls, s) ==
  \A i, j \in DOMAIN s :
    i < j /\ s[i].kind = "data" /\ s[j].kind = "data" /\ s[i].to = s[j].to =>
      InTurn(calls, s[i].body, s[j].body)

\* The messages of what a node has read.
Messages(s) == [i \in DOMAIN s |-> s[i].msg]

\* Data that nobody forwards.
Direct(a) == a.op = "send" \/ setup.mesh

\* The stages that data goes through on its way to q.
ToTransmit(n, q) == Data(txbuffer[n], q)
ToRead(c, q) == IF IsClosed(c, q) THEN {} ELSE Data(wire[c][q], q)
ToOpen(q) == Data(Messages(rxbuffer[q]), q)
Received(q) == {a \in ToSet(databuffer[q]) : Direct(a)}

\* A message is what its call says, and of a broadcast its router knows.
Carries(m) ==
  /\ m.kind = "data" =>
       /\ m.body.by = m.from
       /\ \/ m.body.op = "send" /\ m.body.to = m.to
          \/ m.body.op = "broadcast" /\ setup.mesh
  /\ m.kind = "flood" =>
       /\ m.body.op = "broadcast" /\ ~setup.mesh
       /\ m.body \in hasSeenMessage[m.body.by] \/ ~Current(made, m.body)

CarriesInv ==
  \A n \in Nodes :
    /\ \A m \in ToSet(txbuffer[n]) : Carries(m)
    /\ \A c \in created : \A m \in ToSet(wire[c][n]) : Carries(m)
    /\ \A r \in ToSet(rxbuffer[n]) : Carries(r.msg)

\* Each call is made once, and a broadcast that was received was seen.
OnceInv ==
  /\ \A i, j \in DOMAIN made : made[i] = made[j] => i = j
  /\ \A n \in Nodes : \A a \in ToSet(databuffer[n]) :
       Direct(a) \/ a \in hasSeenMessage[n]

\* The data for q is in order within each stage and between two of them.
OrderTo(q) ==
  /\ InOrder(made, Messages(rxbuffer[q])) /\ InOrder(made, txbuffer[q])
  /\ Ahead(made, Received(q), ToOpen(q))
  /\ \A n \in Nodes :
       Ahead(made, Received(q) \cup ToOpen(q), ToTransmit(n, q))
  /\ \A c \in created :
       /\ ~IsClosed(c, q) => InOrder(made, wire[c][q])
       /\ Ahead(made, Received(q) \cup ToOpen(q), ToRead(c, q))
       /\ \A n \in Nodes : Ahead(made, ToRead(c, q), ToTransmit(n, q))
       /\ \A k \in created \ {c} : Ahead(made, ToRead(c, q), ToRead(k, q))

OrderInv == \A q \in Nodes : OrderTo(q)

\* What n is still to send was called of it after it started.  What it has sent
\* to q since then is on the connection it keeps for q, if q can still read it.
CurrentInv ==
  \A n, q \in Nodes :
    /\ \A a \in ToTransmit(n, q) : Current(made, a)
    /\ \A c \in Between(n, q) : \A a \in ToRead(c, q) :
         Current(made, a) => peerAddressToSocket[n][q] = c

\* A connection that a node has closed, and has in its table or has read something
\* on that it has not opened yet, is closed at the other end.
GoneInv ==
  /\ \A n \in Nodes, c \in created :
       IsClosed(c, n) /\ (Unopened(n, c) \/ peerAddressToSocket[n][Other(c, n)] = c)
         => IsClosed(c, Other(c, n))
  /\ \A c \in backlog : ~IsClosed(c, c[2])

DInv == GoneInv /\ CarriesInv /\ OnceInv /\ OrderInv /\ CurrentInv

-----------------------------------------------------------------------------
(* Calls, in the order they were made.                                     *)

LEMMA OneMoreCall ==
  ASSUME NEW S, NEW calls \in Seq(S), NEW c \in S
  PROVE  /\ Append(calls, c) \in Seq(S) /\ Len(Append(calls, c)) = Len(calls) + 1
         /\ DOMAIN calls = 1..Len(calls) /\ Len(calls) \in Nat
         /\ DOMAIN Append(calls, c) = 1..(Len(calls) + 1)
         /\ Append(calls, c)[Len(calls) + 1] = c
         /\ \A i \in 1..Len(calls) : Append(calls, c)[i] = calls[i]
         /\ 1..(Len(calls) + 1) = 1..Len(calls) \cup {Len(calls) + 1}
  BY AppendProperties

\* A new call comes after all others and changes nothing in their order.
LEMMA TurnsStay ==
  ASSUME NEW S, NEW calls \in Seq(S), NEW c \in S, c \notin ToSet(calls),
         NEW a \in ToSet(calls)
  PROVE  /\ \A b \in ToSet(calls) :
              InTurn(calls, a, b) => InTurn(Append(calls, c), a, b)
         /\ InTurn(Append(calls, c), a, c)
  <1> DEFINE more == Append(calls, c)
  <1> DEFINE n == Len(calls)
  <1>1. /\ DOMAIN calls = 1..n /\ n \in Nat /\ DOMAIN more = 1..(n + 1)
        /\ more[n + 1] = c /\ \A i \in 1..n : more[i] = calls[i]
    BY OneMoreCall
  <1>2. \A i \in 1..(n + 1), b \in ToSet(calls) :
          more[i] = b => i \in 1..n /\ calls[i] = b
    BY <1>1 DEF ToSet
  <1>3. \A i, j \in 1..n : \A r : StopIn(calls, r, j..i) => StopIn(more, r, j..i)
    BY <1>1 DEF StopIn
  <1> HIDE DEF more, n
  <1>4. ASSUME NEW b \in ToSet(calls), InTurn(calls, a, b)
        PROVE  InTurn(more, a, b)
    <2> SUFFICES ASSUME NEW i \in 1..(n + 1), NEW j \in 1..(n + 1),
                        more[i] = a, more[j] = b, a.by = b.by, j <= i
                 PROVE  StopIn(more, a.by, j..i)
      BY <1>1 DEF InTurn
    <2>1. i \in 1..n /\ j \in 1..n /\ calls[i] = a /\ calls[j] = b
      BY <1>2
    <2> QED
      BY <1>1, <1>3, <1>4, <2>1 DEF InTurn
  <1>5. InTurn(more, a, c)
    <2> SUFFICES ASSUME NEW i \in 1..(n + 1), NEW j \in 1..(n + 1),
                        more[i] = a, more[j] = c, j <= i
                 PROVE  FALSE
      BY <1>1 DEF InTurn
    <2>1. i \in 1..n
      BY <1>2
    <2>2. j \in 1..n
      BY <1>1, <2>1
    <2> QED
      BY <1>1, <2>2 DEF ToSet
  <1> QED
    BY <1>4, <1>5 DEF more

\* Which calls are of the present life of their router.
LEMMA LivesStay ==
  ASSUME NEW S, NEW calls \in Seq(S), NEW c \in S, c \notin ToSet(calls)
  PROVE  /\ \A a \in ToSet(calls) :
              /\ Current(Append(calls, c), a) => Current(calls, a)
              /\ Current(calls, a) /\ (c.op # "stop" \/ c.by # a.by) =>
                   Current(Append(calls, c), a)
              /\ c.op = "stop" /\ c.by = a.by => ~Current(Append(calls, c), a)
         /\ c.op # "stop" => Current(Append(calls, c), c)
  <1> DEFINE more == Append(calls, c)
  <1> DEFINE n == Len(calls)
  <1>1. /\ DOMAIN calls = 1..n /\ n \in Nat /\ DOMAIN more = 1..(n + 1)
        /\ more[n + 1] = c /\ \A i \in 1..n : more[i] = calls[i]
        /\ Len(more) = n + 1
    BY OneMoreCall
  <1>2. \A i \in 1..(n + 1), b \in ToSet(calls) :
          more[i] = b => i \in 1..n /\ calls[i] = b
    BY <1>1 DEF ToSet
  <1>3. \A i \in 1..n : \A r :
          StopIn(more, r, i..(n + 1)) <=>
            StopIn(calls, r, i..n) \/ (c.op = "stop" /\ c.by = r)
    <2> SUFFICES ASSUME NEW i \in 1..n, NEW r
                 PROVE  StopIn(more, r, i..(n + 1)) <=>
                          StopIn(calls, r, i..n) \/ (c.op = "stop" /\ c.by = r)
      OBVIOUS
    <2>1. i..(n + 1) = i..n \cup {n + 1} /\ \A k \in i..n : more[k] = calls[k]
      BY <1>1
    <2> QED
      BY <1>1, <2>1 DEF StopIn
  <1>4. \A i \in 1..(n + 1) : more[i] = c => i = n + 1
    BY <1>1 DEF ToSet
  <1>5. \A a \in ToSet(calls) : \E i \in 1..n : calls[i] = a
    BY <1>1 DEF ToSet
  <1> HIDE DEF more, n
  <1>6. ASSUME NEW a \in ToSet(calls)
        PROVE  /\ Current(more, a) => Current(calls, a)
               /\ Current(calls, a) /\ (c.op # "stop" \/ c.by # a.by) =>
                    Current(more, a)
               /\ c.op = "stop" /\ c.by = a.by => ~Current(more, a)
    <2>1. Current(more, a) <=>
            \A i \in 1..n : calls[i] = a => ~StopIn(more, a.by, i..(n + 1))
      BY <1>1, <1>2 DEF Current
    <2>2. Current(calls, a) <=>
            \A i \in 1..n : calls[i] = a => ~StopIn(calls, a.by, i..n)
      BY <1>1 DEF Current, n
    <2> QED
      BY <1>3, <1>5, <2>1, <2>2
  <1>7. c.op # "stop" => Current(more, c)
    <2>1. (n + 1)..(n + 1) = {n + 1}
      BY <1>1
    <2> QED
      BY <1>1, <1>4, <2>1 DEF Current, StopIn
  <1> QED
    BY <1>6, <1>7 DEF more

\* Two calls of different lives are in turn either way, and so are two of
\* different routers.
LEMMA ApartLives ==
  ASSUME NEW S, NEW calls \in Seq(S), NEW a, NEW b,
         \A i, j \in DOMAIN calls : calls[i] = calls[j] => i = j,
         a.by # b.by \/ (~Current(calls, a) /\ Current(calls, b))
  PROVE  InTurn(calls, a, b) /\ InTurn(calls, b, a)
  <1>1. CASE a.by # b.by
    BY <1>1 DEF InTurn
  <1>2. CASE ~Current(calls, a) /\ Current(calls, b) /\ a.by = b.by
    <2>1. DOMAIN calls = 1..Len(calls) /\ Len(calls) \in Nat
      OBVIOUS
    <2>2. PICK x \in 1..Len(calls) :
            calls[x] = a /\ StopIn(calls, a.by, x..Len(calls))
      BY <1>2, <2>1 DEF Current
    <2>3. PICK k \in x..Len(calls) : calls[k].op = "stop" /\ calls[k].by = a.by
      BY <2>2 DEF StopIn
    <2>4. \A y \in 1..Len(calls) : calls[y] = b => k \notin y..Len(calls)
      BY <1>2, <2>1, <2>3 DEF Current, StopIn
    <2>5. \A y \in 1..Len(calls) : calls[y] = b => k < y
      BY <2>1, <2>3, <2>4
    <2>6. \A y \in 1..Len(calls) : calls[y] = a => y = x
      BY <2>1, <2>2
    <2>7. InTurn(calls, a, b)
      <3> SUFFICES ASSUME NEW i \in 1..Len(calls), NEW j \in 1..Len(calls),
                          calls[i] = a, calls[j] = b, j <= i
                   PROVE  FALSE
        BY <2>1 DEF InTurn
      <3>1. i = x /\ k < j
        BY <2>5, <2>6
      <3> QED
        BY <2>1, <2>3, <3>1
    <2>8. InTurn(calls, b, a)
      <3> SUFFICES ASSUME NEW i \in 1..Len(calls), NEW j \in 1..Len(calls),
                          calls[i] = b, calls[j] = a, j <= i
                   PROVE  StopIn(calls, b.by, j..i)
        BY <2>1 DEF InTurn
      <3>1. j = x /\ k < i
        BY <2>5, <2>6
      <3>2. k \in j..i
        BY <2>1, <2>3, <3>1
      <3> QED
        BY <1>2, <2>3, <3>2 DEF StopIn
    <2> QED
      BY <2>7, <2>8
  <1> QED
    BY <1>1, <1>2

-----------------------------------------------------------------------------
(* Sequences of messages and the data in them.                             *)

LEMMA DataIn ==
  \A s, q, a : a \in Data(s, q) <=>
    \E m \in ToSet(s) : m.kind = "data" /\ m.to = q /\ m.body = a
  BY DEF Data

LEMMA NoData ==
  /\ \A q : Data(<<>>, q) = {}
  /\ \A calls : InOrder(calls, <<>>)
  /\ ToSet(<<>>) = {}
  <1>1. DOMAIN <<>> = {} /\ ToSet(<<>>) = {}
    <2>1. <<>> \in Seq({}) /\ Len(<<>>) = 0 /\ DOMAIN <<>> = 1..0
      OBVIOUS
    <2> QED
      BY <2>1 DEF ToSet
  <1> QED
    BY <1>1, DataIn DEF InOrder

\* The first message leaves the others in order, and comes before them.
LEMMA DataOfTail ==
  ASSUME NEW S, NEW s \in Seq(S), s # <<>>
  PROVE  /\ \A q : Data(s, q) = Data(Tail(s), q) \cup
                     (IF Head(s).kind = "data" /\ Head(s).to = q
                      THEN {Head(s).body} ELSE {})
         /\ \A calls : InOrder(calls, s) =>
              /\ InOrder(calls, Tail(s))
              /\ Head(s).kind = "data" =>
                   Ahead(calls, {Head(s).body}, Data(Tail(s), Head(s).to))
  <1>1. /\ Len(s) \in Nat \ {0} /\ DOMAIN s = 1..Len(s) /\ Head(s) = s[1]
        /\ Tail(s) \in Seq(S) /\ DOMAIN Tail(s) = 1..(Len(s) - 1)
        /\ \A i \in 1..(Len(s) - 1) : Tail(s)[i] = s[i + 1] /\ i + 1 \in 1..Len(s)
    BY EmptySeq
  <1>2. ToSet(s) = {Head(s)} \cup ToSet(Tail(s))
    BY FirstOfSeq
  <1>3. ASSUME NEW q
        PROVE  Data(s, q) = Data(Tail(s), q) \cup
                 (IF Head(s).kind = "data" /\ Head(s).to = q
                  THEN {Head(s).body} ELSE {})
    BY <1>2 DEF Data
  <1> DEFINE t == Tail(s)
             n == Len(s)
             h == Head(s)
  <1>4. ASSUME NEW calls, InOrder(calls, s)
        PROVE  InOrder(calls, t)
    <2> SUFFICES ASSUME NEW i \in 1..(n - 1), NEW j \in 1..(n - 1), i < j,
                        t[i].kind = "data", t[j].kind = "data", t[i].to = t[j].to
                 PROVE  InTurn(calls, t[i].body, t[j].body)
      BY <1>1 DEF InOrder
    <2>1. t[i] = s[i + 1] /\ t[j] = s[j + 1] /\ i + 1 \in DOMAIN s
          /\ j + 1 \in DOMAIN s /\ i + 1 < j + 1
      BY <1>1
    <2> QED
      BY <1>4, <2>1 DEF InOrder
  <1>5. ASSUME NEW calls, InOrder(calls, s), h.kind = "data"
        PROVE  Ahead(calls, {h.body}, Data(t, h.to))
    <2> SUFFICES ASSUME NEW b \in Data(t, h.to)
                 PROVE  InTurn(calls, h.body, b)
      BY DEF Ahead
    <2>1. PICK m \in ToSet(t) : m.kind = "data" /\ m.to = h.to /\ m.body = b
      BY DataIn
    <2>2. PICK i \in 1..(n - 1) : m = t[i]
      BY <1>1, <2>1 DEF ToSet
    <2>3. s[1] = h /\ s[i + 1] = m /\ 1 \in DOMAIN s /\ i + 1 \in DOMAIN s
          /\ 1 < i + 1
      BY <1>1, <2>2
    <2> QED
      BY <1>5, <2>1, <2>3 DEF InOrder
  <1> QED
    BY <1>3, <1>4, <1>5

\* What comes behind others in a sequence.
LEMMA DataOfConcat ==
  ASSUME NEW S, NEW s \in Seq(S), NEW t \in Seq(S)
  PROVE  /\ ToSet(s \o t) = ToSet(s) \cup ToSet(t)
         /\ \A q : Data(s \o t, q) = Data(s, q) \cup Data(t, q)
         /\ \A calls :
              /\ InOrder(calls, s) /\ InOrder(calls, t)
              /\ \A m \in ToSet(t) : m.kind = "data" =>
                   Ahead(calls, Data(s, m.to), {m.body})
              => InOrder(calls, s \o t)
  <1> DEFINE u == s \o t
             n == Len(s)
             k == Len(t)
  <1>1. /\ n \in Nat /\ k \in Nat /\ DOMAIN s = 1..n /\ DOMAIN t = 1..k
        /\ DOMAIN u = 1..(n + k)
        /\ \A i \in 1..n : u[i] = s[i] /\ i \in 1..(n + k)
        /\ \A i \in 1..k : u[n + i] = t[i] /\ n + i \in 1..(n + k)
        /\ \A i \in 1..(n + k) : i \notin 1..n => i - n \in 1..k /\ n + (i - n) = i
    BY ConcatProperties
  <1> HIDE DEF u, n, k
  <1>2. \A i \in 1..(n + k) :
          \/ i \in 1..n /\ u[i] = s[i]
          \/ i \notin 1..n /\ i - n \in 1..k /\ u[i] = t[i - n]
    BY <1>1
  <1>3. ToSet(u) = ToSet(s) \cup ToSet(t)
    <2>1. ASSUME NEW x \in ToSet(u)
          PROVE  x \in ToSet(s) \cup ToSet(t)
      <3>1. PICK i \in 1..(n + k) : x = u[i]
        BY <1>1, <2>1 DEF ToSet
      <3> QED
        BY <1>1, <1>2, <3>1 DEF ToSet
    <2>2. ASSUME NEW x \in ToSet(s)
          PROVE  x \in ToSet(u)
      <3>1. PICK i \in 1..n : x = s[i]
        BY <1>1, <2>2 DEF ToSet
      <3> QED
        BY <1>1, <3>1 DEF ToSet
    <2>3. ASSUME NEW x \in ToSet(t)
          PROVE  x \in ToSet(u)
      <3>1. PICK i \in 1..k : x = t[i]
        BY <1>1, <2>3 DEF ToSet
      <3>2. u[n + i] = x /\ n + i \in DOMAIN u
        BY <1>1, <3>1
      <3> QED
        BY <3>2 DEF ToSet
    <2> QED
      BY <2>1, <2>2, <2>3
  <1>4. \A q : Data(u, q) = Data(s, q) \cup Data(t, q)
    BY <1>3 DEF Data
  <1>5. ASSUME NEW calls, InOrder(calls, s), InOrder(calls, t),
               \A m \in ToSet(t) : m.kind = "data" =>
                 Ahead(calls, Data(s, m.to), {m.body})
        PROVE  InOrder(calls, u)
    <2> SUFFICES ASSUME NEW i \in 1..(n + k), NEW j \in 1..(n + k), i < j,
                        u[i].kind = "data", u[j].kind = "data", u[i].to = u[j].to
                 PROVE  InTurn(calls, u[i].body, u[j].body)
      BY <1>1 DEF InOrder
    <2>1. CASE j \in 1..n
      <3>1. i \in 1..n
        BY <1>1, <2>1
      <3> QED
        BY <1>1, <1>5, <2>1, <3>1 DEF InOrder
    <2>2. CASE i \notin 1..n
      <3>1. j \notin 1..n /\ i - n < j - n
        BY <1>1, <2>2
      <3>2. /\ i - n \in 1..k /\ j - n \in 1..k
            /\ u[i] = t[i - n] /\ u[j] = t[j - n]
        BY <1>2, <2>2, <3>1
      <3>3. PICK x \in 1..k, y \in 1..k : u[i] = t[x] /\ u[j] = t[y] /\ x < y
        BY <3>1, <3>2
      <3>4. /\ x \in DOMAIN t /\ y \in DOMAIN t /\ t[x].kind = "data"
            /\ t[y].kind = "data" /\ t[x].to = t[y].to
        BY <1>1, <3>3
      <3>5. InTurn(calls, t[x].body, t[y].body)
        BY <1>5, <3>3, <3>4 DEF InOrder
      <3> QED
        BY <3>3, <3>5
    <2>3. CASE i \in 1..n /\ j \notin 1..n
      <3>1. u[i] = s[i] /\ s[i] \in ToSet(s)
        BY <1>1, <2>3 DEF ToSet
      <3>2. u[j] = t[j - n] /\ t[j - n] \in ToSet(t)
        BY <1>1, <1>2, <2>3 DEF ToSet
      <3>3. u[i].body \in Data(s, u[j].to)
        BY <3>1, DataIn
      <3> QED
        BY <1>5, <3>2, <3>3 DEF Ahead
    <2> QED
      BY <2>1, <2>2, <2>3
  <1> QED
    BY <1>3, <1>4, <1>5 DEF u

\* One message, if it is in order behind the others.
LEMMA DataOfAppend ==
  ASSUME NEW S, NEW s \in Seq(S), NEW m \in S
  PROVE  /\ ToSet(Append(s, m)) = ToSet(s) \cup {m}
         /\ \A q : Data(Append(s, m), q) = Data(s, q) \cup
                     (IF m.kind = "data" /\ m.to = q THEN {m.body} ELSE {})
         /\ \A calls :
              /\ InOrder(calls, s)
              /\ m.kind = "data" => Ahead(calls, Data(s, m.to), {m.body})
              => InOrder(calls, Append(s, m))
  <1>1. <<m>> \in Seq(S) /\ Append(s, m) = s \o <<m>>
    BY AppendIsConcat
  <1>2. DOMAIN <<m>> = {1} /\ <<m>>[1] = m
    OBVIOUS
  <1>3. ToSet(<<m>>) = {m}
    BY <1>2 DEF ToSet
  <1>4. \A calls : InOrder(calls, <<m>>)
    BY <1>2 DEF InOrder
  <1>5. \A q : Data(<<m>>, q) =
                 IF m.kind = "data" /\ m.to = q THEN {m.body} ELSE {}
    BY <1>3 DEF Data
  <1>6. /\ ToSet(s \o <<m>>) = ToSet(s) \cup ToSet(<<m>>)
        /\ \A q : Data(s \o <<m>>, q) = Data(s, q) \cup Data(<<m>>, q)
        /\ \A calls :
             /\ InOrder(calls, s) /\ InOrder(calls, <<m>>)
             /\ \A l \in ToSet(<<m>>) : l.kind = "data" =>
                  Ahead(calls, Data(s, l.to), {l.body})
             => InOrder(calls, s \o <<m>>)
    <2> DEFINE t == <<m>>
    <2>1. t \in Seq(S)
      BY <1>1
    <2> HIDE DEF t
    <2>2. /\ ToSet(s \o t) = ToSet(s) \cup ToSet(t)
          /\ \A q : Data(s \o t, q) = Data(s, q) \cup Data(t, q)
          /\ \A calls :
               /\ InOrder(calls, s) /\ InOrder(calls, t)
               /\ \A l \in ToSet(t) : l.kind = "data" =>
                    Ahead(calls, Data(s, l.to), {l.body})
               => InOrder(calls, s \o t)
      BY <2>1, DataOfConcat
    <2> QED
      BY <2>2 DEF t
  <1> QED
    BY <1>1, <1>3, <1>4, <1>5, <1>6

\* Messages that are no data do not change the order.
LEMMA WithoutData ==
  ASSUME NEW s, \A m \in ToSet(s) : m.kind # "data"
  PROVE  (\A q : Data(s, q) = {}) /\ \A calls : InOrder(calls, s)
  BY DEF Data, InOrder, ToSet

LEMMA SeqIsFunction ==
  ASSUME NEW S, NEW s \in Seq(S)
  PROVE  s = [i \in 1..Len(s) |-> s[i]]
  OBVIOUS

\* The messages of what was read, when the first is opened or one more is read.
LEMMA MessagesOf ==
  ASSUME NEW S, NEW s \in Seq([msg : S, sock : created])
  PROVE  /\ Messages(s) \in Seq(S)
         /\ ToSet(Messages(s)) = {r.msg : r \in ToSet(s)}
         /\ s # <<>> => /\ Messages(s) # <<>> /\ Head(Messages(s)) = Head(s).msg
                        /\ Messages(Tail(s)) = Tail(Messages(s))
  <1> DEFINE t == Messages(s)
             n == Len(s)
  <1>1. n \in Nat /\ DOMAIN s = 1..n /\ \A i \in 1..n : s[i].msg \in S
    <2>1. \A i \in 1..n : s[i] \in [msg : S, sock : created]
      BY ElementOfSeq
    <2> QED
      BY <2>1
  <1>2. t \in [1..n -> S]
    BY <1>1 DEF Messages
  <1>3. t \in Seq(S) /\ Len(t) = n
    BY <1>1, <1>2
  <1>4. ToSet(t) = {r.msg : r \in ToSet(s)}
    BY <1>1 DEF ToSet, Messages
  <1>5. ASSUME s # <<>>
        PROVE  /\ t # <<>> /\ Head(t) = Head(s).msg
               /\ Messages(Tail(s)) = Tail(t)
    <2>1. n \in Nat \ {0}
      BY <1>5, EmptySeq
    <2>2. Head(s) = s[1] /\ 1 \in 1..n /\ t[1] = s[1].msg
      BY <1>1, <2>1 DEF Messages
    <2>3. t # <<>>
      BY <1>3, <2>1
    <2>4. Head(t) = t[1]
      BY <1>3, <2>1
    <2>5. /\ DOMAIN Tail(s) = 1..(n - 1)
          /\ \A i \in 1..(n - 1) : Tail(s)[i] = s[i + 1] /\ i + 1 \in 1..n
      BY <1>1, <2>1
    <2>6. /\ Tail(t) \in Seq(S) /\ Len(Tail(t)) = n - 1
          /\ \A i \in 1..(n - 1) : Tail(t)[i] = t[i + 1]
      BY <1>3, <2>1, <2>3, HeadTailProperties
    <2>7. Messages(Tail(s)) = [i \in 1..(n - 1) |-> s[i + 1].msg]
      BY <2>5 DEF Messages
    <2>8. Tail(t) = [i \in 1..(n - 1) |-> t[i + 1]]
      <3>1. Tail(t) = [i \in 1..(n - 1) |-> Tail(t)[i]]
        BY <2>6, SeqIsFunction
      <3> QED
        BY <2>6, <3>1
    <2>9. \A i \in 1..(n - 1) : t[i + 1] = s[i + 1].msg
      BY <1>1, <2>5 DEF Messages
    <2> QED
      BY <2>2, <2>3, <2>4, <2>7, <2>8, <2>9
  <1> QED
    BY <1>3, <1>4, <1>5

LEMMA MessagesAppend ==
  ASSUME NEW S, NEW s \in Seq([msg : S, sock : created]),
         NEW r \in [msg : S, sock : created]
  PROVE  Messages(Append(s, r)) = Append(Messages(s), r.msg)
  <1> DEFINE n == Len(s)
  <1>1. /\ n \in Nat /\ DOMAIN s = 1..n /\ DOMAIN Append(s, r) = 1..(n + 1)
        /\ Append(s, r)[n + 1] = r /\ \A i \in 1..n : Append(s, r)[i] = s[i]
        /\ 1..(n + 1) = 1..n \cup {n + 1}
    BY OneMoreCall
  <1>2. Messages(s) \in Seq(S) /\ Len(Messages(s)) = n
    <2>1. Messages(s) \in Seq(S)
      BY MessagesOf
    <2>2. DOMAIN Messages(s) = 1..n
      BY <1>1 DEF Messages
    <2> QED
      BY <1>1, <2>1, <2>2, LenProperties
  <1>3. /\ DOMAIN Append(Messages(s), r.msg) = 1..(n + 1)
        /\ Append(Messages(s), r.msg)[n + 1] = r.msg
        /\ \A i \in 1..n : Append(Messages(s), r.msg)[i] = Messages(s)[i]
        /\ Append(Messages(s), r.msg) =
             [i \in 1..(n + 1) |-> Append(Messages(s), r.msg)[i]]
    <2>1. r.msg \in S
      OBVIOUS
    <2> QED
      BY <1>2, <2>1, AppendProperties
  <1>4. \A i \in 1..n : Messages(s)[i] = s[i].msg
    BY <1>1 DEF Messages
  <1>5. Messages(Append(s, r)) = [i \in 1..(n + 1) |-> Append(s, r)[i].msg]
    BY <1>1 DEF Messages
  <1> QED
    BY <1>1, <1>3, <1>4, <1>5

-----------------------------------------------------------------------------
(* The stages.                                                             *)

LEMMA ReadTypes ==
  ASSUME RInv, NEW n \in Nodes
  PROVE  rxbuffer[n] \in Seq([msg : Letters, sock : created])
  <1> DEFINE S == [msg : Letters, sock : created]
  <1>1. rxbuffer[n] \in Seq(Opened(n))
    BY DEF RInv, RxInv
  <1>2. Opened(n) \subseteq S
    BY DEF Opened
  <1> HIDE DEF S
  <1>3. rxbuffer[n] \in Seq(S)
    BY <1>1, <1>2, WiderSeq
  <1> QED
    BY <1>3 DEF S

\* All data is a call's, of the node that it comes from.
LEMMA StageTypes ==
  ASSUME RInv, CarriesInv
  PROVE  /\ \A n, q \in Nodes : \A a \in ToTransmit(n, q) :
              a \in ToSet(made) /\ a.by = n /\ q # n
         /\ \A q \in Nodes, c \in created : \A a \in ToRead(c, q) :
              /\ a \in ToSet(made) /\ a.by \in Nodes \ {q}
              /\ c \in Between(a.by, q)
         /\ \A q \in Nodes : \A a \in ToOpen(q) : a \in ToSet(made)
         /\ \A q \in Nodes : \A a \in Received(q) : a \in ToSet(made)
  <1>1. ASSUME NEW n \in Nodes, NEW q \in Nodes, NEW a \in ToTransmit(n, q)
        PROVE  a \in ToSet(made) /\ a.by = n /\ q # n
    <2>1. PICK m \in ToSet(txbuffer[n]) : m.kind = "data" /\ m.to = q /\ m.body = a
      BY DataIn DEF ToTransmit
    <2>2. m \in Outgoing(n)
      BY InToSet DEF RInv, TxInv
    <2>3. m \in Letters /\ m.from = n /\ Carries(m)
      BY <2>1, <2>2 DEF Outgoing, CarriesInv
    <2> QED
      BY <2>1, <2>3, LetterTypes DEF Carries
  <1>2. ASSUME NEW q \in Nodes, NEW c \in created, NEW a \in ToRead(c, q)
        PROVE  /\ a \in ToSet(made) /\ a.by \in Nodes \ {q}
               /\ c \in Between(a.by, q)
    <2>1. PICK m \in ToSet(wire[c][q]) : m.kind = "data" /\ m.to = q /\ m.body = a
      BY DataIn DEF ToRead
    <2>2. m \in Incoming(q, c)
      BY InToSet DEF RInv, WireInv
    <2>3. m \in Letters /\ {m.from, q} = {c[1], c[2]} /\ Carries(m)
      BY <2>1, <2>2 DEF Incoming, CarriesInv
    <2> QED
      BY <2>1, <2>3, LetterTypes DEF Carries, Between
  <1>3. ASSUME NEW q \in Nodes, NEW a \in ToOpen(q)
        PROVE  a \in ToSet(made)
    <2>1. rxbuffer[q] \in Seq([msg : Letters, sock : created])
      BY ReadTypes
    <2>2. PICK m \in ToSet(Messages(rxbuffer[q])) : m.kind = "data" /\ m.body = a
      BY DataIn DEF ToOpen
    <2>3. m \in Letters
      BY <2>1, <2>2, MessagesOf, InToSet
    <2> QED
      BY <2>2, <2>3, LetterTypes
  <1>4. ASSUME NEW q \in Nodes, NEW a \in Received(q)
        PROVE  a \in ToSet(made)
    BY InToSet DEF RInv, ContentsInv, Received
  <1> QED
    BY <1>1, <1>2, <1>3, <1>4

\* The oldest message of the buffer leaves it.
LEMMA TxTail ==
  ASSUME RInv, NEW n \in Nodes, NEW m, Transmit(n, m)
  PROVE  /\ \A p, q \in Nodes :
              ToTransmit(p, q) = ToTransmit(p, q)' \cup
                (IF p = n /\ m.kind = "data" /\ m.to = q THEN {m.body} ELSE {})
         /\ \A p \in Nodes :
              /\ InOrder(made, txbuffer[p]) => InOrder(made, txbuffer'[p])
              /\ ToSet(txbuffer'[p]) \subseteq ToSet(txbuffer[p])
         /\ m \in ToSet(txbuffer[n])
         /\ InOrder(made, txbuffer[n]) /\ m.kind = "data" =>
              Ahead(made, {m.body}, ToTransmit(n, m.to)')
  <1>1. /\ txbuffer[n] # <<>> /\ m = Head(txbuffer[n])
        /\ txbuffer' = [txbuffer EXCEPT ![n] = Tail(@)]
    BY DEF Transmit
  <1>2. DOMAIN txbuffer = Nodes /\ txbuffer[n] \in Seq(Outgoing(n))
    BY DEF RInv, TxInv
  <1>3. /\ txbuffer'[n] = Tail(txbuffer[n])
        /\ \A p \in Nodes \ {n} : txbuffer'[p] = txbuffer[p]
    BY <1>1, <1>2
  <1>4. /\ \A q : Data(txbuffer[n], q) = Data(txbuffer'[n], q) \cup
                    (IF m.kind = "data" /\ m.to = q THEN {m.body} ELSE {})
        /\ InOrder(made, txbuffer[n]) =>
             /\ InOrder(made, txbuffer'[n])
             /\ m.kind = "data" => Ahead(made, {m.body}, Data(txbuffer'[n], m.to))
    BY <1>1, <1>2, <1>3, DataOfTail
  <1>5. ToSet(txbuffer[n]) = {m} \cup ToSet(txbuffer'[n])
    BY <1>1, <1>2, <1>3, FirstOfSeq
  <1>6. \A p, q : ToTransmit(p, q)' = Data(txbuffer'[p], q)
    BY DEF ToTransmit
  <1> QED
    BY <1>3, <1>4, <1>5, <1>6 DEF ToTransmit

LEMMA TxShrinks ==
  ASSUME RInv, NEW n \in Nodes, NEW m, Transmit(n, m)
  PROVE  /\ \A p, q \in Nodes : ToTransmit(p, q)' \subseteq ToTransmit(p, q)
         /\ m \in Outgoing(n)
         /\ UNCHANGED <<setup, made, up, rxbuffer, databuffer, hasSeenMessage>>
  <1>1. \A p, q \in Nodes : ToTransmit(p, q)' \subseteq ToTransmit(p, q)
    <2>1. \A p \in Nodes : ToSet(txbuffer'[p]) \subseteq ToSet(txbuffer[p])
      BY TxTail
    <2> QED
      BY <2>1 DEF ToTransmit, Data
  <1>2. m \in ToSet(txbuffer[n])
    BY TxTail
  <1>3. m \in Outgoing(n)
    BY <1>2, InToSet DEF RInv, TxInv
  <1> QED
    BY <1>1, <1>3 DEF Transmit

\* The two ends of a connection name it whichever comes first.
LEMMA EndsApart ==
  ASSUME NEW c, NEW n, NEW p, NEW q, n # q,
         c \in Between(n, q), c \in Between(p, q)
  PROVE  p = n
  <1>1. {n, q} = {p, q}
    BY DEF Between
  <1> QED
    BY <1>1

\* Messages are put on the buffer.
LEMMA TxPut ==
  ASSUME RInv, NEW n \in Nodes, NEW s \in Seq(Outgoing(n)'), put(n, s)
  PROVE  /\ \A p, q \in Nodes :
              ToTransmit(p, q)' = ToTransmit(p, q) \cup
                (IF p = n THEN Data(s, q) ELSE {})
         /\ \A p \in Nodes :
              /\ p # n => txbuffer'[p] = txbuffer[p]
              /\ ToSet(txbuffer'[p]) = ToSet(txbuffer[p]) \cup
                                         (IF p = n THEN ToSet(s) ELSE {})
         /\ \A calls :
              /\ InOrder(calls, txbuffer[n]) /\ InOrder(calls, s)
              /\ \A m \in ToSet(s) : m.kind = "data" =>
                   Ahead(calls, ToTransmit(n, m.to), {m.body})
              => InOrder(calls, txbuffer'[n])
  <1> DEFINE S == Outgoing(n) \cup Outgoing(n)'
             t == txbuffer[n]
  <1>1. DOMAIN txbuffer = Nodes /\ t \in Seq(S) /\ s \in Seq(S)
    BY WiderSeq DEF RInv, TxInv
  <1>2. txbuffer'[n] = t \o s /\ \A p \in Nodes \ {n} : txbuffer'[p] = txbuffer[p]
    BY <1>1 DEF put
  <1>3. \A p, q : /\ ToTransmit(p, q)' = Data(txbuffer'[p], q)
                  /\ ToTransmit(p, q) = Data(txbuffer[p], q)
    BY DEF ToTransmit
  <1> HIDE DEF S
  <1>4. /\ ToSet(t \o s) = ToSet(t) \cup ToSet(s)
        /\ \A q : Data(t \o s, q) = Data(t, q) \cup Data(s, q)
        /\ \A calls :
             /\ InOrder(calls, t) /\ InOrder(calls, s)
             /\ \A m \in ToSet(s) : m.kind = "data" =>
                  Ahead(calls, Data(t, m.to), {m.body})
             => InOrder(calls, t \o s)
    <2> HIDE DEF t
    <2> QED
      BY <1>1, DataOfConcat
  <1> QED
    BY <1>2, <1>3, <1>4

\* The oldest message that was read is taken from the buffer.
LEMMA RxTail ==
  ASSUME RInv, NEW n \in Nodes, rxbuffer[n] # <<>>, NEW e, e = Head(rxbuffer[n]),
         rxbuffer' = [rxbuffer EXCEPT ![n] = Tail(@)]
  PROVE  /\ \A q \in Nodes :
              /\ ToOpen(q) = ToOpen(q)' \cup
                   (IF q = n /\ e.msg.kind = "data" THEN {e.msg.body} ELSE {})
              /\ InOrder(made, Messages(rxbuffer[q])) =>
                   InOrder(made, Messages(rxbuffer'[q]))
              /\ ToSet(rxbuffer'[q]) \subseteq ToSet(rxbuffer[q])
         /\ e \in ToSet(rxbuffer[n])
         /\ InOrder(made, Messages(rxbuffer[n])) /\ e.msg.kind = "data" =>
              Ahead(made, {e.msg.body}, ToOpen(n)')
  <1> DEFINE s == rxbuffer[n]
  <1>1. /\ DOMAIN rxbuffer = Nodes /\ s \in Seq([msg : Letters, sock : created])
        /\ s \in Seq(Opened(n))
    BY ReadTypes DEF RInv, RxInv
  <1>2. rxbuffer'[n] = Tail(s) /\ \A q \in Nodes \ {n} : rxbuffer'[q] = rxbuffer[q]
    BY <1>1
  <1>3. e \in Opened(n) /\ ToSet(s) = {e} \cup ToSet(Tail(s))
    BY <1>1, FirstOfSeq
  <1>4. e.msg.to = n
    BY <1>3 DEF Opened, Incoming
  <1>5. \A q : /\ ToOpen(q)' = Data(Messages(rxbuffer'[q]), q)
               /\ ToOpen(q) = Data(Messages(rxbuffer[q]), q)
    BY DEF ToOpen, Messages
  <1>6. /\ Messages(s) \in Seq(Letters) /\ Messages(s) # <<>>
        /\ Head(Messages(s)) = e.msg /\ Messages(Tail(s)) = Tail(Messages(s))
    BY <1>1, MessagesOf
  <1>7. /\ \A q : Data(Messages(s), q) = Data(Messages(Tail(s)), q) \cup
                    (IF e.msg.kind = "data" /\ e.msg.to = q
                     THEN {e.msg.body} ELSE {})
        /\ InOrder(made, Messages(s)) =>
             /\ InOrder(made, Messages(Tail(s)))
             /\ e.msg.kind = "data" =>
                  Ahead(made, {e.msg.body}, Data(Messages(Tail(s)), e.msg.to))
    <2> DEFINE u == Messages(s)
    <2>1. u \in Seq(Letters) /\ u # <<>> /\ Head(u) = e.msg
          /\ Messages(Tail(s)) = Tail(u)
      BY <1>6
    <2> HIDE DEF u
    <2>2. /\ \A q : Data(u, q) = Data(Tail(u), q) \cup
                      (IF Head(u).kind = "data" /\ Head(u).to = q
                       THEN {Head(u).body} ELSE {})
          /\ InOrder(made, u) =>
               /\ InOrder(made, Tail(u))
               /\ Head(u).kind = "data" =>
                    Ahead(made, {Head(u).body}, Data(Tail(u), Head(u).to))
      BY <2>1, DataOfTail
    <2>3. /\ \A q : Data(u, q) = Data(Messages(Tail(s)), q) \cup
                      (IF e.msg.kind = "data" /\ e.msg.to = q
                       THEN {e.msg.body} ELSE {})
          /\ InOrder(made, u) =>
               /\ InOrder(made, Messages(Tail(s)))
               /\ e.msg.kind = "data" =>
                    Ahead(made, {e.msg.body}, Data(Messages(Tail(s)), e.msg.to))
      BY <2>1, <2>2
    <2> QED
      BY <2>3 DEF u
  <1> QED
    BY <1>2, <1>3, <1>4, <1>5, <1>7

\* The oldest message on a connection is taken from it.
LEMMA WireTail ==
  ASSUME RInv, NEW n \in Nodes, NEW c \in created, wire[c][n] # <<>>,
         NEW m, m = Head(wire[c][n]), wire' = [wire EXCEPT ![c][n] = Tail(@)]
  PROVE  /\ \A k \in created, q \in Nodes :
              /\ Data(wire'[k][q], q) \subseteq Data(wire[k][q], q)
              /\ InOrder(made, wire[k][q]) => InOrder(made, wire'[k][q])
              /\ ToSet(wire'[k][q]) \subseteq ToSet(wire[k][q])
         /\ m \in ToSet(wire[c][n]) /\ m \in Incoming(n, c)
         /\ m.kind = "data" => m.body \in Data(wire[c][n], n)
         /\ InOrder(made, wire[c][n]) /\ m.kind = "data" =>
              Ahead(made, {m.body}, Data(wire'[c][n], n))
  <1> DEFINE s == wire[c][n]
  <1>1. /\ DOMAIN wire = created /\ DOMAIN wire[c] = Nodes
        /\ s \in Seq(Incoming(n, c))
    BY DEF RInv, WireInv
  <1>2. wire'[c][n] = Tail(s) /\ \A k \in created, q \in Nodes :
                                   k # c \/ q # n => wire'[k][q] = wire[k][q]
    BY <1>1
  <1>3. m \in Incoming(n, c) /\ ToSet(s) = {m} \cup ToSet(Tail(s))
    BY <1>1, FirstOfSeq
  <1>4. m.to = n
    BY <1>3 DEF Incoming
  <1>5. /\ \A q : Data(s, q) = Data(Tail(s), q) \cup
                    (IF m.kind = "data" /\ m.to = q THEN {m.body} ELSE {})
        /\ InOrder(made, s) =>
             /\ InOrder(made, Tail(s))
             /\ m.kind = "data" => Ahead(made, {m.body}, Data(Tail(s), m.to))
    BY <1>1, DataOfTail
  <1> QED
    BY <1>2, <1>3, <1>4, <1>5

\* What has been read goes to the end of the buffer.
LEMMA RxAppend ==
  ASSUME RInv, NEW n \in Nodes, NEW c \in created, Read(n, c),
         NEW m, m = Head(wire[c][n])
  PROVE  /\ \A q \in Nodes :
              /\ ToOpen(q)' = ToOpen(q) \cup
                   (IF q = n /\ m.kind = "data" THEN {m.body} ELSE {})
              /\ \A x \in ToSet(rxbuffer'[q]) : x \in ToSet(rxbuffer[q]) \/ x.msg = m
              /\ InOrder(made, Messages(rxbuffer[q]))
                 /\ (q = n /\ m.kind = "data" => Ahead(made, ToOpen(n), {m.body}))
                 => InOrder(made, Messages(rxbuffer'[q]))
  <1> DEFINE s == rxbuffer[n]
             r == [msg |-> m, sock |-> c]
  <1>1. /\ DOMAIN rxbuffer = Nodes /\ s \in Seq([msg : Letters, sock : created])
    BY ReadTypes DEF RInv, RxInv
  <1>2. m \in Incoming(n, c)
    BY FirstOfSeq DEF Read, RInv, WireInv
  <1>3. m.to = n /\ m \in Letters /\ r \in [msg : Letters, sock : created]
    BY <1>2 DEF Incoming
  <1>4. rxbuffer'[n] = Append(s, r) /\ \A q \in Nodes \ {n} : rxbuffer'[q] = rxbuffer[q]
    BY <1>1 DEF Read
  <1>5. \A q : /\ ToOpen(q)' = Data(Messages(rxbuffer'[q]), q)
               /\ ToOpen(q) = Data(Messages(rxbuffer[q]), q)
    BY DEF ToOpen, Messages
  <1> HIDE DEF s
  <1>6. /\ Messages(Append(s, r)) = Append(Messages(s), m)
        /\ Messages(s) \in Seq(Letters)
        /\ ToSet(Append(s, r)) = ToSet(s) \cup {r}
    <2>1. Messages(s) \in Seq(Letters)
      BY <1>1, MessagesOf
    <2>2. r.msg = m
      OBVIOUS
    <2> HIDE DEF r
    <2>3. Messages(Append(s, r)) = Append(Messages(s), r.msg)
      BY <1>1, <1>3, MessagesAppend
    <2>4. ToSet(Append(s, r)) = ToSet(s) \cup {r}
      <3> DEFINE S == [msg : Letters, sock : created]
      <3>1. s \in Seq(S) /\ r \in S
        BY <1>1, <1>3
      <3> HIDE DEF S
      <3> QED
        BY <3>1, AppendToSet
    <2> QED
      BY <2>1, <2>2, <2>3, <2>4
  <1>7. /\ \A q : Data(Append(Messages(s), m), q) = Data(Messages(s), q) \cup
                     (IF m.kind = "data" /\ m.to = q THEN {m.body} ELSE {})
        /\ InOrder(made, Messages(s))
             /\ (m.kind = "data" => Ahead(made, Data(Messages(s), m.to), {m.body}))
           => InOrder(made, Append(Messages(s), m))
    <2> DEFINE u == Messages(s)
    <2>1. u \in Seq(Letters)
      BY <1>6
    <2> HIDE DEF u
    <2>2. /\ \A q : Data(Append(u, m), q) = Data(u, q) \cup
                       (IF m.kind = "data" /\ m.to = q THEN {m.body} ELSE {})
          /\ InOrder(made, u)
               /\ (m.kind = "data" => Ahead(made, Data(u, m.to), {m.body}))
             => InOrder(made, Append(u, m))
      <3>1. m \in Letters
        BY <1>3
      <3>2. \A q : Data(Append(u, m), q) = Data(u, q) \cup
                     (IF m.kind = "data" /\ m.to = q THEN {m.body} ELSE {})
        <4>1. ToSet(Append(u, m)) = ToSet(u) \cup {m}
          BY <2>1, <3>1, AppendToSet
        <4> QED
          BY <4>1 DEF Data
      <3>3. \A calls : InOrder(calls, u)
                         /\ (m.kind = "data" => Ahead(calls, Data(u, m.to), {m.body}))
                       => InOrder(calls, Append(u, m))
        BY <2>1, <3>1, DataOfAppend
      <3> QED
        BY <3>2, <3>3
    <2> QED
      BY <2>2 DEF u
  <1>8. \A q \in Nodes : \A x \in ToSet(rxbuffer'[q]) :
          x \in ToSet(rxbuffer[q]) \/ x.msg = m
    <2>1. r.msg = m
      OBVIOUS
    <2> HIDE DEF r
    <2> QED
      BY <1>4, <1>6, <2>1 DEF s
  <1> HIDE DEF r
  <1>9. \A q \in Nodes :
          ToOpen(q)' = ToOpen(q) \cup
            (IF q = n /\ m.kind = "data" THEN {m.body} ELSE {})
    <2>1. ToOpen(n)' = Data(Append(Messages(s), m), n)
      BY <1>4, <1>5, <1>6
    <2>2. ToOpen(n)' = ToOpen(n) \cup
            (IF m.kind = "data" /\ m.to = n THEN {m.body} ELSE {})
      BY <1>5, <1>7, <2>1 DEF s
    <2>3. \A q \in Nodes \ {n} : ToOpen(q)' = ToOpen(q)
      BY <1>4, <1>5
    <2> QED
      BY <1>3, <2>2, <2>3
  <1>10. ASSUME NEW q \in Nodes, InOrder(made, Messages(rxbuffer[q])),
                q = n /\ m.kind = "data" => Ahead(made, ToOpen(n), {m.body})
         PROVE  InOrder(made, Messages(rxbuffer'[q]))
    BY <1>3, <1>4, <1>5, <1>6, <1>7, <1>10 DEF s
  <1> QED
    BY <1>8, <1>9, <1>10

-----------------------------------------------------------------------------
(* How the order is kept.                                                  *)

\* Two data messages whose callers are different or were of different lives.
LEMMA OrderParts ==
  ASSUME OrderInv
  PROVE  \A q \in Nodes :
           /\ InOrder(made, Messages(rxbuffer[q])) /\ InOrder(made, txbuffer[q])
           /\ \A a \in Received(q), b \in ToOpen(q) : InTurn(made, a, b)
           /\ \A n \in Nodes :
                /\ \A a \in Received(q), b \in ToTransmit(n, q) : InTurn(made, a, b)
                /\ \A a \in ToOpen(q), b \in ToTransmit(n, q) : InTurn(made, a, b)
           /\ \A c \in created :
                /\ ~IsClosed(c, q) => InOrder(made, wire[c][q])
                /\ \A a \in Received(q), b \in ToRead(c, q) : InTurn(made, a, b)
                /\ \A a \in ToOpen(q), b \in ToRead(c, q) : InTurn(made, a, b)
                /\ \A n \in Nodes :
                     \A a \in ToRead(c, q), b \in ToTransmit(n, q) :
                       InTurn(made, a, b)
                /\ \A k \in created \ {c} :
                     \A a \in ToRead(c, q), b \in ToRead(k, q) : InTurn(made, a, b)
  BY DEF OrderInv, OrderTo, Ahead

\* Nothing new comes in at any stage.
LEMMA OrderQuiet ==
  ASSUME RInv, CarriesInv, OrderInv,
         \A a, b \in ToSet(made) : InTurn(made, a, b) => InTurn(made', a, b),
         \A q \in Nodes :
           /\ Received(q)' \subseteq Received(q) /\ ToOpen(q)' \subseteq ToOpen(q)
           /\ InOrder(made', Messages(rxbuffer'[q]))
           /\ InOrder(made', txbuffer'[q]),
         \A n, q \in Nodes : ToTransmit(n, q)' \subseteq ToTransmit(n, q),
         \A c \in created', q \in Nodes :
           /\ ~IsClosed(c, q)' => InOrder(made', wire'[c][q])
           /\ c \in created => ToRead(c, q)' \subseteq ToRead(c, q)
           /\ c \notin created => ToRead(c, q)' = {}
  PROVE  OrderInv'
  <1> SUFFICES ASSUME NEW q \in Nodes
               PROVE  OrderTo(q)'
    BY DEF OrderInv
  <1>0. /\ \A a \in Received(q) : a \in ToSet(made)
        /\ \A a \in ToOpen(q) : a \in ToSet(made)
        /\ \A c \in created : \A a \in ToRead(c, q) : a \in ToSet(made)
        /\ \A n \in Nodes : \A a \in ToTransmit(n, q) : a \in ToSet(made)
    BY StageTypes
  <1>1. InOrder(made', Messages(rxbuffer'[q])) /\ InOrder(made', txbuffer'[q])
    OBVIOUS
  <1>2. \A a \in Received(q)', b \in ToOpen(q)' : InTurn(made', a, b)
    BY <1>0, OrderParts
  <1>3. \A n \in Nodes : \A a \in Received(q)' \cup ToOpen(q)', b \in ToTransmit(n, q)' :
          InTurn(made', a, b)
    BY <1>0, OrderParts
  <1>4. ASSUME NEW c \in created'
        PROVE  /\ ~IsClosed(c, q)' => InOrder(made', wire'[c][q])
               /\ \A a \in Received(q)' \cup ToOpen(q)', b \in ToRead(c, q)' :
                    InTurn(made', a, b)
               /\ \A n \in Nodes : \A a \in ToRead(c, q)', b \in ToTransmit(n, q)' :
                    InTurn(made', a, b)
               /\ \A k \in created' \ {c} : \A a \in ToRead(c, q)', b \in ToRead(k, q)' :
                    InTurn(made', a, b)
    <2>1. CASE c \in created
      BY <1>0, <2>1, OrderParts
    <2>2. CASE c \notin created
      BY <2>2
    <2> QED
      BY <2>1, <2>2
  <1> QED
    BY <1>1, <1>2, <1>3, <1>4 DEF OrderTo, Ahead

\* A message is sent on c: what else can be read by its receiver was called of
\* another router, or in another life.
LEMMA OrderTransmit ==
  ASSUME RInv, CarriesInv, OnceInv, OrderInv, CurrentInv,
         NEW n \in Nodes, NEW m, Transmit(n, m), NEW c \in created',
         created \subseteq created',
         \A k \in created', q \in Nodes :
           /\ ~IsClosed(k, q)' => InOrder(made, wire'[k][q])
           /\ \A a \in ToRead(k, q)' :
                \/ k \in created /\ a \in ToRead(k, q)
                \/ k = c /\ q = m.to /\ m.kind = "data" /\ a = m.body,
         \A k \in created \ {c} : \A b \in ToRead(k, m.to) :
           b.by = n => ~Current(made, b)
  PROVE  OrderInv'
  <1>0. /\ UNCHANGED <<made, setup, rxbuffer, databuffer>>
        /\ m \in Outgoing(n) /\ m.to \in Nodes \ {n}
    BY TransmitKept DEF Transmit
  <1>1. /\ \A p, q \in Nodes : ToTransmit(p, q)' \subseteq ToTransmit(p, q)
        /\ \A p \in Nodes : InOrder(made, txbuffer'[p])
        /\ m.kind = "data" =>
             /\ m.body \in ToTransmit(n, m.to)
             /\ \A b \in ToTransmit(n, m.to)' : InTurn(made, m.body, b)
    BY TxTail, OrderParts, <1>0 DEF Ahead
  <1>2. \A q : Received(q)' = Received(q) /\ ToOpen(q)' = ToOpen(q)
    BY <1>0 DEF Received, ToOpen, Direct, Messages, Data
  <1>3. ASSUME m.kind = "data", NEW k \in created \ {c}, NEW b \in ToRead(k, m.to)
        PROVE  InTurn(made, m.body, b) /\ InTurn(made, b, m.body)
    <2>1. Current(made, m.body) /\ m.body.by = n
      BY <1>0, <1>1, <1>3, StageTypes DEF CurrentInv
    <2>2. b.by # m.body.by \/ ~Current(made, b)
      BY <1>3, <2>1
    <2>3. made \in Seq(setup.calls) /\ \A i, j \in DOMAIN made : made[i] = made[j] => i = j
      BY DEF RInv, CallsInv, OnceInv
    <2> QED
      BY <2>1, <2>2, <2>3, ApartLives
  <1>4. \A p \in Nodes \ {n}, q \in Nodes : \A b \in ToTransmit(p, q) :
          m.kind = "data" => InTurn(made, m.body, b)
    <2>1. \A p, q \in Nodes : \A b \in ToTransmit(p, q) : b.by = p
      BY StageTypes
    <2>2. m.kind = "data" => m.body.by = n
      BY <1>0, <1>1, <2>1
    <2> QED
      BY <2>1, <2>2 DEF InTurn
  <1> SUFFICES ASSUME NEW q \in Nodes
               PROVE  OrderTo(q)'
    BY DEF OrderInv
  <1>5. InOrder(made', Messages(rxbuffer'[q])) /\ InOrder(made', txbuffer'[q])
    BY <1>0, <1>1, OrderParts
  <1>6. \A a \in Received(q)', b \in ToOpen(q)' : InTurn(made', a, b)
    BY <1>0, <1>2, OrderParts
  <1>7. \A p \in Nodes : \A a \in Received(q)' \cup ToOpen(q)', b \in ToTransmit(p, q)' :
          InTurn(made', a, b)
    BY <1>0, <1>1, <1>2, OrderParts
  <1>8. ASSUME NEW l \in created'
        PROVE  /\ ~IsClosed(l, q)' => InOrder(made', wire'[l][q])
               /\ \A a \in Received(q)' \cup ToOpen(q)', b \in ToRead(l, q)' :
                    InTurn(made', a, b)
               /\ \A p \in Nodes : \A a \in ToRead(l, q)', b \in ToTransmit(p, q)' :
                    InTurn(made', a, b)
               /\ \A k \in created' \ {l} : \A a \in ToRead(l, q)', b \in ToRead(k, q)' :
                    InTurn(made', a, b)
    <2>1. ~IsClosed(l, q)' => InOrder(made', wire'[l][q])
      BY <1>0
    <2>2. ASSUME NEW a \in Received(q)' \cup ToOpen(q)', NEW b \in ToRead(l, q)'
          PROVE  InTurn(made', a, b)
      <3>1. CASE l \in created /\ b \in ToRead(l, q)
        BY <1>0, <1>2, <3>1, OrderParts
      <3>2. CASE q = m.to /\ m.kind = "data" /\ b = m.body
        BY <1>0, <1>1, <1>2, <3>2, OrderParts
      <3> QED
        BY <3>1, <3>2
    <2>3. ASSUME NEW p \in Nodes, NEW a \in ToRead(l, q)', NEW b \in ToTransmit(p, q)'
          PROVE  InTurn(made', a, b)
      <3>1. CASE l \in created /\ a \in ToRead(l, q)
        BY <1>0, <1>1, <3>1, OrderParts
      <3>2. CASE q = m.to /\ m.kind = "data" /\ a = m.body
        BY <1>0, <1>1, <1>4, <3>2
      <3> QED
        BY <3>1, <3>2
    <2>4. ASSUME NEW k \in created' \ {l}, NEW a \in ToRead(l, q)', NEW b \in ToRead(k, q)'
          PROVE  InTurn(made', a, b)
      <3>1. CASE (l \in created /\ a \in ToRead(l, q)) /\ (k \in created /\ b \in ToRead(k, q))
        BY <1>0, <3>1, OrderParts
      <3>2. CASE /\ l = c /\ q = m.to /\ m.kind = "data" /\ a = m.body
                 /\ k \in created /\ b \in ToRead(k, q)
        BY <1>0, <1>3, <3>2
      <3>3. CASE /\ k = c /\ q = m.to /\ m.kind = "data" /\ b = m.body
                 /\ l \in created /\ a \in ToRead(l, q)
        BY <1>0, <1>3, <3>3
      <3> QED
        BY <3>1, <3>2, <3>3
    <2> QED
      BY <2>1, <2>2, <2>3, <2>4
  <1> QED
    BY <1>5, <1>6, <1>7, <1>8 DEF OrderTo, Ahead

\* Nothing of a stage is new but what the one before it has lost.
LEMMA OrderRead ==
  ASSUME RInv, CarriesInv, OrderInv, NEW n \in Nodes, NEW c \in created,
         Read(n, c), ~IsClosed(c, n), \A k, q : IsClosed(k, q) => IsClosed(k, q)',
         UNCHANGED <<made, setup, created, txbuffer, databuffer>>
  PROVE  OrderInv'
  <1> DEFINE N == IF Head(wire[c][n]).kind = "data" THEN {Head(wire[c][n]).body}
                  ELSE {}
  <1>1. PICK m : m = Head(wire[c][n])
    OBVIOUS
  <1>2. /\ wire[c][n] # <<>> /\ wire' = [wire EXCEPT ![c][n] = Tail(@)]
    BY DEF Read
  <1>3. /\ \A k \in created, q \in Nodes :
             /\ Data(wire'[k][q], q) \subseteq Data(wire[k][q], q)
             /\ InOrder(made, wire[k][q]) => InOrder(made, wire'[k][q])
        /\ m.kind = "data" => m.body \in Data(wire[c][n], n)
        /\ InOrder(made, wire[c][n]) /\ m.kind = "data" =>
             Ahead(made, {m.body}, Data(wire'[c][n], n))
    BY <1>1, <1>2, WireTail
  <1>4. \A k \in created, q \in Nodes :
          /\ ToRead(k, q)' \subseteq ToRead(k, q)
          /\ ~IsClosed(k, q)' => InOrder(made, wire'[k][q])
    BY <1>3, OrderParts DEF ToRead
  <1>5. m.kind = "data" => /\ m.body \in ToRead(c, n)
                           /\ \A b \in ToRead(c, n)' : InTurn(made, m.body, b)
    BY <1>3, OrderParts DEF ToRead, Ahead
  <1>6. \A q \in Nodes :
          /\ ToOpen(q)' = ToOpen(q) \cup
               (IF q = n /\ m.kind = "data" THEN {m.body} ELSE {})
          /\ InOrder(made, Messages(rxbuffer[q]))
             /\ (q = n /\ m.kind = "data" => Ahead(made, ToOpen(n), {m.body}))
             => InOrder(made, Messages(rxbuffer'[q]))
    BY <1>1, RxAppend
  <1>7. \A q \in Nodes : InOrder(made, Messages(rxbuffer'[q]))
    BY <1>5, <1>6, OrderParts DEF Ahead
  <1>8. \A p, q : ToTransmit(p, q)' = ToTransmit(p, q) /\ Received(q)' = Received(q)
    BY DEF ToTransmit, Received, Direct, Data
  <1>9. \A q \in Nodes : \A a \in ToOpen(q)' :
          a \in ToOpen(q) \/ (q = n /\ m.kind = "data" /\ a = m.body)
    BY <1>6
  <1> SUFFICES ASSUME NEW q \in Nodes
               PROVE  OrderTo(q)'
    BY DEF OrderInv
  <1>10. InOrder(made', Messages(rxbuffer'[q])) /\ InOrder(made', txbuffer'[q])
    BY <1>7, OrderParts
  <1>11. \A a \in Received(q)', b \in ToOpen(q)' : InTurn(made', a, b)
    BY <1>5, <1>8, <1>9, OrderParts
  <1>12. \A p \in Nodes : \A a \in Received(q)' \cup ToOpen(q)', b \in ToTransmit(p, q)' :
           InTurn(made', a, b)
    BY <1>5, <1>8, <1>9, OrderParts
  <1>13. ASSUME NEW l \in created'
         PROVE  /\ ~IsClosed(l, q)' => InOrder(made', wire'[l][q])
                /\ \A a \in Received(q)' \cup ToOpen(q)', b \in ToRead(l, q)' :
                     InTurn(made', a, b)
                /\ \A p \in Nodes : \A a \in ToRead(l, q)', b \in ToTransmit(p, q)' :
                     InTurn(made', a, b)
                /\ \A k \in created' \ {l} : \A a \in ToRead(l, q)', b \in ToRead(k, q)' :
                     InTurn(made', a, b)
    <2>1. ASSUME NEW a \in Received(q)' \cup ToOpen(q)', NEW b \in ToRead(l, q)'
          PROVE  InTurn(made', a, b)
      <3>1. CASE a \in Received(q) \cup ToOpen(q)
        BY <1>4, <3>1, OrderParts
      <3>2. CASE q = n /\ m.kind = "data" /\ a = m.body /\ l = c
        BY <1>5, <3>2
      <3>3. CASE q = n /\ m.kind = "data" /\ a = m.body /\ l # c
        BY <1>4, <1>5, <3>3, OrderParts
      <3> QED
        BY <1>8, <1>9, <3>1, <3>2, <3>3
    <2> QED
      BY <1>4, <1>8, <2>1, OrderParts
  <1> QED
    BY <1>10, <1>11, <1>12, <1>13 DEF OrderTo, Ahead

LEMMA OrderOpen ==
  ASSUME RInv, CarriesInv, OrderInv, NEW n \in Nodes, rxbuffer[n] # <<>>,
         NEW e, e = Head(rxbuffer[n]),
         rxbuffer' = [rxbuffer EXCEPT ![n] = Tail(@)],
         UNCHANGED <<made, setup, created, wire>>,
         \A k, q : IsClosed(k, q) => IsClosed(k, q)',
         \A p, q \in Nodes : ToTransmit(p, q)' \subseteq ToTransmit(p, q),
         \A p \in Nodes : InOrder(made, txbuffer'[p]),
         \A q \in Nodes : \A a \in Received(q)' :
           a \in Received(q) \/ (q = n /\ e.msg.kind = "data" /\ a = e.msg.body)
  PROVE  OrderInv'
  <1>1. /\ \A q \in Nodes :
             /\ ToOpen(q) = ToOpen(q)' \cup
                  (IF q = n /\ e.msg.kind = "data" THEN {e.msg.body} ELSE {})
             /\ InOrder(made, Messages(rxbuffer'[q]))
        /\ e.msg.kind = "data" => \A b \in ToOpen(n)' : InTurn(made, e.msg.body, b)
    BY RxTail, OrderParts DEF Ahead
  <1>2. \A q \in Nodes : Received(q)' \cup ToOpen(q)' \subseteq Received(q) \cup ToOpen(q)
    BY <1>1
  <1>3. \A k \in created, q \in Nodes :
          /\ ToRead(k, q)' \subseteq ToRead(k, q)
          /\ ~IsClosed(k, q)' => InOrder(made, wire'[k][q])
    BY OrderParts DEF ToRead
  <1> SUFFICES ASSUME NEW q \in Nodes
               PROVE  OrderTo(q)'
    BY DEF OrderInv
  <1>4. InOrder(made', Messages(rxbuffer'[q])) /\ InOrder(made', txbuffer'[q])
    BY <1>1
  <1>5. \A a \in Received(q)', b \in ToOpen(q)' : InTurn(made', a, b)
    BY <1>1, OrderParts
  <1>6. \A p \in Nodes : \A a \in Received(q)' \cup ToOpen(q)', b \in ToTransmit(p, q)' :
          InTurn(made', a, b)
    BY <1>2, OrderParts
  <1>7. ASSUME NEW l \in created'
        PROVE  /\ ~IsClosed(l, q)' => InOrder(made', wire'[l][q])
               /\ \A a \in Received(q)' \cup ToOpen(q)', b \in ToRead(l, q)' :
                    InTurn(made', a, b)
               /\ \A p \in Nodes : \A a \in ToRead(l, q)', b \in ToTransmit(p, q)' :
                    InTurn(made', a, b)
               /\ \A k \in created' \ {l} : \A a \in ToRead(l, q)', b \in ToRead(k, q)' :
                    InTurn(made', a, b)
    BY <1>2, <1>3, OrderParts
  <1> QED
    BY <1>4, <1>5, <1>6, <1>7 DEF OrderTo, Ahead


-----------------------------------------------------------------------------
(* Connections that are gone.                                              *)

LEMMA GoneKept ==
  ASSUME GoneInv, UNCHANGED created, backlog' \subseteq backlog,
         \A k, p : IsClosed(k, p) => IsClosed(k, p)',
         \A k \in backlog' : ~IsClosed(k, k[2])',
         \A p \in Nodes, k \in created :
           IsClosed(k, p)' /\ (\/ Unopened(p, k)'
                               \/ peerAddressToSocket'[p][Other(k, p)] = k)
             => \/ IsClosed(k, Other(k, p))'
                \/ /\ IsClosed(k, p)
                   /\ Unopened(p, k) \/ peerAddressToSocket[p][Other(k, p)] = k
  PROVE  GoneInv'
  BY DEF GoneInv, Other

LEMMA GoneSame ==
  ASSUME GoneInv,
         UNCHANGED <<created, closed, backlog, peerAddressToSocket, rxbuffer>>
  PROVE  GoneInv'
  BY DEF GoneInv, IsClosed, Unopened, Other

LEMMA GoneStop ==
  ASSUME RInv, GoneInv, NEW c \in setup.calls, stop(c)
  PROVE  GoneInv'
  <1> DEFINE n == c.by
             mine == {s \in created : n \in {s[1], s[2]} /\ ~IsClosed(s, n)}
  <1>1. /\ Make(c, "stop", {}) /\ up' = up \ {n} /\ Close(n, mine)
        /\ backlog' = {s \in backlog : s[2] # n}
        /\ peerAddressToSocket' =
             [peerAddressToSocket EXCEPT ![n] = [q \in Nodes |-> NoSocket]]
        /\ rxbuffer' = [rxbuffer EXCEPT ![n] = <<>>]
        /\ UNCHANGED created
    BY DEF stop
  <1>2. n \in Nodes
    BY <1>1, MakeKept DEF RInv, CallsInv
  <1>3. \A k, p : IsClosed(k, p)' <=> IsClosed(k, p) \/ (p = n /\ k \in mine)
    BY <1>1, CloseFacts
  <1>4. /\ \A p, q \in Nodes :
             peerAddressToSocket'[p][q] = IF p = n THEN NoSocket
                                          ELSE peerAddressToSocket[p][q]
        /\ \A p \in Nodes :
             rxbuffer'[p] = IF p = n THEN <<>> ELSE rxbuffer[p]
    BY <1>1, <1>2 DEF RInv, TableInv, RxInv
  <1>5. ASSUME NEW k \in backlog'
        PROVE  ~IsClosed(k, k[2])'
    BY <1>1, <1>3 DEF GoneInv
  <1>6. ASSUME NEW p \in Nodes, NEW k \in created, IsClosed(k, p)',
               \/ Unopened(p, k)' \/ peerAddressToSocket'[p][Other(k, p)] = k
        PROVE  /\ IsClosed(k, p)
               /\ Unopened(p, k) \/ peerAddressToSocket[p][Other(k, p)] = k
    <2>1. k # NoSocket /\ Other(k, p) \in Nodes
      BY EndTypes DEF RInv
    <2>2. p # n
      BY <1>4, <1>6, <2>1, NoData DEF Unopened
    <2>3. Unopened(p, k)' <=> Unopened(p, k)
      BY <1>4, <2>2 DEF Unopened
    <2> QED
      BY <1>3, <1>4, <1>6, <2>1, <2>2, <2>3
  <1>7. backlog' \subseteq backlog
    BY <1>1
  <1> HIDE DEF mine
  <1> QED
    BY <1>1, <1>3, <1>5, <1>6, <1>7, GoneKept

LEMMA GoneCreate ==
  ASSUME RInv, GoneInv, NEW n \in Nodes, NEW m, createSocket(n, m)
  PROVE  GoneInv'
  <1>0. PICK sock : sock = NextSocket(n, m.to)
    OBVIOUS
  <1>1. /\ Transmit(n, m)
        /\ created' = created \cup {sock} /\ backlog' = backlog \cup {sock}
        /\ UNCHANGED <<closed, rxbuffer>>
        /\ peerAddressToSocket' = [peerAddressToSocket EXCEPT ![n][m.to] = sock]
    BY <1>0 DEF createSocket, Connected, Transmit
  <1>2. m.to \in Nodes \ {n}
    BY <1>1, TransmitKept
  <1>3. sock \notin created
    BY <1>0, <1>2, NextIsNew DEF RInv
  <1>4. \A p, r \in Nodes :
          peerAddressToSocket'[p][r] = IF p = n /\ r = m.to THEN sock
                                       ELSE peerAddressToSocket[p][r]
    <2>1. TableInv
      BY DEF RInv
    <2> QED
      BY <1>1, <1>2, <2>1 DEF TableInv
  <1>5. \A p : ~IsClosed(sock, p)
    BY <1>3 DEF RInv, EndsInv, IsClosed
  <1>6. \A k, p : /\ IsClosed(k, p)' <=> IsClosed(k, p)
                  /\ Unopened(p, k)' <=> Unopened(p, k)
    BY <1>1 DEF IsClosed, Unopened
  <1>7. ASSUME NEW p \in Nodes, NEW k \in created', IsClosed(k, p)',
               \/ Unopened(p, k)' \/ peerAddressToSocket'[p][Other(k, p)] = k
        PROVE  IsClosed(k, Other(k, p))'
    <2>1. k \in created /\ k # sock
      BY <1>1, <1>5, <1>6, <1>7
    <2>2. Other(k, p) \in Nodes
      BY <2>1, EndTypes DEF RInv
    <2>3. Unopened(p, k) \/ peerAddressToSocket[p][Other(k, p)] = k
      BY <1>4, <1>6, <1>7, <2>1, <2>2
    <2>4. IsClosed(k, Other(k, p))
      BY <1>6, <1>7, <2>1, <2>3 DEF GoneInv
    <2> QED
      BY <1>6, <2>4
  <1>8. \A k \in backlog' : ~IsClosed(k, k[2])'
    BY <1>1, <1>5, <1>6 DEF GoneInv
  <1> QED
    BY <1>7, <1>8 DEF GoneInv, Other

LEMMA GoneTxThread ==
  ASSUME RInv, GoneInv, NEW n \in Nodes, txThread(n)
  PROVE  GoneInv'
  <1> DEFINE m == Head(txbuffer[n])
  <1>1. CASE sendOnSocket(n, m) \/ sendIntoTheVoid(n, m) \/ refuse(n, m)
    BY <1>1, GoneSame DEF sendOnSocket, sendIntoTheVoid, refuse, Transmit
  <1>2. CASE createSocket(n, m)
    BY <1>2, GoneCreate
  <1> QED
    BY <1>1, <1>2 DEF txThread

\* What the RX thread reads, is read on a connection that is not closed.
LEMMA GoneRead ==
  ASSUME RInv, MInv, GoneInv, NEW n \in Nodes, NEW c \in created,
         handleExistingConnection(n, c) \/ readInVain(n, c)
  PROVE  GoneInv' /\ ~IsClosed(c, n)
  <1>1. /\ ~IsClosed(c, n)
        /\ UNCHANGED <<created, closed, backlog, peerAddressToSocket>>
    BY DEF handleExistingConnection, readInVain, Selects
  <1>2. ASSUME handleExistingConnection(n, c)
        PROVE  \A p \in Nodes, k \in created :
                 Unopened(p, k)' <=> Unopened(p, k) \/ (p = n /\ k = c)
    <2>1. Read(n, c)
      BY <1>2 DEF handleExistingConnection
    <2> QED
      BY <1>1, <2>1, ReadFacts DEF RInv
  <1>3. CASE handleExistingConnection(n, c)
    <2>1. \A k, p : IsClosed(k, p)' <=> IsClosed(k, p)
      BY <1>1 DEF IsClosed
    <2> QED
      BY <1>1, <1>2, <1>3, <2>1, GoneKept DEF GoneInv
  <1>4. CASE readInVain(n, c)
    BY <1>1, <1>4, GoneSame DEF readInVain
  <1> QED
    BY <1>1, <1>3, <1>4

LEMMA GoneAccept ==
  ASSUME RInv, MInv, GoneInv, NEW n \in Nodes, NEW c \in created,
         handleNewConnection(n, c)
  PROVE  GoneInv' /\ ~IsClosed(c, n)
  <1> DEFINE cs == Released(n, accepted[n], opened[n])
  <1>1. /\ c \in backlog /\ c[2] = n /\ backlog' = backlog \ {c}
        /\ Close(n, cs) /\ Read(n, c)
        /\ UNCHANGED <<created, peerAddressToSocket>>
    BY DEF handleNewConnection
  <1>2. \A k \in created, p \in Nodes :
          Unopened(p, k)' <=> Unopened(p, k) \/ (p = n /\ k = c)
    BY <1>1, ReadFacts DEF RInv
  <1>3. \A k, p : IsClosed(k, p)' <=> IsClosed(k, p) \/ (p = n /\ k \in cs)
    BY <1>1, CloseFacts
  <1>4. ASSUME NEW k \in cs
        PROVE  /\ k = accepted[n] /\ ~Unopened(n, k)
               /\ \A q \in Nodes : peerAddressToSocket[n][q] # k
    <2>1. k \in created
      BY ReleasedTypes DEF RInv
    <2> QED
      BY <2>1, ReleasedFacts DEF RInv
  <1> HIDE DEF cs
  <1>5. ~IsClosed(c, n) /\ c \notin cs
    BY <1>1, <1>4 DEF GoneInv, MInv, BacklogInv
  <1>6. \A k \in backlog' : ~IsClosed(k, k[2])'
    BY <1>1, <1>3, <1>4 DEF GoneInv, MInv, BacklogInv
  <1>7. ASSUME NEW p \in Nodes, NEW k \in created, IsClosed(k, p)',
               \/ Unopened(p, k)' \/ peerAddressToSocket'[p][Other(k, p)] = k
        PROVE  /\ IsClosed(k, p)
               /\ Unopened(p, k) \/ peerAddressToSocket[p][Other(k, p)] = k
    <2>1. Other(k, p) \in Nodes
      BY EndTypes DEF RInv
    <2> QED
      BY <1>1, <1>2, <1>3, <1>4, <1>5, <1>7, <2>1
  <1>8. backlog' \subseteq backlog
    BY <1>1
  <1> QED
    BY <1>1, <1>3, <1>5, <1>6, <1>7, <1>8, GoneKept

LEMMA GoneRemoval ==
  ASSUME RInv, MInv, GoneInv, NEW n \in Nodes, NEW c \in created,
         removeSocket(n, c) \/ removeResetSocket(n, c)
  PROVE  GoneInv'
  <1> DEFINE q == Other(c, n)
  <1>1. /\ c \in socketList[n] /\ IsClosed(c, q) /\ Close(n, {c})
        /\ UNCHANGED <<created, backlog, rxbuffer>>
        /\ \/ UNCHANGED peerAddressToSocket
           \/ peerAddressToSocket' = [peerAddressToSocket EXCEPT ![n][q] = NoSocket]
    BY DEF removeSocket, removeResetSocket, EndOfStream
  <1>2. \A k, p : IsClosed(k, p)' <=> IsClosed(k, p) \/ (p = n /\ k = c)
    BY <1>1, CloseFacts
  <1>3. q \in Nodes
    BY EndTypes DEF RInv
  <1>4. \A p, r \in Nodes :
          \/ peerAddressToSocket'[p][r] = peerAddressToSocket[p][r]
          \/ peerAddressToSocket'[p][r] = NoSocket
    BY <1>1, <1>3 DEF RInv, TableInv
  <1>5. \A k \in backlog' : ~IsClosed(k, k[2])'
    BY <1>1, <1>2 DEF GoneInv, MInv, BacklogInv
  <1>6. ASSUME NEW p \in Nodes, NEW k \in created, IsClosed(k, p)',
               \/ Unopened(p, k)' \/ peerAddressToSocket'[p][Other(k, p)] = k
        PROVE  \/ IsClosed(k, Other(k, p))'
               \/ /\ IsClosed(k, p)
                  /\ Unopened(p, k) \/ peerAddressToSocket[p][Other(k, p)] = k
    <2>1. Other(k, p) \in Nodes /\ k # NoSocket
      BY EndTypes DEF RInv
    <2>2. CASE p = n /\ k = c
      BY <1>1, <1>2, <2>2
    <2>3. CASE ~(p = n /\ k = c)
      <3>1. Unopened(p, k)' <=> Unopened(p, k)
        BY <1>1 DEF Unopened
      <3> QED
        BY <1>2, <1>4, <1>6, <2>1, <2>3, <3>1
    <2> QED
      BY <2>2, <2>3
  <1>7. backlog' \subseteq backlog
    BY <1>1
  <1> HIDE DEF q
  <1> QED
    BY <1>1, <1>2, <1>5, <1>6, <1>7, GoneKept

LEMMA GoneRxThread ==
  ASSUME RInv, MInv, GoneInv, NEW n \in Nodes, rxThread(n)
  PROVE  GoneInv'
  BY GoneRead, GoneAccept, GoneRemoval DEF rxThread

\* The connection of the message that is opened may be entered.
LEMMA GoneMsgThread ==
  ASSUME RInv, MInv, GoneInv, NEW n \in Nodes, msgThread(n)
  PROVE  GoneInv'
  <1>0. PICK e : e = Head(rxbuffer[n]) /\ rxbuffer[n] # <<>>
    BY DEF msgThread
  <1>1. PICK kind : Open(n, kind, e)
    BY <1>0 DEF msgThread, openConnectNew, openConnectKnown, openAcceptedConnect,
         openNewPeerUpdate, openGetPeerList, openSendPeerList, openData,
         openFlood, openFloodSeen
  <1>2. \/ UNCHANGED peerAddressToSocket
        \/ peerAddressToSocket' =
             [peerAddressToSocket EXCEPT ![n][e.msg.from] = e.sock]
    BY <1>0 DEF msgThread, openConnectNew, openConnectKnown, openAcceptedConnect,
         openNewPeerUpdate, openGetPeerList, openSendPeerList, openData,
         openFlood, openFloodSeen, Answer
  <1>3. /\ Unopened(n, e.sock)
        /\ \A p \in Nodes : \A k : Unopened(p, k)' => Unopened(p, k)
        /\ \A k, p : IsClosed(k, p)' <=>
             \/ IsClosed(k, p)
             \/ p = n /\ k \in Released(n, opened[n], accepted[n])
        /\ UNCHANGED <<created, backlog>>
    BY <1>0, <1>1, OpenFacts, SMTT(20)
  <1>4. \A k \in Released(n, opened[n], accepted[n]) :
          /\ k \in created /\ k = opened[n] /\ ~Unopened(n, k)
          /\ \A q \in Nodes : peerAddressToSocket[n][q] # k
    BY <1>0, OpenReleases
  <1>5. \A p, q \in Nodes :
          \/ peerAddressToSocket'[p][q] = peerAddressToSocket[p][q]
          \/ p = n /\ peerAddressToSocket'[p][q] = e.sock
    BY <1>2 DEF RInv, TableInv
  <1>6. \A k \in backlog' : ~IsClosed(k, k[2])'
    BY <1>3, <1>4 DEF GoneInv, MInv, BacklogInv
  <1>7. ASSUME NEW p \in Nodes, NEW k \in created, IsClosed(k, p)',
               \/ Unopened(p, k)' \/ peerAddressToSocket'[p][Other(k, p)] = k
        PROVE  /\ IsClosed(k, p)
               /\ Unopened(p, k) \/ peerAddressToSocket[p][Other(k, p)] = k
    <2>1. Other(k, p) \in Nodes
      BY EndTypes DEF RInv
    <2>2. Unopened(p, k) \/ peerAddressToSocket[p][Other(k, p)] = k
      BY <1>3, <1>5, <1>7, <2>1
    <2> QED
      BY <1>3, <1>4, <1>7, <2>1, <2>2
  <1> QED
    BY <1>3, <1>6, <1>7, GoneKept

-----------------------------------------------------------------------------
(* What the steps put on the buffer and take from it.                      *)

LEMMA ToEachKind ==
  \A n, P, kind, body : \A m \in ToSet(ToEach(P, kind, n, body)) :
    m.kind = kind /\ m.body = body
  BY DEF ToEach, Message, ToSet

\* A message to each of several nodes is one to each of them.
LEMMA ToEachOnce ==
  ASSUME NEW n, NEW P \in SUBSET Nodes, NEW kind, NEW body
  PROVE  \A i, j \in DOMAIN ToEach(P, kind, n, body) :
           ToEach(P, kind, n, body)[i].to = ToEach(P, kind, n, body)[j].to => i = j
  <1> DEFINE s == SetToSeq(P)
  <1>1. IsFiniteSet(P)
    BY FS_Subset, RouterAssumption
  <1>2. Cardinality(P) \in Nat /\ ExistsBijection(1..Cardinality(P), P)
    BY <1>1, FS_CardinalityType
  <1>3. \E f \in [1..Cardinality(P) -> P] : IsInjective(f)
    BY <1>2 DEF ExistsBijection, Bijection, Injection
  <1>4. IsInjective(s)
    BY <1>3 DEF SetToSeq
  <1>5. \A i, j \in DOMAIN s : s[i] = s[j] => i = j
    BY <1>4 DEF IsInjective
  <1> HIDE DEF s
  <1>6. ToEach(P, kind, n, body) = [i \in DOMAIN s |-> Message(kind, n, s[i], body)]
    BY DEF ToEach, s
  <1> QED
    BY <1>5, <1>6 DEF Message

LEMMA ConnectKind ==
  \A n, q : \A m \in ToSet(ConnectMessages(n, q)) : m.kind = "connect"
  <1> SUFFICES ASSUME NEW n, NEW q, NEW m \in ToSet(ConnectMessages(n, q))
               PROVE  m.kind = "connect"
    OBVIOUS
  <1>1. ToSet(<<Message("connect", n, q, NoNode)>>) =
          {Message("connect", n, q, NoNode)}
    BY DEF ToSet
  <1> QED
    BY <1>1, NoData DEF ConnectMessages, Message

LEMMA NewCall ==
  ASSUME RInv, NEW c \in setup.calls, NEW op, NEW whom, Make(c, op, whom)
  PROVE  /\ made \in Seq(setup.calls) /\ made' = Append(made, c)
         /\ ToSet(made)' = ToSet(made) \cup {c} /\ c \notin ToSet(made)
         /\ c.op = op /\ c.by \in Nodes /\ UNCHANGED setup
         /\ op \in {"connect", "getPeerList", "send"} => c.to \in Nodes \ {c.by}
  <1>1. made \in Seq(setup.calls)
    BY DEF RInv, CallsInv
  <1>2. made' = Append(made, c) /\ c \notin ToSet(made) /\ UNCHANGED setup
        /\ c.op = op
    BY DEF Make
  <1>3. ToSet(made)' = ToSet(made) \cup {c}
    BY <1>1, <1>2, AppendToSet
  <1>4. /\ c.by \in Nodes
        /\ op \in {"connect", "getPeerList", "send"} => c.to \in Nodes \ {c.by}
    BY <1>2, CallTypes DEF RInv
  <1> QED
    BY <1>1, <1>2, <1>3, <1>4

\* What a call puts on the buffer: its data, if any, once to a node.
PutBy(c, s) ==
  /\ \A m \in ToSet(s) : m.kind \in {"data", "flood"} =>
       /\ m.body = c /\ m.from = c.by
       /\ m.kind = "data" => \/ c.op = "send" /\ c.to = m.to
                             \/ c.op = "broadcast" /\ setup.mesh
       /\ m.kind = "flood" => c.op = "broadcast" /\ ~setup.mesh
  /\ \A i, j \in DOMAIN s :
       s[i].kind = "data" /\ s[j].kind = "data" /\ s[i].to = s[j].to => i = j

LEMMA CallPuts ==
  ASSUME RInv, NEW c \in setup.calls,
         connect(c) \/ getPeerList(c) \/ send(c) \/ broadcast(c)
  PROVE  /\ \E s \in Seq(Outgoing(c.by)') : PutBy(c, s) /\ put(c.by, s)
         /\ \E whom : Make(c, c.op, whom)
         /\ c.op # "stop"
         /\ UNCHANGED <<up, streams, sockets, rxbuffer, databuffer>>
         /\ \A n \in Nodes : hasSeenMessage[n] \subseteq hasSeenMessage'[n]
         /\ c.op = "broadcast" /\ Peers(c.by) # {} => c \in hasSeenMessage'[c.by]
         /\ c.op = "broadcast" /\ Peers(c.by) = {} => put(c.by, <<>>)
  <1> DEFINE n == c.by
             q == c.to
  <1>0. /\ \E whom : Make(c, c.op, whom)
        /\ c.op # "stop"
        /\ UNCHANGED <<up, streams, sockets, rxbuffer, databuffer>>
    BY DEF connect, getPeerList, send, broadcast, Make, Queue
  <1>1. /\ ToSet(made)' = ToSet(made) \cup {c} /\ n \in Nodes /\ UNCHANGED setup
        /\ c.op \in {"connect", "getPeerList", "send"} => q \in Nodes \ {n}
    BY <1>0, NewCall
  <1>2. UNCHANGED created /\ ToSet(made) \subseteq ToSet(made)'
    BY <1>0, <1>1
  <1>3. CASE connect(c) \/ getPeerList(c) \/ send(c)
    <2>1. UNCHANGED contents /\ c.op \in {"connect", "getPeerList", "send"}
      BY <1>3 DEF connect, getPeerList, send, Make, Queue
    <2>2. PICK t : t = ConnectMessages(n, q)
      OBVIOUS
    <2>3. t \in Seq(Outgoing(n)') /\ \A m \in ToSet(t) : m.kind = "connect"
      BY <1>1, <1>2, <2>1, <2>2, ConnectIsSent, MoreLetters, WiderSeq, ConnectKind
    <2>4. ASSUME NEW m \in Outgoing(n)',
                 m.kind = "getPeerList" \/
                   (m = Message("data", n, q, c) /\ c.op = "send")
          PROVE  Append(t, m) \in Seq(Outgoing(n)') /\ PutBy(c, Append(t, m))
      <3>1. /\ Append(t, m) \in Seq(Outgoing(n)')
            /\ ToSet(Append(t, m)) = ToSet(t) \cup {m}
        BY <2>3, AppendToSet
      <3>2. \A x \in ToSet(Append(t, m)) : x.kind \in {"data", "flood"} =>
              /\ x.body = c /\ x.from = n
              /\ x.kind = "data" /\ c.op = "send" /\ c.to = x.to
        BY <2>3, <2>4, <3>1 DEF Message
      <3>3. \A i \in DOMAIN Append(t, m) :
              Append(t, m)[i].kind = "data" => i = Len(t) + 1
        <4>1. /\ DOMAIN Append(t, m) = 1..(Len(t) + 1) /\ Len(t) \in Nat
              /\ \A i \in 1..Len(t) : Append(t, m)[i] = t[i]
              /\ DOMAIN t = 1..Len(t)
          BY <2>3, <2>4, OneMoreCall
        <4>2. \A i \in 1..Len(t) : t[i] \in ToSet(t)
          BY <4>1 DEF ToSet
        <4> QED
          BY <2>3, <4>1, <4>2
      <3> QED
        BY <3>1, <3>2, <3>3 DEF PutBy
    <2>5. CASE connect(c)
      <3>1. put(n, t)
        BY <2>2, <2>5 DEF connect, Queue
      <3>2. PutBy(c, t)
        BY <2>3 DEF PutBy, ToSet
      <3> QED
        BY <1>0, <2>1, <2>3, <2>5, <3>1, <3>2 DEF connect, Make
    <2>6. CASE getPeerList(c)
      <3>1. PICK m : m = Message("getPeerList", n, q, NoNode)
        OBVIOUS
      <3>2. put(n, Append(t, m))
        BY <2>2, <2>6, <3>1 DEF getPeerList, Queue
      <3>3. m \in Outgoing(n)' /\ m.kind = "getPeerList"
        BY <1>1, <2>1, <3>1 DEF Outgoing, Letters, Message
      <3> QED
        BY <1>0, <2>1, <2>4, <2>6, <3>2, <3>3 DEF getPeerList, Make
    <2>7. CASE send(c)
      <3>1. PICK m : m = Message("data", n, q, c)
        OBVIOUS
      <3>2. put(n, Append(t, m))
        BY <2>2, <2>7, <3>1 DEF send, Queue
      <3>3. m \in Outgoing(n)' /\ c.op = "send"
        BY <1>1, <2>1, <2>7, <3>1 DEF Outgoing, Letters, Message, send, Make
      <3> QED
        BY <1>0, <2>1, <2>4, <3>1, <3>2, <3>3
    <2> QED
      BY <1>3, <2>5, <2>6, <2>7
  <1>4. CASE broadcast(c)
    <2> DEFINE kind == IF setup.mesh THEN "data" ELSE "flood"
    <2>0. PICK s : s = ToEach(Peers(n), kind, n, c)
      OBVIOUS
    <2>1. /\ put(n, s) /\ c.op = "broadcast"
          /\ hasSeenMessage' = IF Peers(n) = {} THEN hasSeenMessage
                               ELSE [hasSeenMessage EXCEPT ![n] = @ \cup {c}]
      BY <1>4, <2>0 DEF broadcast, Make
    <2>2. Peers(n) \in SUBSET (Nodes \ {n})
      BY <1>1, PeerTypes DEF RInv
    <2>3. /\ s \in Seq(Outgoing(n)')
          /\ \A i \in DOMAIN s : \E r \in Peers(n) : s[i] = Message(kind, n, r, c)
      <3>1. \A r \in Peers(n) : Message(kind, n, r, c) \in Outgoing(n)'
        BY <1>1, <2>2 DEF Outgoing, Letters, Message
      <3>2. IsFiniteSet(Peers(n))
        BY <2>2, FS_Subset, RouterAssumption
      <3>3. /\ SetToSeq(Peers(n)) \in Seq(Peers(n))
            /\ DOMAIN SetToSeq(Peers(n)) = 1..Cardinality(Peers(n))
            /\ Cardinality(Peers(n)) \in Nat
        BY <3>2, OrderedSet
      <3>4. s = [i \in 1..Cardinality(Peers(n)) |->
                   Message(kind, n, SetToSeq(Peers(n))[i], c)]
        BY <2>0, <3>3 DEF ToEach
      <3>5. \A i \in 1..Cardinality(Peers(n)) : SetToSeq(Peers(n))[i] \in Peers(n)
        BY <3>3
      <3> HIDE DEF kind
      <3>6. s \in [1..Cardinality(Peers(n)) -> Outgoing(n)']
        BY <3>1, <3>4, <3>5
      <3> QED
        BY <3>3, <3>4, <3>5, <3>6
    <2>4. \A i, j \in DOMAIN s : s[i].to = s[j].to => i = j
      BY <2>0, <2>2, ToEachOnce
    <2>5. PutBy(c, s)
      <3>1. \A m \in ToSet(s) : m.kind = kind /\ m.body = c /\ m.from = n
        BY <2>3 DEF ToSet, Message
      <3> QED
        BY <2>1, <2>4, <3>1 DEF PutBy
    <2>6. Peers(n) = {} => put(n, <<>>)
      <3>1. SUFFICES ASSUME Peers(n) = {} PROVE s = <<>>
        BY <2>1
      <3>2. DOMAIN s = {} /\ s \in Seq(Outgoing(n)')
        BY <2>3, <3>1
      <3> QED
        BY <3>2
    <2>7. /\ \A p \in Nodes : hasSeenMessage[p] \subseteq hasSeenMessage'[p]
          /\ Peers(n) # {} => c \in hasSeenMessage'[n]
      BY <1>1, <2>1 DEF RInv, ContentsInv
    <2> QED
      BY <1>0, <2>1, <2>3, <2>5, <2>6, <2>7
  <1> QED
    BY <1>3, <1>4

\* What is put on the buffer when a message is opened: no data, and of broadcasts
\* the one that was opened, which the node has seen then.
Answers(n, e, s) ==
  \A m \in ToSet(s) :
    /\ m.kind # "data"
    /\ m.kind = "flood" => e.msg.kind = "flood" /\ m.body = e.msg.body

\* What happens to the contents.
Contents(n, e) ==
  \/ UNCHANGED contents
  \/ /\ e.msg.kind = "data" /\ UNCHANGED hasSeenMessage
     /\ databuffer' = [databuffer EXCEPT ![n] = Append(@, e.msg.body)]
  \/ /\ e.msg.kind = "flood" /\ e.msg.body \notin hasSeenMessage[n]
     /\ hasSeenMessage' = [hasSeenMessage EXCEPT ![n] = @ \cup {e.msg.body}]
     /\ databuffer' = [databuffer EXCEPT ![n] = Append(@, e.msg.body)]

LEMMA NoAnswer ==
  ASSUME NEW n, NEW e
  PROVE  <<>> \in Seq(Outgoing(n)) /\ Answers(n, e, <<>>)
  BY NoData DEF Answers

LEMMA OneAnswer ==
  ASSUME NEW n, NEW e, NEW m \in Outgoing(n), m.kind \notin {"data", "flood"}
  PROVE  <<m>> \in Seq(Outgoing(n)) /\ Answers(n, e, <<m>>)
  <1>1. <<m>> \in Seq(Outgoing(n)) /\ ToSet(<<m>>) = {m}
    BY DEF ToSet
  <1> QED
    BY <1>1 DEF Answers

LEMMA MsgPuts ==
  ASSUME RInv, NEW n \in Nodes, NEW e, e = Head(rxbuffer[n]), msgThread(n)
  PROVE  /\ rxbuffer[n] # <<>> /\ e \in Opened(n) /\ \E kind : Open(n, kind, e)
         /\ \/ UNCHANGED txbuffer
            \/ \E s \in Seq(Outgoing(n)) : Answers(n, e, s) /\ put(n, s)
         /\ Contents(n, e)
         /\ \/ UNCHANGED peerAddressToSocket
            \/ /\ Unconnected(n, e.msg.from)
               /\ peerAddressToSocket' =
                    [peerAddressToSocket EXCEPT ![n][e.msg.from] = e.sock]
  <1>1. PICK m : m = e.msg
    OBVIOUS
  <1>2. rxbuffer[n] # <<>>
        /\ \/ openConnectNew(n, e, m) \/ openConnectKnown(n, e, m)
           \/ openAcceptedConnect(n, e, m) \/ openNewPeerUpdate(n, e, m)
           \/ openGetPeerList(n, e, m) \/ openSendPeerList(n, e, m)
           \/ openData(n, e, m) \/ openFlood(n, e, m) \/ openFloodSeen(n, e, m)
    BY <1>1 DEF msgThread
  <1>3. e \in Opened(n)
    BY <1>2, FirstOfSeq DEF RInv, RxInv
  <1>4. \E kind : Open(n, kind, e)
    BY <1>2 DEF openConnectNew, openConnectKnown, openAcceptedConnect,
         openNewPeerUpdate, openGetPeerList, openSendPeerList, openData,
         openFlood, openFloodSeen
  <1>5. /\ AcceptedMessage(n, m) \in Outgoing(n)
        /\ m.kind = "newPeer" => ConnectMessages(n, m.body) \in Seq(Outgoing(n))
        /\ Message("peerList", n, m.from, Peers(n) \ {m.from}) \in Outgoing(n)
        /\ m.kind = "peerList" =>
             ToEach({q \in m.body : q \notin Peers(n)}, "connect", n, NoNode)
               \in Seq(Outgoing(n))
        /\ ToEach(Peers(n) \ {m.from}, "newPeer", n, m.from) \in Seq(Outgoing(n))
        /\ m.kind = "flood" =>
             ToEach(Peers(n) \ {m.from}, "flood", n, m.body) \in Seq(Outgoing(n))
    BY <1>1, <1>3, AnswerTypes
  <1>6. AcceptedMessage(n, m).kind = "accepted"
    BY DEF AcceptedMessage, Message
  <1>7. \/ UNCHANGED peerAddressToSocket
        \/ /\ Unconnected(n, m.from)
           /\ peerAddressToSocket' =
                [peerAddressToSocket EXCEPT ![n][m.from] = e.sock]
    BY <1>2 DEF openConnectNew, openConnectKnown, openAcceptedConnect,
         openNewPeerUpdate, openGetPeerList, openSendPeerList, openData,
         openFlood, openFloodSeen, Answer
  <1>8. Contents(n, e)
    <2>1. CASE openData(n, e, m) \/ openFlood(n, e, m)
      BY <1>1, <2>1 DEF openData, openFlood, Open, Contents
    <2>2. CASE ~(openData(n, e, m) \/ openFlood(n, e, m))
      BY <1>2, <2>2 DEF openConnectNew, openConnectKnown, openAcceptedConnect,
           openNewPeerUpdate, openGetPeerList, openSendPeerList, openFloodSeen,
           Answer, Contents
    <2> QED
      BY <2>1, <2>2
  <1>9. \/ UNCHANGED txbuffer
        \/ \E s \in Seq(Outgoing(n)) : Answers(n, e, s) /\ put(n, s)
    <2>1. CASE openConnectNew(n, e, m)
      <3>1. PICK told : told = IF setup.mesh
                     THEN ToEach(Peers(n) \ {m.from}, "newPeer", n, m.from)
                     ELSE <<>>
        OBVIOUS
      <3>2. put(n, Append(told, AcceptedMessage(n, m)))
        BY <2>1, <3>1 DEF openConnectNew
      <3>3. told \in Seq(Outgoing(n)) /\ \A x \in ToSet(told) : x.kind = "newPeer"
        <4>1. <<>> \in Seq(Outgoing(n))
          OBVIOUS
        <4>2. CASE setup.mesh
          BY <1>5, <3>1, <4>2, ToEachKind
        <4>3. CASE ~setup.mesh
          BY <3>1, <4>1, <4>3, NoData
        <4> QED
          BY <4>2, <4>3
      <3>4. PICK x : x = AcceptedMessage(n, m)
        OBVIOUS
      <3>5. /\ Append(told, x) \in Seq(Outgoing(n))
            /\ ToSet(Append(told, x)) = ToSet(told) \cup {x}
        BY <1>5, <3>3, <3>4, AppendToSet
      <3>6. Answers(n, e, Append(told, x))
        BY <1>6, <3>3, <3>4, <3>5 DEF Answers
      <3> QED
        BY <3>2, <3>4, <3>5, <3>6
    <2>2. CASE openConnectKnown(n, e, m)
      BY <1>5, <1>6, <2>2, OneAnswer DEF openConnectKnown, Answer
    <2>3. CASE openAcceptedConnect(n, e, m) \/ openFloodSeen(n, e, m)
      BY <2>3, NoAnswer DEF openAcceptedConnect, openFloodSeen, Answer
    <2>4. CASE openNewPeerUpdate(n, e, m)
      <3>1. m.kind = "newPeer" /\ put(n, ConnectMessages(n, m.body))
        BY <1>1, <2>4 DEF openNewPeerUpdate, Open, Answer
      <3>2. Answers(n, e, ConnectMessages(n, m.body))
        BY ConnectKind DEF Answers
      <3> QED
        BY <1>5, <3>1, <3>2
    <2>5. CASE openGetPeerList(n, e, m)
      <3>1. PICK x : x = Message("peerList", n, m.from, Peers(n) \ {m.from})
        OBVIOUS
      <3>2. x \in Outgoing(n) /\ x.kind = "peerList" /\ put(n, <<x>>)
        BY <1>5, <2>5, <3>1 DEF openGetPeerList, Answer, Message
      <3> QED
        BY <3>2, OneAnswer
    <2>6. CASE openSendPeerList(n, e, m)
      <3>1. PICK t : t = ToEach({q \in m.body : q \notin Peers(n)}, "connect", n,
                                NoNode)
        OBVIOUS
      <3>2. m.kind = "peerList" /\ put(n, t)
        BY <1>1, <2>6, <3>1 DEF openSendPeerList, Open, Answer
      <3>3. Answers(n, e, t)
        BY <3>1, ToEachKind DEF Answers
      <3> QED
        BY <1>5, <3>1, <3>2, <3>3
    <2>7. CASE openData(n, e, m)
      BY <2>7 DEF openData
    <2>8. CASE openFlood(n, e, m)
      <3>1. PICK t : t = ToEach(Peers(n) \ {m.from}, "flood", n, m.body)
        OBVIOUS
      <3>2. m.kind = "flood" /\ put(n, IF m.from \in Peers(n) THEN t ELSE <<>>)
        BY <1>1, <2>8, <3>1 DEF openFlood, Open
      <3>3. t \in Seq(Outgoing(n)) /\ Answers(n, e, t)
        BY <1>1, <1>5, <3>1, <3>2, ToEachKind DEF Answers
      <3> QED
        BY <3>2, <3>3, NoAnswer
    <2> QED
      BY <1>2, <2>1, <2>2, <2>3, <2>4, <2>5, <2>6, <2>7, <2>8
  <1> QED
    BY <1>1, <1>2, <1>3, <1>4, <1>7, <1>8, <1>9

\* A message goes on a connection.
LEMMA SendFacts ==
  ASSUME RInv, NEW n \in Nodes, NEW m, sendOnSocket(n, m),
         NEW c, c = peerAddressToSocket[n][m.to]
  PROVE  /\ Transmit(n, m) /\ UNCHANGED <<created, closed, peerAddressToSocket>>
         /\ c \in Between(n, m.to) /\ ~IsClosed(c, m.to)
         /\ m \in Outgoing(n) /\ m.to \in Nodes \ {n}
         /\ wire[c][m.to] \in Seq(Letters) /\ m \in Letters
         /\ \A k \in created, q \in Nodes :
              wire'[k][q] = IF k = c /\ q = m.to THEN Append(wire[k][q], m)
                            ELSE wire[k][q]
  <1>1. /\ Transmit(n, m) /\ m.to \in Peers(n)
        /\ UNCHANGED <<created, closed, peerAddressToSocket>> /\ ~IsClosed(c, m.to)
        /\ wire' = [wire EXCEPT ![c][m.to] = Append(@, m)]
    BY DEF sendOnSocket
  <1>2. m \in Outgoing(n) /\ m.to \in Nodes \ {n} /\ m \in Letters
    BY <1>1, TransmitKept
  <1>3. c \in Between(n, m.to) /\ c \in created
    BY <1>1 DEF RInv, TableInv, Between
  <1>4. \A k \in created, q \in Nodes :
          wire'[k][q] = IF k = c /\ q = m.to THEN Append(wire[k][q], m)
                        ELSE wire[k][q]
    BY <1>1, <1>2, <1>3 DEF RInv, WireInv
  <1>5. wire[c][m.to] \in Seq(Incoming(m.to, c)) /\ Incoming(m.to, c) \subseteq Letters
    BY <1>2, <1>3 DEF RInv, WireInv, Incoming
  <1>6. wire[c][m.to] \in Seq(Letters)
    BY <1>5, WiderSeq
  <1> QED
    BY <1>1, <1>2, <1>3, <1>4, <1>6

LEMMA CreateFacts ==
  ASSUME RInv, NEW n \in Nodes, NEW m, createSocket(n, m),
         NEW sock, sock = NextSocket(n, m.to)
  PROVE  /\ Transmit(n, m) /\ UNCHANGED closed
         /\ created' = created \cup {sock} /\ sock \notin created
         /\ sock[1] = n /\ sock[2] = m.to /\ m.to \notin Peers(n)
         /\ m \in Outgoing(n) /\ m.to \in Nodes \ {n}
         /\ \A k \in created, q \in Nodes : wire'[k][q] = wire[k][q]
         /\ \A q \in Nodes : wire'[sock][q] = IF q = m.to THEN <<m>> ELSE <<>>
         /\ \A p, q \in Nodes :
              peerAddressToSocket'[p][q] = IF p = n /\ q = m.to THEN sock
                                           ELSE peerAddressToSocket[p][q]
         /\ ToSet(<<m>>) = {m}
  <1>1. /\ Transmit(n, m) /\ UNCHANGED closed /\ m.to \notin Peers(n)
        /\ created' = created \cup {sock}
        /\ wire' = [c \in created' |->
                      IF c = sock THEN [q \in Nodes |-> IF q = m.to THEN <<m>>
                                                        ELSE <<>>]
                      ELSE wire[c]]
        /\ peerAddressToSocket' = [peerAddressToSocket EXCEPT ![n][m.to] = sock]
    BY DEF createSocket, Connected
  <1>2. m \in Outgoing(n) /\ m.to \in Nodes \ {n}
    BY <1>1, TransmitKept
  <1>3. sock \notin created /\ sock[1] = n /\ sock[2] = m.to
    BY <1>2, NextIsNew DEF RInv
  <1>4. /\ \A k \in created, q \in Nodes : wire'[k][q] = wire[k][q]
        /\ \A q \in Nodes : wire'[sock][q] = IF q = m.to THEN <<m>> ELSE <<>>
    BY <1>1, <1>3
  <1>5. \A p, q \in Nodes :
          peerAddressToSocket'[p][q] = IF p = n /\ q = m.to THEN sock
                                       ELSE peerAddressToSocket[p][q]
    <2>1. TableInv
      BY DEF RInv
    <2> QED
      BY <1>1, <1>2, <2>1 DEF TableInv
  <1>6. ToSet(<<m>>) = {m}
    BY DEF ToSet
  <1> QED
    BY <1>1, <1>2, <1>3, <1>4, <1>5, <1>6

\* What a router that stops leaves.
LEMMA StopFacts ==
  ASSUME RInv, NEW c \in setup.calls, stop(c)
  PROVE  /\ Make(c, "stop", {}) /\ UNCHANGED created
         /\ \A k, p : IsClosed(k, p) => IsClosed(k, p)'
         /\ \A p \in Nodes :
              /\ \A k \in created :
                   wire'[k][p] = IF p = c.by THEN <<>> ELSE wire[k][p]
              /\ rxbuffer'[p] = IF p = c.by THEN <<>> ELSE rxbuffer[p]
              /\ txbuffer'[p] = IF p = c.by THEN <<>> ELSE txbuffer[p]
              /\ hasSeenMessage'[p] = IF p = c.by THEN {} ELSE hasSeenMessage[p]
              /\ databuffer'[p] = IF p = c.by THEN <<>> ELSE databuffer[p]
              /\ \A q \in Nodes :
                   peerAddressToSocket'[p][q] =
                     IF p = c.by THEN NoSocket ELSE peerAddressToSocket[p][q]
  <1> DEFINE n == c.by
             mine == {s \in created : n \in {s[1], s[2]} /\ ~IsClosed(s, n)}
  <1>1. /\ Make(c, "stop", {}) /\ Close(n, mine)
        /\ wire' = [s \in created |-> [wire[s] EXCEPT ![n] = <<>>]]
        /\ peerAddressToSocket' =
             [peerAddressToSocket EXCEPT ![n] = [q \in Nodes |-> NoSocket]]
        /\ rxbuffer' = [rxbuffer EXCEPT ![n] = <<>>]
        /\ txbuffer' = [txbuffer EXCEPT ![n] = <<>>]
        /\ hasSeenMessage' = [hasSeenMessage EXCEPT ![n] = {}]
        /\ databuffer' = [databuffer EXCEPT ![n] = <<>>]
        /\ UNCHANGED created
    BY DEF stop
  <1>2. \A k, p : IsClosed(k, p) => IsClosed(k, p)'
    BY <1>1, CloseFacts
  <1>3. \A p \in Nodes, k \in created :
          wire'[k][p] = IF p = n THEN <<>> ELSE wire[k][p]
    BY <1>1 DEF RInv, WireInv
  <1>4. \A p, q \in Nodes :
          peerAddressToSocket'[p][q] =
            IF p = n THEN NoSocket ELSE peerAddressToSocket[p][q]
    BY <1>1 DEF RInv, TableInv
  <1>5. \A p \in Nodes :
          /\ rxbuffer'[p] = IF p = n THEN <<>> ELSE rxbuffer[p]
          /\ txbuffer'[p] = IF p = n THEN <<>> ELSE txbuffer[p]
          /\ hasSeenMessage'[p] = IF p = n THEN {} ELSE hasSeenMessage[p]
          /\ databuffer'[p] = IF p = n THEN <<>> ELSE databuffer[p]
    BY <1>1 DEF RInv, RxInv, TxInv, ContentsInv
  <1> QED
    BY <1>1, <1>2, <1>3, <1>4, <1>5

-----------------------------------------------------------------------------
(* What the messages carry.                                                *)

InTransit(m) ==
  \E n \in Nodes :
    \/ m \in ToSet(txbuffer[n])
    \/ \E c \in created : m \in ToSet(wire[c][n])
    \/ \E r \in ToSet(rxbuffer[n]) : r.msg = m

LEMMA TransitTypes ==
  ASSUME RInv, CarriesInv, NEW m, InTransit(m)
  PROVE  m \in Letters /\ Carries(m)
  <1>1. PICK n \in Nodes :
          \/ m \in ToSet(txbuffer[n])
          \/ \E c \in created : m \in ToSet(wire[c][n])
          \/ \E r \in ToSet(rxbuffer[n]) : r.msg = m
    BY DEF InTransit
  <1>2. CASE m \in ToSet(txbuffer[n])
    BY <1>2, InToSet DEF RInv, TxInv, Outgoing, CarriesInv
  <1>3. ASSUME NEW c \in created, m \in ToSet(wire[c][n])
        PROVE  m \in Letters /\ Carries(m)
    <2>1. wire[c][n] \in Seq(Incoming(n, c))
      BY DEF RInv, WireInv
    <2>2. m \in Incoming(n, c)
      BY <1>3, <2>1, InToSet
    <2> QED
      BY <1>3, <2>2 DEF Incoming, CarriesInv
  <1>4. ASSUME NEW r \in ToSet(rxbuffer[n]), r.msg = m
        PROVE  m \in Letters /\ Carries(m)
    <2>1. rxbuffer[n] \in Seq([msg : Letters, sock : created])
      BY ReadTypes
    <2>2. r \in [msg : Letters, sock : created]
      <3> DEFINE S == [msg : Letters, sock : created]
      <3>1. rxbuffer[n] \in Seq(S)
        BY <2>1
      <3> HIDE DEF S
      <3>2. r \in S
        BY <3>1, InToSet
      <3> QED
        BY <3>2 DEF S
    <2> QED
      BY <1>4, <2>2 DEF CarriesInv
  <1> QED
    BY <1>1, <1>2, <1>3, <1>4

LEMMA CarriesKept ==
  ASSUME RInv, CarriesInv, UNCHANGED setup,
         \A m : InTransit(m)' => InTransit(m) \/ Carries(m)',
         \A a \in ToSet(made) :
           /\ ~Current(made, a) => ~Current(made', a)
           /\ a \in hasSeenMessage[a.by] =>
                a \in hasSeenMessage'[a.by] \/ ~Current(made', a)
  PROVE  CarriesInv'
  <1>1. ASSUME NEW m, InTransit(m)'
        PROVE  Carries(m)'
    <2>1. CASE InTransit(m)
      <3>1. m \in Letters /\ Carries(m)
        BY <2>1, TransitTypes
      <3>2. m.kind = "flood" => m.body \in ToSet(made)
        BY <3>1, LetterTypes
      <3> QED
        BY <3>1, <3>2 DEF Carries
    <2> QED
      BY <1>1, <2>1
  <1> QED
    BY <1>1 DEF CarriesInv, InTransit

LEMMA CarriesSame ==
  ASSUME RInv, CarriesInv, UNCHANGED <<setup, made, hasSeenMessage>>,
         \A m : InTransit(m)' => InTransit(m)
  PROVE  CarriesInv'
  BY CarriesKept

LEMMA CarriesCall ==
  ASSUME RInv, CarriesInv, NEW c \in setup.calls,
         connect(c) \/ getPeerList(c) \/ send(c) \/ broadcast(c)
  PROVE  CarriesInv'
  <1>1. PICK whom : Make(c, c.op, whom)
    BY CallPuts
  <1>2. /\ made \in Seq(setup.calls) /\ made' = Append(made, c)
        /\ ToSet(made)' = ToSet(made) \cup {c} /\ c \notin ToSet(made)
        /\ c.by \in Nodes /\ UNCHANGED setup
    BY <1>1, NewCall
  <1>3. PICK s \in Seq(Outgoing(c.by)') : PutBy(c, s) /\ put(c.by, s)
    BY CallPuts
  <1>4. /\ UNCHANGED <<created, wire, rxbuffer>>
        /\ \A n \in Nodes : hasSeenMessage[n] \subseteq hasSeenMessage'[n]
        /\ c.op = "broadcast" =>
             \/ c \in hasSeenMessage'[c.by]
             \/ put(c.by, <<>>)
    BY CallPuts
  <1>5. ASSUME NEW a \in ToSet(made)
        PROVE  /\ ~Current(made, a) => ~Current(made', a)
               /\ a \in hasSeenMessage[a.by] =>
                    a \in hasSeenMessage'[a.by] \/ ~Current(made', a)
    <2>1. a.by \in Nodes
      BY <1>2, InToSet, CallTypes DEF RInv
    <2> QED
      BY <1>2, <1>4, <2>1, LivesStay
  <1>6. ASSUME NEW m, InTransit(m)', ~InTransit(m)
        PROVE  Carries(m)'
    <2>1. m \in ToSet(txbuffer'[c.by]) /\ m \notin ToSet(txbuffer[c.by])
      <3>1. \A p \in Nodes : p # c.by => txbuffer'[p] = txbuffer[p]
        BY <1>2, <1>3, TxPut
      <3> QED
        BY <1>4, <1>6, <3>1 DEF InTransit
    <2>2. m \in ToSet(s)
      BY <1>2, <1>3, <2>1, TxPut
    <2>3. ~put(c.by, <<>>)
      <3>1. SUFFICES ASSUME put(c.by, <<>>) PROVE FALSE
        OBVIOUS
      <3>2. txbuffer'[c.by] = txbuffer[c.by] \o <<>>
        BY <1>2, <3>1 DEF put, RInv, TxInv
      <3>3. txbuffer[c.by] \in Seq(Outgoing(c.by))
        BY <1>2 DEF RInv, TxInv
      <3>4. txbuffer'[c.by] = txbuffer[c.by]
        BY <3>2, <3>3
      <3> QED
        BY <2>1, <3>4
    <2> QED
      BY <1>2, <1>3, <1>4, <2>2, <2>3 DEF PutBy, Carries
  <1> QED
    BY <1>2, <1>5, <1>6, CarriesKept

LEMMA CarriesStop ==
  ASSUME RInv, CarriesInv, NEW c \in setup.calls, stop(c)
  PROVE  CarriesInv'
  <1>1. /\ Make(c, "stop", {}) /\ UNCHANGED created
        /\ \A p \in Nodes :
             /\ \A k \in created :
                  wire'[k][p] = IF p = c.by THEN <<>> ELSE wire[k][p]
             /\ rxbuffer'[p] = IF p = c.by THEN <<>> ELSE rxbuffer[p]
             /\ txbuffer'[p] = IF p = c.by THEN <<>> ELSE txbuffer[p]
             /\ hasSeenMessage'[p] = IF p = c.by THEN {} ELSE hasSeenMessage[p]
    BY StopFacts
  <1>2. /\ made \in Seq(setup.calls) /\ made' = Append(made, c)
        /\ c \notin ToSet(made) /\ c.op = "stop" /\ UNCHANGED setup
    BY <1>1, NewCall
  <1>3. ASSUME NEW a \in ToSet(made)
        PROVE  /\ ~Current(made, a) => ~Current(made', a)
               /\ a \in hasSeenMessage[a.by] =>
                    a \in hasSeenMessage'[a.by] \/ ~Current(made', a)
    <2>1. a.by \in Nodes
      BY <1>2, InToSet, CallTypes DEF RInv
    <2>2. /\ ~Current(made, a) => ~Current(made', a)
          /\ c.by = a.by => ~Current(made', a)
      BY <1>2, LivesStay
    <2> QED
      BY <1>1, <2>1, <2>2
  <1>4. \A m : InTransit(m)' => InTransit(m)
    BY <1>1, NoData DEF InTransit
  <1> QED
    BY <1>2, <1>3, <1>4, CarriesKept

LEMMA CarriesTxThread ==
  ASSUME RInv, CarriesInv, NEW n \in Nodes, txThread(n)
  PROVE  CarriesInv'
  <1>0. PICK m : m = Head(txbuffer[n])
    OBVIOUS
  <1>1. Transmit(n, m)
    BY <1>0 DEF txThread, sendOnSocket, sendIntoTheVoid, createSocket, Connected,
         refuse
  <1>2. /\ \A p \in Nodes : ToSet(txbuffer'[p]) \subseteq ToSet(txbuffer[p])
        /\ m \in ToSet(txbuffer[n])
        /\ UNCHANGED <<setup, made, hasSeenMessage, rxbuffer>>
    BY <1>1, TxTail DEF Transmit
  <1>3. \A k \in created', p \in Nodes : \A x \in ToSet(wire'[k][p]) :
          x = m \/ (k \in created /\ x \in ToSet(wire[k][p]))
    <2>1. CASE sendOnSocket(n, m)
      <3>1. PICK c : c = peerAddressToSocket[n][m.to]
        OBVIOUS
      <3>2. /\ UNCHANGED created /\ c \in Between(n, m.to)
            /\ wire[c][m.to] \in Seq(Letters) /\ m \in Letters
            /\ \A k \in created, q \in Nodes :
                 wire'[k][q] = IF k = c /\ q = m.to THEN Append(wire[k][q], m)
                               ELSE wire[k][q]
        BY <2>1, <3>1, SendFacts
      <3>3. ToSet(Append(wire[c][m.to], m)) = ToSet(wire[c][m.to]) \cup {m}
        BY <3>2, AppendToSet
      <3> QED
        BY <3>2, <3>3
    <2>2. CASE createSocket(n, m)
      <3>1. PICK c : c = NextSocket(n, m.to)
        OBVIOUS
      <3>2. /\ created' = created \cup {c} /\ ToSet(<<m>>) = {m}
            /\ \A k \in created, q \in Nodes : wire'[k][q] = wire[k][q]
            /\ \A q \in Nodes : wire'[c][q] = IF q = m.to THEN <<m>> ELSE <<>>
        BY <2>2, <3>1, CreateFacts
      <3> QED
        BY <3>2, NoData
    <2>3. CASE sendIntoTheVoid(n, m) \/ refuse(n, m)
      BY <2>3 DEF sendIntoTheVoid, refuse
    <2> QED
      BY <1>0, <2>1, <2>2, <2>3 DEF txThread
  <1>4. \A x : InTransit(x)' => InTransit(x)
    BY <1>2, <1>3 DEF InTransit
  <1> QED
    BY <1>2, <1>4, CarriesSame

LEMMA CarriesRxThread ==
  ASSUME RInv, CarriesInv, NEW n \in Nodes, rxThread(n)
  PROVE  CarriesInv'
  <1>1. UNCHANGED <<setup, made, created, txbuffer, hasSeenMessage>>
    BY DEF rxThread, handleNewConnection, handleExistingConnection, readInVain,
         removeSocket, removeResetSocket, EndOfStream
  <1>2. PICK c \in created :
          \/ Read(n, c)
          \/ /\ UNCHANGED rxbuffer /\ wire[c][n] # <<>>
             /\ wire' = [wire EXCEPT ![c][n] = Tail(@)]
          \/ UNCHANGED <<wire, rxbuffer>>
    BY DEF rxThread, handleNewConnection, handleExistingConnection, readInVain,
         removeSocket, removeResetSocket, EndOfStream
  <1>3. PICK m : m = Head(wire[c][n])
    OBVIOUS
  <1>4. ASSUME wire[c][n] # <<>>, wire' = [wire EXCEPT ![c][n] = Tail(@)]
        PROVE  /\ \A k \in created, q \in Nodes :
                    ToSet(wire'[k][q]) \subseteq ToSet(wire[k][q])
               /\ m \in ToSet(wire[c][n])
    BY <1>3, <1>4, WireTail
  <1>5. \A x : InTransit(x)' => InTransit(x)
    <2>1. CASE Read(n, c)
      <3>1. /\ \A k \in created, q \in Nodes :
                 ToSet(wire'[k][q]) \subseteq ToSet(wire[k][q])
            /\ m \in ToSet(wire[c][n])
        BY <1>4, <2>1 DEF Read
      <3>2. \A q \in Nodes : \A r \in ToSet(rxbuffer'[q]) :
              r \in ToSet(rxbuffer[q]) \/ r.msg = m
        BY <1>3, <2>1, RxAppend
      <3> QED
        BY <1>1, <3>1, <3>2 DEF InTransit
    <2>2. CASE /\ UNCHANGED rxbuffer /\ wire[c][n] # <<>>
               /\ wire' = [wire EXCEPT ![c][n] = Tail(@)]
      BY <1>1, <1>4, <2>2 DEF InTransit
    <2>3. CASE UNCHANGED <<wire, rxbuffer>>
      BY <1>1, <2>3 DEF InTransit
    <2> QED
      BY <1>2, <2>1, <2>2, <2>3
  <1> QED
    BY <1>1, <1>5, CarriesSame

LEMMA CarriesMsgThread ==
  ASSUME RInv, CarriesInv, NEW n \in Nodes, msgThread(n)
  PROVE  CarriesInv'
  <1>0. PICK e : e = Head(rxbuffer[n])
    OBVIOUS
  <1>1. /\ rxbuffer[n] # <<>> /\ e \in Opened(n) /\ \E kind : Open(n, kind, e)
        /\ \/ UNCHANGED txbuffer
           \/ \E s \in Seq(Outgoing(n)) : Answers(n, e, s) /\ put(n, s)
        /\ Contents(n, e)
    BY <1>0, MsgPuts
  <1>2. /\ rxbuffer' = [rxbuffer EXCEPT ![n] = Tail(@)]
        /\ UNCHANGED <<setup, made, created, wire>>
    BY <1>1 DEF Open
  <1>3. /\ e \in ToSet(rxbuffer[n])
        /\ \A q \in Nodes : ToSet(rxbuffer'[q]) \subseteq ToSet(rxbuffer[q])
    BY <1>0, <1>1, <1>2, RxTail
  <1>4. InTransit(e.msg)
    BY <1>3 DEF InTransit
  <1>5. Carries(e.msg)
    BY <1>4, TransitTypes
  <1>6. \A p \in Nodes : hasSeenMessage[p] \subseteq hasSeenMessage'[p]
    BY <1>1 DEF Contents, RInv, ContentsInv
  <1>7. ASSUME NEW a \in ToSet(made)
        PROVE  a \in hasSeenMessage[a.by] => a \in hasSeenMessage'[a.by]
    BY <1>6, InToSet, CallTypes DEF RInv, CallsInv
  <1>8. e.msg.kind = "flood" =>
          /\ e.msg.body.op = "broadcast" /\ ~setup.mesh
          /\ e.msg.body \in hasSeenMessage'[e.msg.body.by]
             \/ ~Current(made, e.msg.body)
    <2>1. e.msg.kind = "flood" => e.msg.body \in ToSet(made)
      BY <1>1, LetterTypes DEF Opened
    <2> QED
      BY <1>5, <1>7, <2>1 DEF Carries
  <1>9. ASSUME NEW x, InTransit(x)', ~InTransit(x)
        PROVE  Carries(x)'
    <2>1. PICK p \in Nodes : x \in ToSet(txbuffer'[p]) /\ x \notin ToSet(txbuffer[p])
      BY <1>2, <1>3, <1>9 DEF InTransit
    <2>2. PICK s \in Seq(Outgoing(n)) : Answers(n, e, s) /\ put(n, s)
      BY <1>1, <2>1
    <2>3. s \in Seq(Outgoing(n)')
      BY <1>2, MoreLetters, WiderSeq
    <2>4. x \in ToSet(s)
      BY <2>1, <2>2, <2>3, TxPut
    <2> QED
      BY <1>2, <1>8, <2>2, <2>4 DEF Answers, Carries
  <1> QED
    BY <1>2, <1>7, <1>9, CarriesKept

LEMMA CarriesNext ==
  ASSUME RInv, CarriesInv, [Next]_vars
  PROVE  CarriesInv'
  <1>1. CASE UNCHANGED vars
    BY <1>1, CarriesSame DEF vars, InTransit
  <1>2. CASE \E c \in setup.calls : connect(c) \/ getPeerList(c) \/ send(c)
                                      \/ broadcast(c) \/ stop(c)
    BY <1>2, CarriesCall, CarriesStop
  <1>3. ASSUME NEW n \in Nodes, start(n)
        PROVE  CarriesInv'
    BY <1>3, CarriesSame DEF start, InTransit
  <1> QED
    BY <1>1, <1>2, <1>3, CarriesTxThread, CarriesRxThread, CarriesMsgThread
    DEF Next

-----------------------------------------------------------------------------
(* Each call is made once, and a broadcast that was received was seen.      *)

LEMMA Receives ==
  ASSUME RInv, NEW n \in Nodes, NEW e \in Opened(n),
         e.msg.kind \in {"data", "flood"},
         databuffer' = [databuffer EXCEPT ![n] = Append(@, e.msg.body)]
  PROVE  /\ e.msg.body \in ToSet(made)
         /\ \A p \in Nodes \ {n} : databuffer'[p] = databuffer[p]
         /\ databuffer'[n] = Append(databuffer[n], e.msg.body)
         /\ ToSet(databuffer'[n]) = ToSet(databuffer[n]) \cup {e.msg.body}
  <1>1. e.msg.body \in ToSet(made)
    BY LetterTypes DEF Opened
  <1>2. databuffer \in [Nodes -> Seq(ToSet(made))]
    BY DEF RInv, ContentsInv
  <1>3. PICK b : b = e.msg.body
    OBVIOUS
  <1>4. ToSet(Append(databuffer[n], b)) = ToSet(databuffer[n]) \cup {b}
    BY <1>1, <1>2, <1>3, AppendToSet
  <1> QED
    BY <1>1, <1>2, <1>3, <1>4

LEMMA OnceSame ==
  ASSUME OnceInv, UNCHANGED <<setup, made, contents>>
  PROVE  OnceInv'
  BY DEF OnceInv, Direct

LEMMA OnceCall ==
  ASSUME RInv, OnceInv, NEW c \in setup.calls,
         connect(c) \/ getPeerList(c) \/ send(c) \/ broadcast(c) \/ stop(c)
  PROVE  OnceInv'
  <1>1. PICK whom : Make(c, c.op, whom)
    BY CallPuts, StopFacts DEF Make
  <1>2. /\ made \in Seq(setup.calls) /\ made' = Append(made, c)
        /\ c \notin ToSet(made) /\ UNCHANGED setup
    BY <1>1, NewCall
  <1>3. \A p \in Nodes :
          \/ /\ databuffer'[p] = databuffer[p]
             /\ hasSeenMessage[p] \subseteq hasSeenMessage'[p]
          \/ databuffer'[p] = <<>>
    <2>1. CASE stop(c)
      BY <2>1, StopFacts
    <2>2. CASE ~stop(c)
      BY <2>2, CallPuts
    <2> QED
      BY <2>1, <2>2
  <1>4. \A n \in Nodes : \A a \in ToSet(databuffer'[n]) :
          Direct(a)' \/ a \in hasSeenMessage'[n]
    BY <1>2, <1>3, NoData DEF OnceInv, Direct
  <1>5. \A i, j \in DOMAIN made' : made'[i] = made'[j] => i = j
    <2>1. /\ DOMAIN made = 1..Len(made) /\ Len(made) \in Nat
          /\ DOMAIN made' = 1..(Len(made) + 1) /\ made'[Len(made) + 1] = c
          /\ \A i \in 1..Len(made) : made'[i] = made[i]
      BY <1>2, OneMoreCall
    <2>2. \A i \in 1..Len(made) : made'[i] # c
      BY <1>2, <2>1 DEF ToSet
    <2> QED
      BY <2>1, <2>2 DEF OnceInv
  <1> QED
    BY <1>4, <1>5 DEF OnceInv

LEMMA OnceMsgThread ==
  ASSUME RInv, CarriesInv, OnceInv, NEW n \in Nodes, msgThread(n)
  PROVE  OnceInv'
  <1>0. PICK e : e = Head(rxbuffer[n])
    OBVIOUS
  <1>1. /\ rxbuffer[n] # <<>> /\ e \in Opened(n) /\ \E kind : Open(n, kind, e)
        /\ Contents(n, e)
    BY <1>0, MsgPuts
  <1>2. /\ rxbuffer' = [rxbuffer EXCEPT ![n] = Tail(@)]
        /\ UNCHANGED <<setup, made>>
    BY <1>1 DEF Open
  <1>3. e \in ToSet(rxbuffer[n])
    BY <1>0, <1>1, <1>2, RxTail
  <1>4. e.msg.kind = "data" => Direct(e.msg.body)
    BY <1>3 DEF CarriesInv, Carries, Direct
  <1>5. CASE UNCHANGED contents
    BY <1>2, <1>5, OnceSame
  <1>6. CASE /\ e.msg.kind = "data" /\ UNCHANGED hasSeenMessage
             /\ databuffer' = [databuffer EXCEPT ![n] = Append(@, e.msg.body)]
    <2>1. /\ ToSet(databuffer'[n]) = ToSet(databuffer[n]) \cup {e.msg.body}
          /\ \A p \in Nodes \ {n} : databuffer'[p] = databuffer[p]
      BY <1>1, <1>6, Receives
    <2> QED
      BY <1>2, <1>4, <1>6, <2>1 DEF OnceInv, Direct
  <1>7. CASE /\ e.msg.kind = "flood"
             /\ hasSeenMessage' = [hasSeenMessage EXCEPT ![n] = @ \cup {e.msg.body}]
             /\ databuffer' = [databuffer EXCEPT ![n] = Append(@, e.msg.body)]
    <2>1. /\ ToSet(databuffer'[n]) = ToSet(databuffer[n]) \cup {e.msg.body}
          /\ \A p \in Nodes \ {n} : databuffer'[p] = databuffer[p]
      BY <1>1, <1>7, Receives
    <2>2. \A p \in Nodes : hasSeenMessage'[p] = hasSeenMessage[p] \cup
                             (IF p = n THEN {e.msg.body} ELSE {})
      BY <1>7 DEF RInv, ContentsInv
    <2> QED
      BY <1>2, <2>1, <2>2 DEF OnceInv, Direct
  <1> QED
    BY <1>1, <1>5, <1>6, <1>7 DEF Contents

-----------------------------------------------------------------------------
(* The order, step by step.                                                *)

LEMMA OrderStays ==
  ASSUME RInv, NEW s \in Seq(Letters), InOrder(made, s),
         \A a, b \in ToSet(made) : InTurn(made, a, b) => InTurn(made', a, b)
  PROVE  InOrder(made', s)
  <1>1. DOMAIN s = 1..Len(s) /\ \A i \in DOMAIN s : s[i] \in Letters
    OBVIOUS
  <1>2. \A i \in DOMAIN s : s[i].kind = "data" => s[i].body \in ToSet(made)
    BY <1>1, LetterTypes
  <1> QED
    BY <1>2 DEF InOrder

LEMMA StagesAreLetters ==
  ASSUME RInv, NEW q \in Nodes
  PROVE  /\ txbuffer[q] \in Seq(Letters) /\ Messages(rxbuffer[q]) \in Seq(Letters)
         /\ \A c \in created : wire[c][q] \in Seq(Letters)
  <1>1. txbuffer[q] \in Seq(Letters)
    <2>1. txbuffer[q] \in Seq(Outgoing(q)) /\ Outgoing(q) \subseteq Letters
      BY DEF RInv, TxInv, Outgoing
    <2> QED
      BY <2>1, WiderSeq
  <1>2. Messages(rxbuffer[q]) \in Seq(Letters)
    BY ReadTypes, MessagesOf
  <1>3. ASSUME NEW c \in created
        PROVE  wire[c][q] \in Seq(Letters)
    <2>1. wire[c][q] \in Seq(Incoming(q, c)) /\ Incoming(q, c) \subseteq Letters
      BY DEF RInv, WireInv, Incoming
    <2> QED
      BY <2>1, WiderSeq
  <1> QED
    BY <1>1, <1>2, <1>3

LEMMA OrderCall ==
  ASSUME RInv, CarriesInv, OrderInv, NEW c \in setup.calls,
         connect(c) \/ getPeerList(c) \/ send(c) \/ broadcast(c)
  PROVE  OrderInv'
  <1>1. PICK whom : Make(c, c.op, whom)
    BY CallPuts
  <1>2. /\ made \in Seq(setup.calls) /\ made' = Append(made, c)
        /\ c \notin ToSet(made) /\ c.by \in Nodes /\ UNCHANGED setup
    BY <1>1, NewCall
  <1>3. PICK s \in Seq(Outgoing(c.by)') : PutBy(c, s) /\ put(c.by, s)
    BY CallPuts
  <1>4. UNCHANGED <<created, closed, wire, rxbuffer, databuffer>>
    BY CallPuts
  <1>5. /\ \A a, b \in ToSet(made) : InTurn(made, a, b) => InTurn(made', a, b)
        /\ \A a \in ToSet(made) : InTurn(made', a, c)
    BY <1>2, TurnsStay
  <1>6. /\ \A q : Received(q)' = Received(q) /\ ToOpen(q)' = ToOpen(q)
        /\ \A k, q : ToRead(k, q)' = ToRead(k, q) /\ IsClosed(k, q)' = IsClosed(k, q)
    BY <1>2, <1>4 DEF Received, ToOpen, ToRead, Direct, Messages, Data, IsClosed
  <1>7. \A n, q \in Nodes : \A b \in ToTransmit(n, q)' : b \in ToTransmit(n, q) \/ b = c
    <2>1. \A q : \A b \in Data(s, q) : b = c
      BY <1>3, DataIn DEF PutBy
    <2> QED
      BY <1>2, <1>3, <2>1, TxPut
  <1>8. \A q \in Nodes :
          /\ InOrder(made', Messages(rxbuffer[q])) /\ InOrder(made', txbuffer[q])
          /\ \A k \in created : ~IsClosed(k, q) => InOrder(made', wire[k][q])
    BY <1>5, OrderParts, OrderStays, StagesAreLetters
  <1>9. InOrder(made', s)
    BY <1>3, SMTT(20) DEF InOrder, PutBy
  <1>10. ASSUME NEW q \in Nodes
         PROVE  InOrder(made', txbuffer'[q])
    <2>1. \A m \in ToSet(s) : m.kind = "data" =>
            m.body = c /\ Ahead(made', ToTransmit(c.by, m.to), {c})
      <3>1. \A m \in ToSet(s) : m.to \in Nodes
        BY <1>3, InToSet DEF Outgoing, Letters
      <3> QED
        BY <1>2, <1>3, <1>5, <3>1, StageTypes DEF PutBy, Ahead
    <2>2. CASE q = c.by
      <3>1. \A calls :
              /\ InOrder(calls, txbuffer[c.by]) /\ InOrder(calls, s)
              /\ \A m \in ToSet(s) : m.kind = "data" =>
                   Ahead(calls, ToTransmit(c.by, m.to), {m.body})
              => InOrder(calls, txbuffer'[c.by])
        BY <1>2, <1>3, TxPut
      <3>2. \A m \in ToSet(s) : m.kind = "data" =>
              Ahead(made', ToTransmit(c.by, m.to), {m.body})
        BY <2>1
      <3>3. InOrder(made', txbuffer[c.by])
        BY <1>2, <1>8
      <3> QED
        BY <1>9, <2>2, <3>1, <3>2, <3>3
    <2>3. CASE q # c.by
      <3>1. txbuffer'[q] = txbuffer[q]
        BY <1>2, <1>3, <2>3, TxPut
      <3> QED
        BY <1>8, <3>1
    <2> QED
      BY <2>2, <2>3
  <1> SUFFICES ASSUME NEW q \in Nodes
               PROVE  OrderTo(q)'
    BY DEF OrderInv
  <1>11. \A a, b : \/ b = c /\ a \in ToSet(made)
                   \/ InTurn(made, a, b) /\ a \in ToSet(made) /\ b \in ToSet(made)
                   => InTurn(made', a, b)
    BY <1>5
  <1>12. \A a \in Received(q)', b \in ToOpen(q)' : InTurn(made', a, b)
    BY <1>6, <1>11, OrderParts, StageTypes
  <1>13. \A n \in Nodes : \A a \in Received(q)' \cup ToOpen(q)', b \in ToTransmit(n, q)' :
           InTurn(made', a, b)
    BY <1>6, <1>7, <1>11, OrderParts, StageTypes
  <1>14. ASSUME NEW l \in created
         PROVE  /\ ~IsClosed(l, q)' => InOrder(made', wire'[l][q])
                /\ \A a \in Received(q)' \cup ToOpen(q)', b \in ToRead(l, q)' :
                     InTurn(made', a, b)
                /\ \A n \in Nodes : \A a \in ToRead(l, q)', b \in ToTransmit(n, q)' :
                     InTurn(made', a, b)
                /\ \A k \in created \ {l} : \A a \in ToRead(l, q)', b \in ToRead(k, q)' :
                     InTurn(made', a, b)
    <2>1. ~IsClosed(l, q)' => InOrder(made', wire'[l][q])
      BY <1>4, <1>6, <1>8
    <2>2. \A a \in Received(q)' \cup ToOpen(q)', b \in ToRead(l, q)' :
            InTurn(made', a, b)
      BY <1>6, <1>11, OrderParts, StageTypes
    <2>3. \A n \in Nodes : \A a \in ToRead(l, q)', b \in ToTransmit(n, q)' :
            InTurn(made', a, b)
      BY <1>6, <1>7, <1>11, OrderParts, StageTypes
    <2>4. \A k \in created \ {l} : \A a \in ToRead(l, q)', b \in ToRead(k, q)' :
            InTurn(made', a, b)
      BY <1>6, <1>11, OrderParts, StageTypes
    <2> QED
      BY <2>1, <2>2, <2>3, <2>4
  <1>15. InOrder(made', Messages(rxbuffer'[q])) /\ InOrder(made', txbuffer'[q])
    BY <1>4, <1>8, <1>10
  <1> QED
    BY <1>4, <1>12, <1>13, <1>14, <1>15 DEF OrderTo, Ahead

LEMMA OrderStop ==
  ASSUME RInv, CarriesInv, OrderInv, NEW c \in setup.calls, stop(c)
  PROVE  OrderInv'
  <1>1. /\ Make(c, "stop", {}) /\ UNCHANGED created
        /\ \A k, p : IsClosed(k, p) => IsClosed(k, p)'
        /\ \A p \in Nodes :
             /\ \A k \in created :
                  wire'[k][p] = IF p = c.by THEN <<>> ELSE wire[k][p]
             /\ rxbuffer'[p] = IF p = c.by THEN <<>> ELSE rxbuffer[p]
             /\ txbuffer'[p] = IF p = c.by THEN <<>> ELSE txbuffer[p]
             /\ databuffer'[p] = IF p = c.by THEN <<>> ELSE databuffer[p]
    BY StopFacts
  <1>2. /\ made \in Seq(setup.calls) /\ made' = Append(made, c)
        /\ c \notin ToSet(made) /\ UNCHANGED setup
    BY <1>1, NewCall
  <1>3. \A a, b \in ToSet(made) : InTurn(made, a, b) => InTurn(made', a, b)
    BY <1>2, TurnsStay
  <1>4. Messages(<<>>) = <<>>
    BY DEF Messages
  <1>5. ASSUME NEW q \in Nodes
        PROVE  /\ Received(q)' \subseteq Received(q) /\ ToOpen(q)' \subseteq ToOpen(q)
               /\ InOrder(made', Messages(rxbuffer'[q]))
               /\ InOrder(made', txbuffer'[q])
    <2>1. InOrder(made', Messages(rxbuffer[q])) /\ InOrder(made', txbuffer[q])
      BY <1>3, OrderParts, OrderStays, StagesAreLetters
    <2>2. CASE q = c.by
      <3>1. rxbuffer'[q] = <<>> /\ txbuffer'[q] = <<>> /\ databuffer'[q] = <<>>
        BY <1>1, <2>2
      <3>2. Received(q)' = {} /\ ToOpen(q)' = {}
        <4>1. ToOpen(q)' = Data(Messages(rxbuffer'[q]), q)
          BY DEF ToOpen, Messages
        <4> QED
          BY <1>4, <3>1, <4>1, NoData DEF Received
      <3> QED
        BY <1>4, <3>1, <3>2, NoData
    <2>3. CASE q # c.by
      <3>1. /\ rxbuffer'[q] = rxbuffer[q] /\ txbuffer'[q] = txbuffer[q]
            /\ databuffer'[q] = databuffer[q]
        BY <1>1, <2>3
      <3>2. ToOpen(q)' = ToOpen(q) /\ Received(q)' = Received(q)
        BY <1>2, <3>1 DEF ToOpen, Received, Direct, Messages
      <3> QED
        BY <2>1, <3>1, <3>2
    <2> QED
      BY <2>2, <2>3
  <1>6. \A n, q \in Nodes : ToTransmit(n, q)' \subseteq ToTransmit(n, q)
    BY <1>1, NoData DEF ToTransmit
  <1>7. ASSUME NEW k \in created, NEW q \in Nodes
        PROVE  /\ ~IsClosed(k, q)' => InOrder(made', wire'[k][q])
               /\ ToRead(k, q)' \subseteq ToRead(k, q)
    <2>1. ~IsClosed(k, q) => InOrder(made', wire[k][q])
      BY <1>3, OrderParts, OrderStays, StagesAreLetters
    <2> QED
      BY <1>1, <2>1, NoData DEF ToRead
  <1> QED
    BY <1>1, <1>3, <1>5, <1>6, <1>7, OrderQuiet

\* Nothing but a buffer or a connection loses something.
LEMMA OrderLoses ==
  ASSUME RInv, CarriesInv, OrderInv,
         UNCHANGED <<setup, made, created, rxbuffer, databuffer>>,
         \A k, p : IsClosed(k, p) => IsClosed(k, p)',
         \A p, q \in Nodes : ToTransmit(p, q)' \subseteq ToTransmit(p, q),
         \A p \in Nodes : InOrder(made, txbuffer'[p]),
         \A k \in created, q \in Nodes :
           /\ Data(wire'[k][q], q) \subseteq Data(wire[k][q], q)
           /\ InOrder(made, wire[k][q]) => InOrder(made, wire'[k][q])
  PROVE  OrderInv'
  <1>1. \A q : Received(q)' = Received(q) /\ ToOpen(q)' = ToOpen(q)
    BY DEF Received, ToOpen, Direct, Messages
  <1>2. \A k \in created, q \in Nodes :
          /\ ~IsClosed(k, q)' => InOrder(made, wire'[k][q])
          /\ ToRead(k, q)' \subseteq ToRead(k, q)
    BY OrderParts DEF ToRead
  <1>3. \A q \in Nodes : InOrder(made, Messages(rxbuffer[q]))
    BY OrderParts
  <1> QED
    BY <1>1, <1>2, <1>3, OrderQuiet

LEMMA OrderSame ==
  ASSUME RInv, CarriesInv, OrderInv,
         UNCHANGED <<setup, made, created, wire, txbuffer, rxbuffer, databuffer>>,
         \A k, p : IsClosed(k, p) => IsClosed(k, p)'
  PROVE  OrderInv'
  <1>1. /\ \A p, q \in Nodes : ToTransmit(p, q)' = ToTransmit(p, q)
        /\ \A p \in Nodes : InOrder(made, txbuffer'[p])
    BY OrderParts DEF ToTransmit
  <1> QED
    BY <1>1, OrderLoses

LEMMA OrderSend ==
  ASSUME RInv, CarriesInv, OnceInv, OrderInv, CurrentInv,
         NEW n \in Nodes, NEW m, sendOnSocket(n, m)
  PROVE  OrderInv'
  <1>1. PICK c : c = peerAddressToSocket[n][m.to]
    OBVIOUS
  <1>2. /\ Transmit(n, m) /\ UNCHANGED <<created, closed>>
        /\ c \in Between(n, m.to) /\ ~IsClosed(c, m.to)
        /\ m.to \in Nodes \ {n} /\ m \in Letters /\ wire[c][m.to] \in Seq(Letters)
        /\ \A k \in created, q \in Nodes :
             wire'[k][q] = IF k = c /\ q = m.to THEN Append(wire[k][q], m)
                           ELSE wire[k][q]
    BY <1>1, SendFacts
  <1>3. c \in created
    BY <1>2 DEF Between
  <1>4. \A k, q : IsClosed(k, q)' <=> IsClosed(k, q)
    BY <1>2 DEF IsClosed
  <1>5. /\ \A q : Data(Append(wire[c][m.to], m), q) = Data(wire[c][m.to], q) \cup
                    (IF m.kind = "data" /\ m.to = q THEN {m.body} ELSE {})
        /\ InOrder(made, wire[c][m.to])
             /\ (m.kind = "data" => Ahead(made, Data(wire[c][m.to], m.to), {m.body}))
           => InOrder(made, Append(wire[c][m.to], m))
    <2> DEFINE u == wire[c][m.to]
    <2>1. u \in Seq(Letters) /\ m \in Letters
      BY <1>2
    <2> HIDE DEF u
    <2>2. \A q : Data(Append(u, m), q) = Data(u, q) \cup
                   (IF m.kind = "data" /\ m.to = q THEN {m.body} ELSE {})
      <3>1. ToSet(Append(u, m)) = ToSet(u) \cup {m}
        BY <2>1, AppendToSet
      <3> QED
        BY <3>1 DEF Data
    <2>3. \A calls : InOrder(calls, u)
                       /\ (m.kind = "data" => Ahead(calls, Data(u, m.to), {m.body}))
                     => InOrder(calls, Append(u, m))
      BY <2>1, DataOfAppend
    <2> QED
      BY <2>2, <2>3 DEF u
  <1>6. m.kind = "data" => Ahead(made, Data(wire[c][m.to], m.to), {m.body})
    <2>1. m.kind = "data" => m.body \in ToTransmit(n, m.to)
      BY <1>2, TxTail, DataIn DEF ToTransmit
    <2> QED
      BY <1>2, <1>3, <2>1, OrderParts DEF Ahead, ToRead
  <1>7. ASSUME NEW k \in created, NEW q \in Nodes
        PROVE  /\ ~IsClosed(k, q)' => InOrder(made, wire'[k][q])
               /\ \A a \in ToRead(k, q)' :
                    \/ a \in ToRead(k, q)
                    \/ k = c /\ q = m.to /\ m.kind = "data" /\ a = m.body
    <2>1. CASE k = c /\ q = m.to
      <3>1. wire'[k][q] = Append(wire[c][m.to], m)
        BY <1>2, <2>1
      <3>2. InOrder(made, wire'[k][q])
        BY <1>2, <1>3, <1>5, <1>6, <3>1, OrderParts
      <3> QED
        BY <1>2, <1>4, <1>5, <2>1, <3>1, <3>2 DEF ToRead
    <2>2. CASE ~(k = c /\ q = m.to)
      <3>1. wire'[k][q] = wire[k][q]
        BY <1>2, <2>2
      <3> QED
        BY <1>4, <3>1, OrderParts DEF ToRead
    <2> QED
      BY <2>1, <2>2
  <1>8. ASSUME NEW k \in created \ {c}, NEW b \in ToRead(k, m.to), b.by = n
        PROVE  ~Current(made, b)
    BY <1>1, <1>2, <1>8, StageTypes DEF CurrentInv
  <1> QED
    BY <1>2, <1>3, <1>7, <1>8, OrderTransmit

LEMMA OrderCreate ==
  ASSUME RInv, CarriesInv, OnceInv, OrderInv, CurrentInv,
         NEW n \in Nodes, NEW m, createSocket(n, m)
  PROVE  OrderInv'
  <1>1. PICK c : c = NextSocket(n, m.to)
    OBVIOUS
  <1>2. /\ Transmit(n, m) /\ UNCHANGED closed
        /\ created' = created \cup {c} /\ c \notin created
        /\ m.to \notin Peers(n) /\ m \in Outgoing(n) /\ m.to \in Nodes \ {n}
        /\ \A k \in created, q \in Nodes : wire'[k][q] = wire[k][q]
        /\ \A q \in Nodes : wire'[c][q] = IF q = m.to THEN <<m>> ELSE <<>>
        /\ ToSet(<<m>>) = {m}
    BY <1>1, CreateFacts
  <1>3. \A k, q : IsClosed(k, q)' <=> IsClosed(k, q)
    BY <1>2 DEF IsClosed
  <1>4. /\ \A q : \A a \in Data(<<m>>, q) : m.kind = "data" /\ q = m.to /\ a = m.body
        /\ InOrder(made, <<m>>)
    <2>1. DOMAIN <<m>> = {1}
      OBVIOUS
    <2> QED
      BY <1>2, <2>1, DataIn DEF InOrder
  <1>5. ASSUME NEW k \in created', NEW q \in Nodes
        PROVE  /\ ~IsClosed(k, q)' => InOrder(made, wire'[k][q])
               /\ \A a \in ToRead(k, q)' :
                    \/ k \in created /\ a \in ToRead(k, q)
                    \/ k = c /\ q = m.to /\ m.kind = "data" /\ a = m.body
    <2>1. CASE k = c
      BY <1>2, <1>4, <2>1, NoData DEF ToRead
    <2>2. CASE k \in created
      <3>1. wire'[k][q] = wire[k][q]
        BY <1>2, <2>2
      <3> QED
        BY <1>3, <2>2, <3>1, OrderParts DEF ToRead
    <2> QED
      BY <1>2, <2>1, <2>2
  <1>6. ASSUME NEW k \in created \ {c}, NEW b \in ToRead(k, m.to), b.by = n
        PROVE  ~Current(made, b)
    <2>1. peerAddressToSocket[n][m.to] = NoSocket /\ k # NoSocket
      BY <1>2, EndTypes DEF Peers, RInv
    <2> QED
      BY <1>2, <1>6, <2>1, StageTypes DEF CurrentInv
  <1>7. c \in created' /\ created \subseteq created'
    BY <1>2
  <1> QED
    BY <1>2, <1>5, <1>6, <1>7, OrderTransmit

LEMMA OrderTxThread ==
  ASSUME RInv, CarriesInv, OnceInv, OrderInv, CurrentInv,
         NEW n \in Nodes, txThread(n)
  PROVE  OrderInv'
  <1>0. PICK m : m = Head(txbuffer[n])
    OBVIOUS
  <1>1. CASE sendIntoTheVoid(n, m) \/ refuse(n, m)
    <2>1. Transmit(n, m) /\ UNCHANGED <<created, closed, wire>>
      BY <1>1 DEF sendIntoTheVoid, refuse
    <2>2. /\ \A p, q \in Nodes : ToTransmit(p, q)' \subseteq ToTransmit(p, q)
          /\ \A p \in Nodes : InOrder(made, txbuffer'[p])
          /\ UNCHANGED <<setup, made, rxbuffer, databuffer>>
      <3>1. \A p \in Nodes : InOrder(made, txbuffer[p]) => InOrder(made, txbuffer'[p])
        BY <2>1, TxTail
      <3> QED
        BY <2>1, <3>1, TxShrinks, OrderParts
    <2>3. \A k, p : IsClosed(k, p) => IsClosed(k, p)'
      BY <2>1 DEF IsClosed
    <2> QED
      BY <2>1, <2>2, <2>3, OrderLoses
  <1> QED
    BY <1>0, <1>1, OrderSend, OrderCreate DEF txThread

LEMMA OrderRxThread ==
  ASSUME RInv, MInv, GoneInv, CarriesInv, OrderInv, NEW n \in Nodes, rxThread(n)
  PROVE  OrderInv'
  <1>1. UNCHANGED <<setup, made, created, txbuffer, databuffer>>
    BY DEF rxThread, handleNewConnection, handleExistingConnection, readInVain,
         removeSocket, removeResetSocket, EndOfStream
  <1>2. \A k, p : IsClosed(k, p) => IsClosed(k, p)'
    BY DEF rxThread, handleNewConnection, handleExistingConnection, readInVain,
         removeSocket, removeResetSocket, EndOfStream, Close, IsClosed
  <1>3. PICK c \in created :
          \/ handleNewConnection(n, c) \/ handleExistingConnection(n, c)
          \/ readInVain(n, c) \/ removeSocket(n, c) \/ removeResetSocket(n, c)
    BY DEF rxThread
  <1>4. CASE handleNewConnection(n, c) \/ handleExistingConnection(n, c)
    <2>1. Read(n, c) /\ ~IsClosed(c, n)
      BY <1>4, GoneAccept, GoneRead DEF handleNewConnection, handleExistingConnection
    <2> QED
      BY <1>1, <1>2, <2>1, OrderRead
  <1>5. CASE readInVain(n, c)
    <2>1. /\ wire[c][n] # <<>> /\ wire' = [wire EXCEPT ![c][n] = Tail(@)]
          /\ UNCHANGED rxbuffer
      BY <1>5 DEF readInVain
    <2>2. PICK m : m = Head(wire[c][n])
      OBVIOUS
    <2>3. \A k \in created, q \in Nodes :
            /\ Data(wire'[k][q], q) \subseteq Data(wire[k][q], q)
            /\ InOrder(made, wire[k][q]) => InOrder(made, wire'[k][q])
      BY <2>1, <2>2, WireTail
    <2>4. /\ \A p, q \in Nodes : ToTransmit(p, q)' = ToTransmit(p, q)
          /\ \A p \in Nodes : InOrder(made, txbuffer'[p])
      BY <1>1, OrderParts DEF ToTransmit
    <2> QED
      BY <1>1, <1>2, <2>1, <2>3, <2>4, OrderLoses
  <1>6. CASE removeSocket(n, c) \/ removeResetSocket(n, c)
    <2>1. UNCHANGED <<wire, rxbuffer>>
      BY <1>6 DEF removeSocket, removeResetSocket, EndOfStream
    <2> QED
      BY <1>1, <1>2, <2>1, OrderSame
  <1> QED
    BY <1>3, <1>4, <1>5, <1>6

LEMMA AnswersHaveNoData ==
  ASSUME RInv, NEW n \in Nodes, NEW e, UNCHANGED <<made, created>>,
         \/ UNCHANGED txbuffer
         \/ \E s \in Seq(Outgoing(n)) : Answers(n, e, s) /\ put(n, s)
  PROVE  /\ \A p, q \in Nodes : ToTransmit(p, q)' \subseteq ToTransmit(p, q)
         /\ OrderInv => \A p \in Nodes : InOrder(made, txbuffer'[p])
  <1>1. CASE UNCHANGED txbuffer
    BY <1>1, OrderParts DEF ToTransmit
  <1>2. CASE \E s \in Seq(Outgoing(n)) : Answers(n, e, s) /\ put(n, s)
    <2>1. PICK s \in Seq(Outgoing(n)) : Answers(n, e, s) /\ put(n, s)
      BY <1>2
    <2>2. s \in Seq(Outgoing(n)')
      BY MoreLetters, WiderSeq
    <2>3. (\A q : Data(s, q) = {}) /\ InOrder(made, s)
          /\ \A m \in ToSet(s) : m.kind # "data"
      BY <2>1, WithoutData DEF Answers
    <2>4. \A p, q \in Nodes : ToTransmit(p, q)' \subseteq ToTransmit(p, q)
      BY <2>1, <2>2, <2>3, TxPut
    <2>5. /\ \A p \in Nodes : p # n => txbuffer'[p] = txbuffer[p]
          /\ InOrder(made, txbuffer[n]) => InOrder(made, txbuffer'[n])
      BY <2>1, <2>2, <2>3, TxPut
    <2> QED
      BY <2>4, <2>5, OrderParts
  <1> QED
    BY <1>1, <1>2

LEMMA OrderMsgThread ==
  ASSUME RInv, CarriesInv, OrderInv, NEW n \in Nodes, msgThread(n)
  PROVE  OrderInv'
  <1>0. PICK e : e = Head(rxbuffer[n])
    OBVIOUS
  <1>1. /\ rxbuffer[n] # <<>> /\ e \in Opened(n) /\ \E kind : Open(n, kind, e)
        /\ \/ UNCHANGED txbuffer
           \/ \E s \in Seq(Outgoing(n)) : Answers(n, e, s) /\ put(n, s)
        /\ Contents(n, e)
    BY <1>0, MsgPuts
  <1>2. /\ rxbuffer' = [rxbuffer EXCEPT ![n] = Tail(@)]
        /\ UNCHANGED <<setup, made, created, wire>>
        /\ \A k, p : IsClosed(k, p) => IsClosed(k, p)'
    BY <1>1 DEF Open, Close, IsClosed
  <1>3. /\ \A p, q \in Nodes : ToTransmit(p, q)' \subseteq ToTransmit(p, q)
        /\ \A p \in Nodes : InOrder(made, txbuffer'[p])
    BY <1>1, <1>2, AnswersHaveNoData
  <1>4. e \in ToSet(rxbuffer[n])
    BY <1>0, <1>1, <1>2, RxTail
  <1>5. e.msg.kind = "flood" => ~Direct(e.msg.body)
    BY <1>4 DEF CarriesInv, Carries, Direct
  <1>6. ASSUME NEW q \in Nodes, NEW a \in Received(q)'
        PROVE  a \in Received(q) \/ (q = n /\ e.msg.kind = "data" /\ a = e.msg.body)
    <2>1. CASE UNCHANGED databuffer
      BY <1>2, <1>6, <2>1 DEF Received, Direct
    <2>2. CASE /\ e.msg.kind \in {"data", "flood"}
               /\ databuffer' = [databuffer EXCEPT ![n] = Append(@, e.msg.body)]
      <3>1. ToSet(databuffer'[q]) = ToSet(databuffer[q]) \cup
              (IF q = n THEN {e.msg.body} ELSE {})
        BY <1>1, <2>2, Receives
      <3> QED
        BY <1>2, <1>5, <1>6, <2>2, <3>1 DEF Received, Direct
    <2> QED
      BY <1>1, <2>1, <2>2 DEF Contents
  <1> QED
    BY <1>0, <1>1, <1>2, <1>3, <1>6, OrderOpen

-----------------------------------------------------------------------------
(* What was called of a router since it started.                           *)

LEMMA CurrentKept ==
  ASSUME RInv, CarriesInv, CurrentInv,
         \A a \in ToSet(made) : Current(made', a) => Current(made, a),
         \A n, q \in Nodes : \A a \in ToTransmit(n, q)' : Current(made', a),
         \A c \in created', q \in Nodes : \A a \in ToRead(c, q)' :
           Current(made', a) =>
             \/ c \in created /\ a \in ToRead(c, q)
             \/ c \in Between(a.by, q)' /\ peerAddressToSocket'[a.by][q] = c
                /\ \A n \in Nodes : c \in Between(n, q)' => n = a.by,
         \A n, q \in Nodes : \A c \in Between(n, q) : \A a \in ToRead(c, q)' :
           Current(made', a) /\ a.by = n /\ peerAddressToSocket[n][q] = c =>
             peerAddressToSocket'[n][q] = c
  PROVE  CurrentInv'
  <1> SUFFICES ASSUME NEW n \in Nodes, NEW q \in Nodes, NEW c \in Between(n, q)',
                      NEW a \in ToRead(c, q)', Current(made', a)
               PROVE  peerAddressToSocket'[n][q] = c
    BY DEF CurrentInv
  <1>1. c \in created'
    BY DEF Between
  <1>2. CASE c \in created /\ a \in ToRead(c, q)
    <2>1. c \in Between(n, q)
      BY <1>2 DEF Between
    <2>2. a \in ToSet(made) /\ a.by \in Nodes \ {q} /\ c \in Between(a.by, q)
      BY <1>2, StageTypes
    <2>3. a.by = n
      BY <2>1, <2>2, EndsApart
    <2>4. peerAddressToSocket[n][q] = c
      BY <1>2, <2>1, <2>2 DEF CurrentInv
    <2> QED
      BY <2>1, <2>3, <2>4
  <1> QED
    BY <1>1, <1>2

\* What was called of a router since then is still so, if nothing is called.
LEMMA CurrentQuiet ==
  ASSUME RInv, CarriesInv, CurrentInv, UNCHANGED <<made, created>>,
         \A n, q \in Nodes : ToTransmit(n, q)' \subseteq ToTransmit(n, q),
         \A c \in created, q \in Nodes : ToRead(c, q)' \subseteq ToRead(c, q),
         \A n, q \in Nodes : \A c \in Between(n, q) : \A a \in ToRead(c, q)' :
           Current(made, a) /\ a.by = n /\ peerAddressToSocket[n][q] = c =>
             peerAddressToSocket'[n][q] = c
  PROVE  CurrentInv'
  <1>1. \A n, q \in Nodes : \A a \in ToTransmit(n, q) : Current(made, a)
    BY DEF CurrentInv
  <1> QED
    BY <1>1, CurrentKept

\* And if what is under way stays and the table too.
LEMMA CurrentSame ==
  ASSUME RInv, CarriesInv, CurrentInv,
         UNCHANGED <<made, created, wire, txbuffer, peerAddressToSocket>>,
         \A k, p : IsClosed(k, p) => IsClosed(k, p)'
  PROVE  CurrentInv'
  <1>1. /\ \A n, q \in Nodes : ToTransmit(n, q)' \subseteq ToTransmit(n, q)
        /\ \A c \in created, q \in Nodes : ToRead(c, q)' \subseteq ToRead(c, q)
    BY DEF ToTransmit, ToRead
  <1> QED
    BY <1>1, CurrentQuiet

LEMMA CurrentCall ==
  ASSUME RInv, CarriesInv, CurrentInv, NEW c \in setup.calls,
         connect(c) \/ getPeerList(c) \/ send(c) \/ broadcast(c)
  PROVE  CurrentInv'
  <1>1. PICK whom : Make(c, c.op, whom)
    BY CallPuts
  <1>2. /\ made \in Seq(setup.calls) /\ made' = Append(made, c)
        /\ c \notin ToSet(made) /\ c.by \in Nodes
    BY <1>1, NewCall
  <1>3. PICK s \in Seq(Outgoing(c.by)') : PutBy(c, s) /\ put(c.by, s)
    BY CallPuts
  <1>4. UNCHANGED <<created, closed, wire, peerAddressToSocket>> /\ c.op # "stop"
    BY CallPuts
  <1>5. /\ \A a \in ToSet(made) : Current(made', a) <=> Current(made, a)
        /\ Current(made', c)
    BY <1>2, <1>4, LivesStay
  <1>6. ASSUME NEW n \in Nodes, NEW q \in Nodes, NEW a \in ToTransmit(n, q)'
        PROVE  Current(made', a)
    <2>1. a \in ToTransmit(n, q) \/ a = c
      <3>1. \A b \in Data(s, q) : b = c
        BY <1>3, DataIn DEF PutBy
      <3> QED
        BY <1>2, <1>3, <1>6, <3>1, TxPut
    <2>2. a \in ToTransmit(n, q) => a \in ToSet(made) /\ Current(made, a)
      BY StageTypes DEF CurrentInv
    <2> QED
      BY <1>5, <2>1, <2>2
  <1>7. \A k, q : ToRead(k, q)' = ToRead(k, q)
    BY <1>4 DEF ToRead, IsClosed
  <1> QED
    BY <1>4, <1>5, <1>6, <1>7, CurrentKept

LEMMA CurrentStop ==
  ASSUME RInv, CarriesInv, CurrentInv, NEW c \in setup.calls, stop(c)
  PROVE  CurrentInv'
  <1>1. /\ Make(c, "stop", {}) /\ UNCHANGED created
        /\ \A k, p : IsClosed(k, p) => IsClosed(k, p)'
        /\ \A p \in Nodes :
             /\ \A k \in created :
                  wire'[k][p] = IF p = c.by THEN <<>> ELSE wire[k][p]
             /\ txbuffer'[p] = IF p = c.by THEN <<>> ELSE txbuffer[p]
             /\ \A q \in Nodes :
                  peerAddressToSocket'[p][q] =
                    IF p = c.by THEN NoSocket ELSE peerAddressToSocket[p][q]
    BY StopFacts
  <1>2. /\ made \in Seq(setup.calls) /\ made' = Append(made, c)
        /\ c \notin ToSet(made) /\ c.op = "stop"
    BY <1>1, NewCall
  <1>3. \A a \in ToSet(made) :
          /\ Current(made', a) => Current(made, a)
          /\ Current(made, a) /\ a.by # c.by => Current(made', a)
          /\ a.by = c.by => ~Current(made', a)
    BY <1>2, LivesStay
  <1>4. ASSUME NEW n \in Nodes, NEW q \in Nodes, NEW a \in ToTransmit(n, q)'
        PROVE  Current(made', a)
    <2>1. n # c.by /\ a \in ToTransmit(n, q)
      BY <1>1, <1>4, NoData DEF ToTransmit
    <2>2. a \in ToSet(made) /\ a.by = n /\ Current(made, a)
      BY <2>1, StageTypes DEF CurrentInv
    <2> QED
      BY <1>3, <2>1, <2>2
  <1>5. \A k \in created, q \in Nodes : ToRead(k, q)' \subseteq ToRead(k, q)
    BY <1>1, NoData DEF ToRead
  <1>6. ASSUME NEW n \in Nodes, NEW q \in Nodes, NEW k \in Between(n, q),
               NEW a \in ToRead(k, q)',
               Current(made', a), a.by = n, peerAddressToSocket[n][q] = k
        PROVE  peerAddressToSocket'[n][q] = k
    <2>1. k \in created
      BY DEF Between
    <2>2. a \in ToSet(made)
      BY <1>5, <1>6, <2>1, StageTypes
    <2>3. n # c.by
      BY <1>3, <1>6, <2>2
    <2> QED
      BY <1>1, <1>6, <2>3
  <1> QED
    BY <1>1, <1>3, <1>4, <1>5, <1>6, CurrentKept

LEMMA CurrentTxThread ==
  ASSUME RInv, CarriesInv, CurrentInv, NEW n \in Nodes, txThread(n)
  PROVE  CurrentInv'
  <1>0. PICK m : m = Head(txbuffer[n])
    OBVIOUS
  <1>1. Transmit(n, m)
    BY <1>0 DEF txThread, sendOnSocket, sendIntoTheVoid, createSocket, Connected,
         refuse
  <1>2. /\ \A p, q \in Nodes : ToTransmit(p, q)' \subseteq ToTransmit(p, q)
        /\ UNCHANGED made
    BY <1>1, TxShrinks
  <1>3. \A p, q \in Nodes : \A a \in ToTransmit(p, q)' : Current(made', a)
    BY <1>2 DEF CurrentInv
  <1>4. m.kind = "data" => m.body.by = n
    <2>1. m \in ToSet(txbuffer[n])
      BY <1>1, TxTail
    <2>2. m.from = n
      BY <1>1, TxShrinks DEF Outgoing
    <2> QED
      BY <2>1, <2>2 DEF CarriesInv, Carries
  <1>5. CASE sendOnSocket(n, m)
    <2>1. PICK c : c = peerAddressToSocket[n][m.to]
      OBVIOUS
    <2>2. /\ UNCHANGED <<created, closed, peerAddressToSocket>>
          /\ c \in Between(n, m.to) /\ m.to \in Nodes \ {n}
          /\ m \in Letters /\ wire[c][m.to] \in Seq(Letters)
          /\ \A k \in created, q \in Nodes :
               wire'[k][q] = IF k = c /\ q = m.to THEN Append(wire[k][q], m)
                             ELSE wire[k][q]
      BY <1>5, <2>1, SendFacts
    <2>3. ToSet(Append(wire[c][m.to], m)) = ToSet(wire[c][m.to]) \cup {m}
      BY <2>2, AppendToSet
    <2>4. ASSUME NEW k \in created', NEW q \in Nodes, NEW a \in ToRead(k, q)'
          PROVE  \/ k \in created /\ a \in ToRead(k, q)
                 \/ k \in Between(a.by, q)' /\ peerAddressToSocket'[a.by][q] = k
                    /\ \A p \in Nodes : k \in Between(p, q)' => p = a.by
      <3>1. a \in ToRead(k, q) \/ (k = c /\ q = m.to /\ m.kind = "data" /\ a = m.body)
        BY <2>2, <2>3, <2>4, DataIn DEF ToRead, IsClosed
      <3>2. CASE k = c /\ q = m.to /\ m.kind = "data" /\ a = m.body
        <4>1. a.by = n /\ k \in Between(n, q) /\ n # q
          BY <1>4, <2>2, <3>2
        <4>2. Between(n, q)' = Between(n, q)
              /\ \A p : Between(p, q)' = Between(p, q)
          BY <2>2 DEF Between
        <4> QED
          BY <2>1, <2>2, <3>2, <4>1, <4>2, EndsApart
      <3> QED
        BY <2>2, <3>1, <3>2
    <2> QED
      BY <1>2, <1>3, <2>2, <2>4, CurrentKept
  <1>6. CASE createSocket(n, m)
    <2>1. PICK c : c = NextSocket(n, m.to)
      OBVIOUS
    <2>2. /\ UNCHANGED closed /\ created' = created \cup {c} /\ c \notin created
          /\ c[1] = n /\ c[2] = m.to /\ m.to \notin Peers(n) /\ m.to \in Nodes \ {n}
          /\ \A k \in created, q \in Nodes : wire'[k][q] = wire[k][q]
          /\ \A q \in Nodes : wire'[c][q] = IF q = m.to THEN <<m>> ELSE <<>>
          /\ \A p, q \in Nodes :
               peerAddressToSocket'[p][q] = IF p = n /\ q = m.to THEN c
                                            ELSE peerAddressToSocket[p][q]
          /\ ToSet(<<m>>) = {m}
      BY <1>6, <2>1, CreateFacts
    <2>3. ASSUME NEW k \in created', NEW q \in Nodes, NEW a \in ToRead(k, q)'
          PROVE  \/ k \in created /\ a \in ToRead(k, q)
                 \/ k \in Between(a.by, q)' /\ peerAddressToSocket'[a.by][q] = k
                    /\ \A p \in Nodes : k \in Between(p, q)' => p = a.by
      <3>1. CASE k = c
        <4>1. q = m.to /\ m.kind = "data" /\ a = m.body
          BY <2>2, <2>3, <3>1, NoData, DataIn DEF ToRead
        <4>2. a.by = n /\ peerAddressToSocket'[n][q] = k
          BY <1>4, <2>2, <3>1, <4>1
        <4>3. \A p : k \in Between(p, q)' <=> {n, q} = {p, q}
          BY <2>2, <3>1, <4>1 DEF Between
        <4>4. \A p : {n, q} = {p, q} => p = n
          BY <2>2, <4>1
        <4> QED
          BY <4>2, <4>3, <4>4
      <3>2. CASE k \in created
        BY <2>2, <2>3, <3>2 DEF ToRead, IsClosed
      <3> QED
        BY <2>2, <3>1, <3>2
    <2>4. ASSUME NEW p \in Nodes, NEW q \in Nodes, NEW k \in Between(p, q),
                 peerAddressToSocket[p][q] = k
          PROVE  peerAddressToSocket'[p][q] = k
      <3>1. k # NoSocket
        BY EndTypes DEF Between, RInv
      <3> QED
        BY <2>2, <2>4, <3>1 DEF Peers
    <2> QED
      BY <1>2, <1>3, <2>3, <2>4, CurrentKept
  <1>7. CASE sendIntoTheVoid(n, m) \/ refuse(n, m)
    <2>1. UNCHANGED <<created, closed, wire, peerAddressToSocket>>
      BY <1>7 DEF sendIntoTheVoid, refuse
    <2>2. \A k, q : ToRead(k, q)' = ToRead(k, q)
      BY <2>1 DEF ToRead, IsClosed
    <2> QED
      BY <1>2, <2>1, <2>2, CurrentQuiet
  <1> QED
    BY <1>0, <1>5, <1>6, <1>7 DEF txThread

\* The connection that is removed is the one that was kept, and gone.
LEMMA CurrentRxThread ==
  ASSUME RInv, MInv, CarriesInv, CurrentInv, NEW n \in Nodes, rxThread(n)
  PROVE  CurrentInv'
  <1>1. UNCHANGED <<made, created, txbuffer>>
    BY DEF rxThread, handleNewConnection, handleExistingConnection, readInVain,
         removeSocket, removeResetSocket, EndOfStream
  <1>2. \A k, p : IsClosed(k, p) => IsClosed(k, p)'
    BY DEF rxThread, handleNewConnection, handleExistingConnection, readInVain,
         removeSocket, removeResetSocket, EndOfStream, Close, IsClosed
  <1>3. PICK c \in created :
          \/ handleNewConnection(n, c) \/ handleExistingConnection(n, c)
          \/ readInVain(n, c) \/ removeSocket(n, c) \/ removeResetSocket(n, c)
    BY DEF rxThread
  <1>4. \A p, q \in Nodes : ToTransmit(p, q)' \subseteq ToTransmit(p, q)
    BY <1>1 DEF ToTransmit
  <1>5. CASE \/ handleNewConnection(n, c) \/ handleExistingConnection(n, c)
             \/ readInVain(n, c)
    <2>1. /\ wire[c][n] # <<>> /\ wire' = [wire EXCEPT ![c][n] = Tail(@)]
          /\ UNCHANGED peerAddressToSocket
      BY <1>5 DEF handleNewConnection, handleExistingConnection, readInVain, Read
    <2>2. PICK m : m = Head(wire[c][n])
      OBVIOUS
    <2>3. \A k \in created, q \in Nodes :
            Data(wire'[k][q], q) \subseteq Data(wire[k][q], q)
      BY <2>1, <2>2, WireTail
    <2>4. \A k \in created, q \in Nodes : ToRead(k, q)' \subseteq ToRead(k, q)
      BY <1>2, <2>3 DEF ToRead
    <2> QED
      BY <1>1, <1>4, <2>1, <2>4, CurrentQuiet
  <1>6. CASE removeSocket(n, c) \/ removeResetSocket(n, c)
    <2>1. PICK q : q = Other(c, n)
      OBVIOUS
    <2>2. /\ Selects(n) /\ c \in socketList[n] /\ IsClosed(c, q) /\ UNCHANGED wire
          /\ \/ UNCHANGED peerAddressToSocket
             \/ peerAddressToSocket' = [peerAddressToSocket EXCEPT ![n][q] = NoSocket]
      BY <1>6, <2>1 DEF removeSocket, removeResetSocket, EndOfStream
    <2>3. peerAddressToSocket[n][q] = c /\ q \in Nodes
      BY <2>1, <2>2, EndTypes DEF Selects, MInv, TablesMatch, RInv
    <2>4. \A k \in created, p \in Nodes : ToRead(k, p)' \subseteq ToRead(k, p)
      BY <1>2, <2>2 DEF ToRead
    <2>5. ASSUME NEW p \in Nodes, NEW r \in Nodes, NEW k \in Between(p, r),
                 NEW a \in ToRead(k, r)', peerAddressToSocket[p][r] = k
          PROVE  peerAddressToSocket'[p][r] = k
      <3>1. ~IsClosed(k, r)
        BY <1>2, <2>5 DEF ToRead
      <3>2. ~(p = n /\ r = q)
        BY <2>2, <2>3, <2>5, <3>1
      <3> QED
        BY <2>2, <2>3, <2>5, <3>2 DEF RInv, TableInv
    <2> QED
      BY <1>1, <1>4, <2>4, <2>5, CurrentQuiet
  <1> QED
    BY <1>3, <1>5, <1>6

\* The connection that a new one is entered for is gone.
LEMMA CurrentMsgThread ==
  ASSUME RInv, GoneInv, CarriesInv, CurrentInv, NEW n \in Nodes, msgThread(n)
  PROVE  CurrentInv'
  <1>0. PICK e : e = Head(rxbuffer[n])
    OBVIOUS
  <1>1. /\ rxbuffer[n] # <<>> /\ e \in Opened(n) /\ \E kind : Open(n, kind, e)
        /\ \/ UNCHANGED txbuffer
           \/ \E s \in Seq(Outgoing(n)) : Answers(n, e, s) /\ put(n, s)
        /\ \/ UNCHANGED peerAddressToSocket
           \/ /\ Unconnected(n, e.msg.from)
              /\ peerAddressToSocket' =
                   [peerAddressToSocket EXCEPT ![n][e.msg.from] = e.sock]
    BY <1>0, MsgPuts
  <1>2. /\ UNCHANGED <<made, created, wire>>
        /\ \A k, p : IsClosed(k, p) => IsClosed(k, p)'
    BY <1>1 DEF Open, Close, IsClosed
  <1>3. \A p, q \in Nodes : ToTransmit(p, q)' \subseteq ToTransmit(p, q)
    BY <1>1, <1>2, AnswersHaveNoData
  <1>4. \A k \in created, q \in Nodes : ToRead(k, q)' \subseteq ToRead(k, q)
    BY <1>2 DEF ToRead
  <1>5. ASSUME NEW p \in Nodes, NEW r \in Nodes, NEW k \in Between(p, r),
               NEW a \in ToRead(k, r)', peerAddressToSocket[p][r] = k
        PROVE  peerAddressToSocket'[p][r] = k
    <2>1. ~IsClosed(k, r)
      BY <1>2, <1>5 DEF ToRead
    <2>2. k \in created /\ k # NoSocket /\ Other(k, p) = r
      BY EndTypes DEF Between, RInv, Other
    <2>3. ~IsClosed(k, p)
      BY <1>5, <2>1, <2>2 DEF GoneInv
    <2>4. CASE p = n /\ r = e.msg.from
      <3>1. ~Unconnected(n, e.msg.from)
        BY <1>5, <2>2, <2>3, <2>4 DEF Unconnected, Peers
      <3> QED
        BY <1>1, <1>5, <3>1
    <2>5. CASE ~(p = n /\ r = e.msg.from)
      BY <1>1, <1>5, <2>5 DEF RInv, TableInv
    <2> QED
      BY <2>4, <2>5
  <1> QED
    BY <1>2, <1>3, <1>4, <1>5, CurrentQuiet

-----------------------------------------------------------------------------
(* The invariants hold.                                                    *)

LEMMA DeliveryInit ==
  Init => DInv
  <1> SUFFICES ASSUME Init PROVE DInv
    OBVIOUS
  <1>1. /\ created = {} /\ backlog = {} /\ made = <<>>
        /\ \A n \in Nodes : rxbuffer[n] = <<>> /\ txbuffer[n] = <<>>
                            /\ databuffer[n] = <<>>
    BY DEF Init
  <1>2. ToSet(<<>>) = {} /\ DOMAIN <<>> = {} /\ Messages(<<>>) = <<>>
    BY DEF ToSet, Messages
  <1>3. \A q : Data(<<>>, q) = {}
    BY <1>2 DEF Data
  <1>4. \A n, q \in Nodes :
          ToTransmit(n, q) = {} /\ ToOpen(q) = {} /\ Received(q) = {}
    BY <1>1, <1>2, <1>3 DEF ToTransmit, ToOpen, Received
  <1>5. InOrder(made, <<>>)
    BY <1>2 DEF InOrder
  <1>6. GoneInv
    BY <1>1 DEF GoneInv
  <1>7. CarriesInv
    BY <1>1, <1>2 DEF CarriesInv
  <1>8. OnceInv
    BY <1>1, <1>2 DEF OnceInv
  <1>9. OrderInv
    BY <1>1, <1>2, <1>4, <1>5 DEF OrderInv, OrderTo, Ahead
  <1>10. CurrentInv
    BY <1>1, <1>4 DEF CurrentInv, Between
  <1> QED
    BY <1>6, <1>7, <1>8, <1>9, <1>10 DEF DInv

\* Nothing moves.
LEMMA DeliverySame ==
  ASSUME RInv, DInv, CarriesInv',
         UNCHANGED <<history, streams, sockets, rxbuffer, txbuffer, contents>>
  PROVE  DInv'
  <1>1. \A k, p : IsClosed(k, p) => IsClosed(k, p)'
    BY DEF IsClosed
  <1> QED
    BY <1>1, GoneSame, OnceSame, OrderSame, CurrentSame DEF DInv

LEMMA DeliveryCall ==
  ASSUME RInv, DInv, CarriesInv', NEW c \in setup.calls,
         connect(c) \/ getPeerList(c) \/ send(c) \/ broadcast(c) \/ stop(c)
  PROVE  DInv'
  <1>1. CASE stop(c)
    <2>1. GoneInv' /\ OnceInv' /\ OrderInv' /\ CurrentInv'
      BY <1>1, GoneStop, OnceCall, OrderStop, CurrentStop DEF DInv
    <2> QED
      BY <2>1 DEF DInv
  <1>2. CASE connect(c) \/ getPeerList(c) \/ send(c) \/ broadcast(c)
    <2>1. UNCHANGED <<up, streams, sockets, rxbuffer, databuffer>>
      BY <1>2, CallPuts
    <2>2. GoneInv'
      BY <2>1, GoneSame DEF DInv
    <2>3. OnceInv' /\ OrderInv' /\ CurrentInv'
      BY <1>2, OnceCall, OrderCall, CurrentCall DEF DInv
    <2> QED
      BY <2>2, <2>3 DEF DInv
  <1> QED
    BY <1>1, <1>2

LEMMA DeliveryThread ==
  ASSUME RInv, MInv, DInv, CarriesInv', NEW n \in Nodes,
         txThread(n) \/ rxThread(n) \/ msgThread(n)
  PROVE  DInv'
  <1>1. CASE txThread(n)
    <2>1. UNCHANGED <<setup, made, contents>>
      BY <1>1 DEF txThread, sendOnSocket, sendIntoTheVoid, createSocket,
           Connected, refuse, Transmit
    <2>2. GoneInv' /\ OrderInv' /\ CurrentInv'
      BY <1>1, GoneTxThread, OrderTxThread, CurrentTxThread DEF DInv
    <2> QED
      BY <2>1, <2>2, OnceSame DEF DInv
  <1>2. CASE rxThread(n)
    <2>1. UNCHANGED <<setup, made, contents>>
      BY <1>2 DEF rxThread, handleNewConnection, handleExistingConnection,
           readInVain, removeSocket, removeResetSocket, EndOfStream
    <2>2. GoneInv' /\ OrderInv' /\ CurrentInv'
      BY <1>2, GoneRxThread, OrderRxThread, CurrentRxThread DEF DInv
    <2> QED
      BY <2>1, <2>2, OnceSame DEF DInv
  <1>3. CASE msgThread(n)
    <2>1. GoneInv' /\ OnceInv' /\ OrderInv' /\ CurrentInv'
      BY <1>3, GoneMsgThread, OnceMsgThread, OrderMsgThread, CurrentMsgThread
      DEF DInv
    <2> QED
      BY <2>1 DEF DInv
  <1> QED
    BY <1>1, <1>2, <1>3

LEMMA DeliveryNext ==
  ASSUME RInv, MInv, DInv, [Next]_vars
  PROVE  DInv'
  <1>1. CarriesInv'
    BY CarriesNext DEF DInv
  <1>2. CASE UNCHANGED vars \/ \E n \in Nodes : start(n)
    BY <1>1, <1>2, DeliverySame DEF vars, start
  <1>3. CASE \E c \in setup.calls : connect(c) \/ getPeerList(c) \/ send(c)
                                      \/ broadcast(c) \/ stop(c)
    BY <1>1, <1>3, DeliveryCall
  <1>4. CASE \E n \in Nodes : txThread(n) \/ rxThread(n) \/ msgThread(n)
    BY <1>1, <1>4, DeliveryThread
  <1> QED
    BY <1>2, <1>3, <1>4 DEF Next

LEMMA Delivers ==
  Spec => [](RInv /\ DInv)
  <1>1. Init => DInv
    BY DeliveryInit
  <1>2. RInv /\ MInv /\ DInv /\ [Next]_vars => DInv'
    BY DeliveryNext
  <1>3. Spec => [](RInv /\ MInv)
    BY Matches
  <1> QED
    BY <1>1, <1>2, <1>3, PTL DEF Spec

-----------------------------------------------------------------------------
(* The routers implement Broadcast.                                        *)

LEMMA PromiseHelpers ==
  /\ \A s : Promise!Elements(s) = ToSet(s)
  /\ \A n, S : Promise!Stopped(n, S) <=> StopIn(made, n, S)
  BY DEF Promise!Elements, ToSet, Promise!Stopped, StopIn

\* A call is submitted.
LEMMA SubmitStep ==
  ASSUME RInv, NEW c \in setup.calls,
         connect(c) \/ getPeerList(c) \/ send(c) \/ broadcast(c) \/ stop(c)
  PROVE  \E x \in AllCalls : Promise!submit(x)
  <1>1. c \in AllCalls
    BY DEF RInv, CallsInv, AllCalls
  <1>2. /\ c \notin ToSet(made) /\ made' = Append(made, c)
        /\ databuffer' = IF c.op = "stop" THEN [databuffer EXCEPT ![c.by] = <<>>]
                         ELSE databuffer
    <2>1. CASE stop(c)
      BY <2>1 DEF stop, Make
    <2>2. CASE connect(c) \/ getPeerList(c) \/ send(c) \/ broadcast(c)
      <3>1. c.op # "stop" /\ UNCHANGED databuffer
        BY <2>2, CallPuts
      <3> QED
        BY <2>2, <3>1 DEF connect, getPeerList, send, broadcast, Make
    <2> QED
      BY <2>1, <2>2
  <1>3. Promise!submit(c)
    BY <1>2, PromiseHelpers DEF Promise!submit
  <1> QED
    BY <1>1, <1>3

\* Data that is opened has not been received, and nothing sent after it has.
LEMMA DataStep ==
  ASSUME RInv, DInv, NEW n \in Nodes, rxbuffer[n] # <<>>, NEW e \in Opened(n),
         e = Head(rxbuffer[n]), e.msg.kind = "data", UNCHANGED made,
         databuffer' = [databuffer EXCEPT ![n] = Append(@, e.msg.body)]
  PROVE  \E i \in DOMAIN made : Promise!deliver(i, n)
  <1>1. PICK a : a = e.msg.body
    OBVIOUS
  <1>2. /\ e.msg \in Letters /\ e.msg.to = n /\ e.msg.from # n
        /\ a \in ToSet(made)
    BY <1>1, LetterTypes DEF Opened, Incoming
  <1>3. e \in ToSet(rxbuffer[n])
    BY FirstOfSeq DEF RInv, RxInv
  <1>4. /\ a.by # n /\ Direct(a)
        /\ (a.op = "send" /\ a.to = n) \/ a.op = "broadcast"
    BY <1>1, <1>2, <1>3 DEF DInv, CarriesInv, Carries, Direct
  <1>5. a \in ToOpen(n)
    <2>1. rxbuffer[n] \in Seq([msg : Letters, sock : created])
      BY ReadTypes
    <2>2. e.msg \in ToSet(Messages(rxbuffer[n]))
      BY <1>3, <2>1, MessagesOf
    <2> QED
      BY <1>1, <1>2, <2>2, DataIn DEF ToOpen
  <1>6. \A b \in ToSet(databuffer[n]) : Direct(b) => InTurn(made, b, a)
    BY <1>5 DEF DInv, OrderInv, OrderTo, Ahead, Received
  <1>7. PICK i \in DOMAIN made : made[i] = a
    BY <1>2 DEF ToSet
  <1>8. DOMAIN made = 1..Len(made) /\ Len(made) \in Nat
    BY DEF RInv, CallsInv
  <1>9. a \notin ToSet(databuffer[n])
    <2> SUFFICES ASSUME a \in ToSet(databuffer[n]) PROVE FALSE
      OBVIOUS
    <2>1. InTurn(made, a, a)
      BY <1>4, <1>6
    <2>2. i <= i /\ i..i = {i}
      BY <1>8
    <2>3. StopIn(made, a.by, i..i)
      BY <1>7, <2>1, <2>2 DEF InTurn
    <2> QED
      BY <1>4, <1>7, <2>2, <2>3 DEF StopIn
  <1>10. ~Promise!Overtaken(i, n)
    <2> SUFFICES ASSUME NEW j \in DOMAIN made, i < j, made[j].op = "send",
                        made[j].by = a.by, made[j] \in ToSet(databuffer[n])
                 PROVE  StopIn(made, a.by, i..j)
      BY <1>7, PromiseHelpers DEF Promise!Overtaken
    <2>1. InTurn(made, made[j], a)
      BY <1>6 DEF Direct
    <2>2. i <= j
      BY <1>8
    <2> QED
      BY <1>7, <2>1, <2>2 DEF InTurn
  <1> QED
    BY <1>1, <1>4, <1>7, <1>9, <1>10, PromiseHelpers DEF Promise!deliver

\* A broadcast that has not been seen has not been received, and if it is the
\* node's own, the node has been stopped since.
LEMMA FloodStep ==
  ASSUME RInv, DInv, NEW n \in Nodes, rxbuffer[n] # <<>>, NEW e \in Opened(n),
         e = Head(rxbuffer[n]), e.msg.kind = "flood", UNCHANGED made,
         e.msg.body \notin hasSeenMessage[n],
         databuffer' = [databuffer EXCEPT ![n] = Append(@, e.msg.body)]
  PROVE  \E i \in DOMAIN made : Promise!deliver(i, n)
  <1>1. PICK a : a = e.msg.body
    OBVIOUS
  <1>2. e.msg \in Letters /\ a \in ToSet(made)
    BY <1>1, LetterTypes DEF Opened
  <1>3. e \in ToSet(rxbuffer[n])
    BY FirstOfSeq DEF RInv, RxInv
  <1>4. /\ a.op = "broadcast" /\ ~Direct(a)
        /\ a \in hasSeenMessage[a.by] \/ ~Current(made, a)
    BY <1>1, <1>3 DEF DInv, CarriesInv, Carries, Direct
  <1>5. a \notin ToSet(databuffer[n])
    BY <1>1, <1>4 DEF DInv, OnceInv
  <1>6. PICK i \in DOMAIN made : made[i] = a
    BY <1>2 DEF ToSet
  <1>7. a.by = n => StopIn(made, n, i..Len(made))
    BY <1>1, <1>4, <1>6 DEF DInv, OnceInv, Current
  <1> QED
    BY <1>1, <1>4, <1>5, <1>6, <1>7, PromiseHelpers DEF Promise!deliver

LEMMA OpenStep ==
  ASSUME RInv, DInv, NEW n \in Nodes, msgThread(n)
  PROVE  \/ \E i \in DOMAIN made : Promise!deliver(i, n)
         \/ UNCHANGED <<made, databuffer>>
  <1>1. PICK e : e = Head(rxbuffer[n])
    OBVIOUS
  <1>2. /\ rxbuffer[n] # <<>> /\ e \in Opened(n) /\ Contents(n, e)
        /\ \E kind : Open(n, kind, e)
    BY <1>1, MsgPuts
  <1>3. UNCHANGED made
    BY <1>2 DEF Open
  <1> QED
    BY <1>1, <1>2, <1>3, DataStep, FloodStep DEF Contents

LEMMA PromiseStep ==
  ASSUME RInv, DInv, [Next]_vars
  PROVE  [Promise!Next]_<<made, databuffer>>
  <1>1. CASE \E c \in setup.calls : connect(c) \/ getPeerList(c) \/ send(c)
                                      \/ broadcast(c) \/ stop(c)
    BY <1>1, SubmitStep DEF Promise!Next
  <1>2. CASE \E n \in Nodes : msgThread(n)
    BY <1>2, OpenStep DEF Promise!Next
  <1>3. CASE UNCHANGED vars \/ \E n \in Nodes : start(n)
    BY <1>3 DEF vars, start
  <1>4. CASE \E n \in Nodes : txThread(n)
    BY <1>4 DEF txThread, sendOnSocket, sendIntoTheVoid, createSocket, Connected,
         refuse, Transmit
  <1>5. CASE \E n \in Nodes : rxThread(n)
    BY <1>5 DEF rxThread, handleNewConnection, handleExistingConnection,
         readInVain, removeSocket, removeResetSocket, EndOfStream
  <1> QED
    BY <1>1, <1>2, <1>3, <1>4, <1>5 DEF Next

\* What send and broadcast promise is kept, for any number of routers and
\* whatever they are asked to do: data reaches only whom it is for, at most once,
\* and what one node sends to another in one life arrives in the order of
\* sending, however nodes connect, stop and come back (peer_router.py 201-235,
\* messages.py 174-177 and 193-215).
THEOREM KeepsItsPromise ==
  Spec => KeepsPromise
  <1>1. Init => Promise!Init
    BY DEF Init, Promise!Init
  <1>2. RInv /\ DInv /\ [Next]_vars => [Promise!Next]_<<made, databuffer>>
    BY PromiseStep
  <1>3. Spec => [](RInv /\ DInv)
    BY Delivers
  <1> QED
    BY <1>1, <1>2, <1>3, PTL DEF Spec, KeepsPromise, Promise!Spec

=============================================================================
