--------------------------- MODULE ContractProofs ---------------------------
(***************************************************************************)
(* That what exec puts into a block is what validate accepts, that the     *)
(* walks of findState and findContract are what their definitions say, and *)
(* that the transactions of a chain that loses come back: for every chain  *)
(* that can be mined, and for any deterministic contract code.             *)
(***************************************************************************)
EXTENDS Contracts, ChainProofs

-----------------------------------------------------------------------------
(* Loops.                                                                  *)

\* What holds before a loop of N steps and is kept by each of them holds after
\* each of them.
LEMMA UpTo ==
  ASSUME NEW N \in Nat, NEW T, 0 \in T, \A i \in 1..N : i - 1 \in T => i \in T
  PROVE  0..N \subseteq T
  <1> DEFINE Bad == {i \in 0..N : i \notin T}
  <1>1. SUFFICES ASSUME Bad # {}
                 PROVE  FALSE
    OBVIOUS
  <1>2. PICK n \in Bad : \A m \in Bad : n <= m
    <2>1. Bad \subseteq Nat
      OBVIOUS
    <2> HIDE DEF Bad
    <2> QED
      BY <1>1, <2>1, LeastNat
  <1>3. n \in 1..N
    BY <1>2
  <1>4. n - 1 \notin Bad
    BY <1>2, <1>3
  <1> QED
    BY <1>2, <1>3, <1>4

\* The values a loop of N steps goes through, from the first to the last.
Walks(f, N, S, first, step) ==
  /\ f \in [0..N -> S]
  /\ f[0] = first
  /\ \A i \in 1..N : f[i] = step[<<i, f[i - 1]>>]

\* They are a function.
LEMMA Iterates ==
  ASSUME NEW N \in Nat, NEW S, NEW first \in S,
         NEW step \in [(1..N) \X S -> S]
  PROVE  \E f : Walks(f, N, S, first, step)
  <1> DEFINE Walk(n, f) ==
        f[0] = first /\ \A i \in 1..n : f[i] = step[<<i, f[i - 1]>>]
  <1> DEFINE T == {n \in 0..N : \E f \in [0..n -> S] : Walk(n, f)}
  <1>1. 0 \in T
    <2> DEFINE f == [i \in 0..0 |-> first]
    <2>1. f \in [0..0 -> S] /\ f[0] = first
      OBVIOUS
    <2>2. Walk(0, f)
      BY <2>1
    <2> HIDE DEF f
    <2>3. \E h \in [0..0 -> S] : Walk(0, h)
      <3> HIDE DEF Walk
      <3> QED
        BY <2>1, <2>2
    <2>4. 0 \in 0..N
      OBVIOUS
    <2> HIDE DEF Walk
    <2> QED
      BY <2>3, <2>4
  <1>2. ASSUME NEW n \in 1..N, n - 1 \in T
        PROVE  n \in T
    <2>1. PICK f \in [0..(n - 1) -> S] : Walk(n - 1, f)
      BY <1>2
    <2> DEFINE g ==
          [i \in 0..n |-> IF i = n THEN step[<<n, f[n - 1]>>] ELSE f[i]]
    <2>2. n - 1 \in 0..(n - 1) /\ f[n - 1] \in S
      BY <2>1
    <2>3. step[<<n, f[n - 1]>>] \in S
      BY <2>2
    <2>4. g \in [0..n -> S]
      BY <2>3
    <2>5. \A i \in 1..n : i - 1 \in 0..(n - 1) /\ g[i - 1] = f[i - 1]
      OBVIOUS
    <2>6. ASSUME NEW i \in 1..n
          PROVE  g[i] = step[<<i, g[i - 1]>>]
      <3>1. CASE i = n
        <4>1. g[n] = step[<<n, f[n - 1]>>]
          OBVIOUS
        <4>2. g[n - 1] = f[n - 1]
          BY <2>5, <3>1
        <4> HIDE DEF g
        <4> QED
          BY <3>1, <4>1, <4>2
      <3>2. CASE i # n
        <4>1. i \in 1..(n - 1) /\ g[i] = f[i]
          BY <3>2
        <4>2. f[i] = step[<<i, f[i - 1]>>]
          BY <2>1, <4>1
        <4> QED
          BY <2>5, <4>1, <4>2
      <3> QED
        BY <3>1, <3>2
    <2>7. g[0] = first
      BY <2>1
    <2> HIDE DEF g
    <2> QED
      BY <2>4, <2>6, <2>7
  <1>3. 0..N \subseteq T
    <2> HIDE DEF T
    <2> QED
      BY <1>1, <1>2, UpTo
  <1>4. N \in T
    BY <1>3
  <1>5. PICK f \in [0..N -> S] : Walk(N, f)
    BY <1>4
  <1> QED
    BY <1>5 DEF Walks

-----------------------------------------------------------------------------
(* The results of a batch, put together.                                   *)

LEMMA ElemsOfBoth ==
  ASSUME NEW S, NEW s \in Seq(S), NEW t \in Seq(S)
  PROVE  s \o t \in Seq(S) /\ Elems(s \o t) = Elems(s) \cup Elems(t)
  <1>1. /\ s \o t \in Seq(S) /\ Len(s \o t) = Len(s) + Len(t)
        /\ \A i \in 1..Len(s) : (s \o t)[i] = s[i]
        /\ \A i \in 1..Len(t) : (s \o t)[Len(s) + i] = t[i]
    BY ConcatProperties
  <1>2. ASSUME NEW x \in Elems(s \o t)
        PROVE  x \in Elems(s) \cup Elems(t)
    <2>1. PICK i \in 1..(Len(s) + Len(t)) : x = (s \o t)[i]
      BY <1>1 DEF Elems
    <2>2. CASE i <= Len(s)
      BY <1>1, <2>1, <2>2 DEF Elems
    <2>3. CASE i > Len(s)
      <3>1. i - Len(s) \in 1..Len(t)
        BY <2>1, <2>3
      <3>2. x = t[i - Len(s)]
        BY <1>1, <2>1, <3>1
      <3> QED
        BY <3>1, <3>2 DEF Elems
    <2> QED
      BY <2>1, <2>2, <2>3
  <1>3. Elems(s) \subseteq Elems(s \o t)
    BY <1>1 DEF Elems
  <1>4. Elems(t) \subseteq Elems(s \o t)
    <2>1. ASSUME NEW i \in 1..Len(t)
          PROVE  t[i] \in Elems(s \o t)
      <3>1. PICK k \in 1..Len(s \o t) : k = Len(s) + i
        BY <1>1
      <3>2. (s \o t)[k] = t[i] /\ k \in DOMAIN (s \o t)
        BY <1>1, <3>1
      <3> QED
        BY <3>2 DEF Elems
    <2>2. Elems(t) = {t[i] : i \in 1..Len(t)}
      BY DEF Elems
    <2> QED
      BY <2>1, <2>2
  <1> QED
    BY <1>1, <1>2, <1>3, <1>4

\* A list of lists put together has what each of them has.
LEMMA ElemsOfAll ==
  ASSUME NEW S, NEW seqs \in Seq(Seq(S)), seqs # <<>>
  PROVE  /\ FlattenSeq(seqs) \in Seq(S)
         /\ Elems(FlattenSeq(seqs)) = UNION {Elems(seqs[i]) : i \in DOMAIN seqs}
  <1>0. PICK N \in Nat : N = Len(seqs)
    OBVIOUS
  <1> DEFINE Is(f) ==
        f = [i \in 1..N |-> IF i = 1 THEN seqs[i] ELSE f[i - 1] \o seqs[i]]
  <1> DEFINE flat == CHOOSE f : Is(f)
  <1>1. /\ N \in Nat \ {0} /\ DOMAIN seqs = 1..N
        /\ \A i \in 1..N : seqs[i] \in Seq(S)
    BY <1>0, EmptySeq
  <1>2. FlattenSeq(seqs) = flat[N]
    BY <1>0, <1>1 DEF FlattenSeq
  <1>3. \E f : Is(f)
    <2> DEFINE step == [p \in (1..N) \X Seq(S) |-> p[2] \o seqs[p[1]]]
    <2>1. step \in [(1..N) \X Seq(S) -> Seq(S)]
      BY <1>1, ConcatProperties
    <2>2. <<>> \in Seq(S)
      OBVIOUS
    <2>3. PICK f \in [0..N -> Seq(S)] :
            /\ f[0] = <<>>
            /\ \A i \in 1..N : f[i] = step[<<i, f[i - 1]>>]
      <3> HIDE DEF step
      <3>1. \E f : Walks(f, N, Seq(S), <<>>, step)
        BY <2>1, <2>2, Iterates
      <3> QED
        BY <3>1 DEF Walks
    <2>4. ASSUME NEW i \in 1..N
          PROVE  f[i - 1] \in Seq(S) /\ f[i] = f[i - 1] \o seqs[i]
      <3>1. i - 1 \in 0..N
        BY <1>1
      <3>2. <<i, f[i - 1]>> \in (1..N) \X Seq(S)
        BY <2>3, <3>1
      <3> QED
        BY <2>3, <3>1, <3>2
    <2>5. <<>> \o seqs[1] = seqs[1]
      BY <1>1, ConcatEmptySeq
    <2>6. f[1] = seqs[1]
      <3>1. 1 \in 1..N /\ 1 - 1 = 0
        BY <1>1
      <3>2. f[1] = f[0] \o seqs[1]
        BY <2>4, <3>1
      <3> QED
        BY <2>3, <2>5, <3>2
    <2> DEFINE g == [i \in 1..N |-> f[i]]
    <2>7. ASSUME NEW i \in 1..N
          PROVE  g[i] = IF i = 1 THEN seqs[i] ELSE g[i - 1] \o seqs[i]
      <3>1. CASE i = 1
        BY <2>6, <3>1
      <3>2. CASE i # 1
        <4>1. i - 1 \in 1..N
          BY <1>1, <3>2
        <4>2. g[i] = f[i] /\ g[i - 1] = f[i - 1]
          BY <4>1
        <4> QED
          BY <2>4, <3>2, <4>2
      <3> QED
        BY <3>1, <3>2
    <2>8. Is(g)
      BY <2>7
    <2> QED
      BY <2>8
  <1>4. Is(flat)
    BY <1>3
  <1>5. /\ flat[1] = seqs[1]
        /\ \A i \in 2..N : flat[i] = flat[i - 1] \o seqs[i]
    <2> HIDE DEF flat
    <2>1. \A i \in 1..N :
            flat[i] = IF i = 1 THEN seqs[i] ELSE flat[i - 1] \o seqs[i]
      <3> DEFINE g == [i \in 1..N |-> IF i = 1 THEN seqs[i]
                                      ELSE flat[i - 1] \o seqs[i]]
      <3>1. flat = g
        BY <1>4
      <3>2. \A i \in 1..N : g[i] = IF i = 1 THEN seqs[i]
                                   ELSE flat[i - 1] \o seqs[i]
        OBVIOUS
      <3> HIDE DEF g
      <3> QED
        BY <3>1, <3>2
    <2>2. 1 \in 1..N /\ \A i \in 2..N : i \in 1..N /\ i # 1
      BY <1>1
    <2> QED
      BY <2>1, <2>2
  <1> HIDE DEF flat
  <1> DEFINE Has(i) == UNION {Elems(seqs[j]) : j \in 1..i}
  <1> DEFINE Done(i) == flat[i] \in Seq(S) /\ Elems(flat[i]) = Has(i)
  <1> DEFINE T == {i \in 0..N : i # 0 => Done(i)}
  <1>6. ASSUME NEW i \in 1..N, i - 1 \in T
        PROVE  i \in T
    <2>1. CASE i = 1
      <3>1. 1 \in 1..N /\ 1..1 = {1}
        BY <1>1
      <3>2. Has(1) = Elems(seqs[1])
        BY <3>1
      <3>3. Done(1)
        BY <1>1, <1>5, <3>1, <3>2
      <3> HIDE DEF Done
      <3> QED
        BY <2>1, <3>3
    <2>2. CASE i # 1
      <3>1. i \in 2..N /\ Done(i - 1)
        BY <1>6, <2>2
      <3>2. flat[i] = flat[i - 1] \o seqs[i] /\ seqs[i] \in Seq(S)
        BY <1>1, <1>5, <3>1
      <3>3. /\ flat[i] \in Seq(S)
            /\ Elems(flat[i]) = Has(i - 1) \cup Elems(seqs[i])
        BY <3>1, <3>2, ElemsOfBoth
      <3>4. 1..i = 1..(i - 1) \cup {i}
        OBVIOUS
      <3>5. Has(i) = Has(i - 1) \cup Elems(seqs[i])
        BY <3>4
      <3>6. Done(i)
        BY <3>3, <3>5
      <3> HIDE DEF Done
      <3> QED
        BY <3>6
    <2> QED
      BY <2>1, <2>2
  <1>7. 0 \in T
    BY <1>1
  <1>8. N \in T
    <2> HIDE DEF T
    <2>1. 0..N \subseteq T
      BY <1>1, <1>6, <1>7, UpTo
    <2> QED
      BY <1>1, <2>1
  <1> QED
    BY <1>1, <1>2, <1>8

-----------------------------------------------------------------------------
(* The walk of findState.                                                  *)

\* A transaction gives a key of a contract a value.
Gives(tx, contract, k) ==
  /\ tx \in Tx
  /\ tx.kind \in {"update", "create"}
  /\ tx.contract = contract
  /\ k \in DOMAIN tx.state

LEMMA StateType ==
  ASSUME NEW s
  PROVE  s \in States <=> DOMAIN s \subseteq Keys /\ s \in [DOMAIN s -> Values]
  BY DEF States

\* A step of the inner loop keeps what has been met, and adds what this
\* transaction gives.
LEMMA MeetsOne ==
  ASSUME NEW tx \in Elements, NEW contract, NEW keys, NEW state \in States
  PROVE  /\ Meet(tx, contract, keys, state) \in States
         /\ \A k : k \in DOMAIN Meet(tx, contract, keys, state) <=>
                     \/ k \in DOMAIN state
                     \/ k \in keys /\ Gives(tx, contract, k)
         /\ \A k \in DOMAIN state :
              Meet(tx, contract, keys, state)[k] = state[k]
         /\ \A k \in keys \ DOMAIN state :
              Gives(tx, contract, k) =>
                Meet(tx, contract, keys, state)[k] = tx.state[k]
  <1> DEFINE hit == IF tx \in Tx /\ tx.kind \in {"update", "create"}
                                 /\ tx.contract = contract
                    THEN DOMAIN tx.state \cap (keys \ DOMAIN state) ELSE {}
  <1> DEFINE m == [k \in hit \cup DOMAIN state |->
                     IF k \in hit THEN tx.state[k] ELSE state[k]]
  <1>1. Meet(tx, contract, keys, state) = m
    BY DEF Meet
  <1>2. \A k : k \in hit <=> k \in keys \ DOMAIN state /\ Gives(tx, contract, k)
    BY DEF Gives
  <1>3. DOMAIN m = hit \cup DOMAIN state
    OBVIOUS
  <1>4. \A k \in hit : m[k] = tx.state[k]
    OBVIOUS
  <1>5. \A k \in DOMAIN state : m[k] = state[k]
    BY <1>2
  <1>6. \A k \in hit : k \in Keys /\ tx.state[k] \in Values
    <2>1. SUFFICES ASSUME NEW k \in hit
                   PROVE  k \in Keys /\ tx.state[k] \in Values
      OBVIOUS
    <2>2. tx.state \in States /\ k \in DOMAIN tx.state
      BY <1>2 DEF Gives, Tx
    <2> QED
      BY <2>2, StateType
  <1>7. \A k \in DOMAIN state : k \in Keys /\ state[k] \in Values
    BY StateType
  <1>8. m \in States
    <2>1. DOMAIN m \subseteq Keys
      BY <1>3, <1>6, <1>7
    <2>2. \A k \in DOMAIN m : m[k] \in Values
      BY <1>3, <1>4, <1>5, <1>6, <1>7
    <2>3. m = [k \in DOMAIN m |-> m[k]]
      OBVIOUS
    <2> HIDE DEF m
    <2>4. m \in [DOMAIN m -> Values]
      BY <2>2, <2>3
    <2> QED
      BY <2>1, <2>4, StateType
  <1> HIDE DEF m, hit
  <1> QED
    BY <1>1, <1>2, <1>3, <1>4, <1>5, <1>8

\* The state after some transactions of a block, when another was known before
\* them: the first of them that gives a key a value gives it this one.
After(m, txs, j, contract, keys, state) ==
  /\ m \in States
  /\ \A k : k \in DOMAIN m <=>
              \/ k \in DOMAIN state
              \/ k \in keys /\ \E i \in 1..j : Gives(txs[i], contract, k)
  /\ \A k \in DOMAIN state : m[k] = state[k]
  /\ \A k \in DOMAIN m \ DOMAIN state :
       \E i \in 1..j : /\ Gives(txs[i], contract, k)
                       /\ m[k] = txs[i].state[k]
                       /\ \A h \in 1..j : Gives(txs[h], contract, k) => i <= h

\* A transaction more.
LEMMA MeetsNext ==
  ASSUME NEW txs \in Seq(Elements), NEW contract, NEW keys,
         NEW state \in States, NEW j \in 1..Len(txs), NEW m,
         After(m, txs, j - 1, contract, keys, state)
  PROVE  After(Meet(txs[j], contract, keys, m), txs, j, contract, keys, state)
  <1>1. txs[j] \in Elements /\ m \in States
    BY DEF After
  <1>2. PICK r : r = Meet(txs[j], contract, keys, m)
    OBVIOUS
  <1>3. r \in States
    BY <1>1, <1>2, MeetsOne
  <1>4. \A k : k \in DOMAIN r <=>
                 k \in DOMAIN m \/ (k \in keys /\ Gives(txs[j], contract, k))
    BY <1>1, <1>2, MeetsOne
  <1>5. \A k \in DOMAIN m : r[k] = m[k]
    BY <1>1, <1>2, MeetsOne
  <1>6. \A k \in keys \ DOMAIN m :
          Gives(txs[j], contract, k) => r[k] = txs[j].state[k]
    BY <1>1, <1>2, MeetsOne
  <1>7. 1..j = 1..(j - 1) \cup {j} /\ \A i \in 1..(j - 1) : i <= j
    OBVIOUS
  <1>8. \A k : k \in DOMAIN r <=>
                 \/ k \in DOMAIN state
                 \/ k \in keys /\ \E i \in 1..j : Gives(txs[i], contract, k)
    BY <1>4, <1>7 DEF After
  <1>9. \A k \in DOMAIN state : r[k] = state[k]
    BY <1>5 DEF After
  <1>10. ASSUME NEW k \in DOMAIN r \ DOMAIN state
         PROVE  \E i \in 1..j :
                  /\ Gives(txs[i], contract, k)
                  /\ r[k] = txs[i].state[k]
                  /\ \A h \in 1..j : Gives(txs[h], contract, k) => i <= h
    <2>1. CASE k \in DOMAIN m
      <3>1. PICK i \in 1..(j - 1) :
              /\ Gives(txs[i], contract, k)
              /\ m[k] = txs[i].state[k]
              /\ \A h \in 1..(j - 1) : Gives(txs[h], contract, k) => i <= h
        BY <1>10, <2>1 DEF After
      <3>2. r[k] = txs[i].state[k]
        BY <1>5, <2>1, <3>1
      <3>3. \A h \in 1..j : Gives(txs[h], contract, k) => i <= h
        BY <1>7, <3>1
      <3> QED
        BY <1>7, <3>1, <3>2, <3>3
    <2>2. CASE k \notin DOMAIN m
      <3>1. k \in keys /\ Gives(txs[j], contract, k)
        BY <1>4, <1>10, <2>2
      <3>2. r[k] = txs[j].state[k]
        BY <1>6, <2>2, <3>1
      <3>3. \A h \in 1..(j - 1) : ~Gives(txs[h], contract, k)
        BY <1>10, <2>2, <3>1 DEF After
      <3> QED
        BY <1>7, <3>1, <3>2, <3>3
    <2> QED
      BY <2>1, <2>2
  <1> QED
    BY <1>2, <1>3, <1>8, <1>9, <1>10 DEF After

\* The inner loop, over a whole block.
LEMMA MeetsBlock ==
  ASSUME NEW txs \in Seq(Elements), NEW contract, NEW keys, NEW state \in States
  PROVE  After(InBlock(txs, contract, keys, state), txs, Len(txs),
               contract, keys, state)
  <1>0. PICK N \in Nat : N = Len(txs)
    OBVIOUS
  <1> DEFINE Is(f) ==
        f = [j \in 0..N |-> IF j = 0 THEN state
                            ELSE Meet(txs[j], contract, keys, f[j - 1])]
  <1> DEFINE met == CHOOSE f : Is(f)
  <1>1. InBlock(txs, contract, keys, state) = met[N]
    BY <1>0 DEF InBlock
  <1>2. \A j \in 1..N : txs[j] \in Elements
    BY <1>0
  <1>3. \E f : Is(f)
    <2> DEFINE step == [p \in (1..N) \X States |->
                          Meet(txs[p[1]], contract, keys, p[2])]
    <2>1. \A j \in 1..N, s \in States :
            Meet(txs[j], contract, keys, s) \in States
      BY <1>2, MeetsOne
    <2>2. step \in [(1..N) \X States -> States]
      BY <2>1
    <2>3. PICK f : Walks(f, N, States, state, step)
      <3> HIDE DEF step
      <3> QED
        BY <2>2, Iterates
    <2>4. f \in [0..N -> States] /\ f[0] = state
      BY <2>3 DEF Walks
    <2>5. ASSUME NEW j \in 0..N
          PROVE  f[j] = IF j = 0 THEN state
                        ELSE Meet(txs[j], contract, keys, f[j - 1])
      <3>1. CASE j = 0
        BY <2>4, <3>1
      <3>2. CASE j # 0
        <4>1. j \in 1..N /\ j - 1 \in 0..N
          BY <3>2
        <4>2. f[j] = step[<<j, f[j - 1]>>] /\ f[j - 1] \in States
          BY <2>3, <2>4, <4>1 DEF Walks
        <4>3. step[<<j, f[j - 1]>>] = Meet(txs[j], contract, keys, f[j - 1])
          BY <4>1, <4>2
        <4> QED
          BY <3>2, <4>2, <4>3
      <3> QED
        BY <3>1, <3>2
    <2>6. Is(f)
      BY <2>4, <2>5
    <2> QED
      BY <2>6
  <1>4. Is(met)
    BY <1>3
  <1> HIDE DEF met
  <1>5. met[0] = state
        /\ \A j \in 1..N : met[j] = Meet(txs[j], contract, keys, met[j - 1])
    <2> DEFINE g ==
          [j \in 0..N |-> IF j = 0 THEN state
                          ELSE Meet(txs[j], contract, keys, met[j - 1])]
    <2>1. met = g
      BY <1>4
    <2>2. g[0] = state
          /\ \A j \in 1..N : g[j] = Meet(txs[j], contract, keys, met[j - 1])
      OBVIOUS
    <2> HIDE DEF g
    <2> QED
      BY <2>1, <2>2
  <1> DEFINE Known(j) == After(met[j], txs, j, contract, keys, state)
  <1> DEFINE T == {j \in 0..N : Known(j)}
  <1>6. 0 \in T
    <2>1. Known(0)
      BY <1>5 DEF After
    <2> HIDE DEF Known
    <2> QED
      BY <2>1
  <1>7. ASSUME NEW j \in 1..N, j - 1 \in T
        PROVE  j \in T
    <2>1. Known(j - 1) /\ j \in 1..Len(txs)
      BY <1>0, <1>7
    <2>2. Known(j)
      BY <1>5, <2>1, MeetsNext
    <2> HIDE DEF Known
    <2> QED
      BY <2>2
  <1>8. N \in T
    <2> HIDE DEF T
    <2>1. 0..N \subseteq T
      BY <1>6, <1>7, UpTo
    <2> QED
      BY <2>1
  <1> QED
    BY <1>0, <1>1, <1>8

LEMMA DataType ==
  ASSUME NEW b \in Block
  PROVE  Data(b) \in Seq(Elements)
  <1>1. CASE b = Genesis
    BY <1>1 DEF Data
  <1>2. CASE b # Genesis
    <2>1. b[Len(b)] \in Content
      BY <1>2, EmptySeq, ElementOfSeq DEF Genesis, Block
    <2> QED
      BY <1>2, <2>1 DEF Data, Content
  <1> QED
    BY <1>1, <1>2

\* The writers of a key, by block and index.
LEMMA GiverWrites ==
  ASSUME NEW chain \in Seq(Block), NEW contract, NEW k,
         NEW b \in 1..Len(chain), NEW j \in 1..Len(Data(chain[b])),
         Gives(Data(chain[b])[j], contract, k)
  PROVE  /\ <<b, j>> \in Writers(chain, contract, k)
         /\ At(chain, <<b, j>>) = Data(chain[b])[j]
  <1>1. Data(chain[b]) \in Seq(Elements)
    BY DataType
  <1>2. <<b, j>> \in Positions(chain)
    BY <1>1 DEF Positions
  <1>3. At(chain, <<b, j>>) = Data(chain[b])[j]
    BY DEF At
  <1> QED
    BY <1>2, <1>3 DEF Writers, Holds, Gives

LEMMA WriterIs ==
  ASSUME NEW chain \in Seq(Block), NEW contract, NEW k
  PROVE  \A p \in Writers(chain, contract, k) :
           /\ p = <<p[1], p[2]>>
           /\ p[1] \in 1..Len(chain)
           /\ p[2] \in 1..Len(Data(chain[p[1]]))
           /\ At(chain, p) = Data(chain[p[1]])[p[2]]
           /\ Gives(At(chain, p), contract, k)
  <1>1. \A b \in 1..Len(chain) : Data(chain[b]) \in Seq(Elements)
    BY DataType
  <1>2. \A b \in 1..Len(chain) : DOMAIN Data(chain[b]) = 1..Len(Data(chain[b]))
    BY <1>1
  <1>4. ASSUME NEW p \in Writers(chain, contract, k)
        PROVE  /\ p = <<p[1], p[2]>>
               /\ p[1] \in 1..Len(chain)
               /\ p[2] \in 1..Len(Data(chain[p[1]]))
               /\ At(chain, p) = Data(chain[p[1]])[p[2]]
               /\ Gives(At(chain, p), contract, k)
    <2>1. /\ p \in Positions(chain)
          /\ Holds(chain, p, {"create", "update"}, contract)
          /\ k \in DOMAIN At(chain, p).state
      BY DEF Writers
    <2>2. PICK b \in 1..Len(chain) :
            \E j \in DOMAIN Data(chain[b]) : p = <<b, j>>
      BY <2>1 DEF Positions
    <2>3. PICK j \in 1..Len(Data(chain[b])) : p = <<b, j>>
      BY <1>2, <2>2
    <2>4. p[1] = b /\ p[2] = j
      BY <2>3
    <2>5. Gives(At(chain, p), contract, k)
      BY <2>1 DEF Holds, Gives
    <2> QED
      BY <2>3, <2>4, <2>5 DEF At
  <1> QED
    BY <1>4

\* The state after so many blocks, from the newest on: a key is met when one of
\* them writes it, with the value of the writer that is met first on the chain.
Seen(m, i, chain, contract, keys) ==
  /\ m \in States
  /\ \A k : k \in DOMAIN m <=>
              /\ k \in keys
              /\ \E p \in Writers(chain, contract, k) : p[1] > Len(chain) - i
  /\ \A k \in DOMAIN m :
       \E p \in Writers(chain, contract, k) :
         /\ m[k] = At(chain, p).state[k]
         /\ \A q \in Writers(chain, contract, k) : MetFirst(p, q)

\* A block more.
LEMMA SeesNext ==
  ASSUME NEW chain \in Seq(Block), NEW contract, NEW keys,
         NEW i \in 1..Len(chain), NEW m, Seen(m, i - 1, chain, contract, keys)
  PROVE  Seen(InBlock(Data(chain[Len(chain) + 1 - i]), contract, keys, m),
              i, chain, contract, keys)
  <1>0. PICK n \in Nat : n = Len(chain)
    OBVIOUS
  <1>1. PICK b \in 1..n : b = n + 1 - i
    BY <1>0
  <1>2. PICK txs \in Seq(Elements) : txs = Data(chain[b])
    BY <1>0, DataType
  <1>3. PICK r : r = InBlock(txs, contract, keys, m)
    OBVIOUS
  <1>4. m \in States
    BY DEF Seen
  <1>5. After(r, txs, Len(txs), contract, keys, m)
    BY <1>2, <1>3, <1>4, MeetsBlock
  <1> DEFINE W(k) == Writers(chain, contract, k)
  <1>6. \A k : \A p \in W(k) :
          p = <<p[1], p[2]>> /\ p[1] \in 1..n /\ p[2] \in Nat
    BY <1>0, WriterIs
  <1>7. \A k : \A p \in W(k) :
          p[1] = b => /\ p[2] \in 1..Len(txs) /\ Gives(txs[p[2]], contract, k)
                      /\ At(chain, p) = txs[p[2]]
    BY <1>2, WriterIs
  <1>8. ASSUME NEW k, NEW j \in 1..Len(txs), Gives(txs[j], contract, k)
        PROVE  <<b, j>> \in W(k) /\ At(chain, <<b, j>>) = txs[j]
    <2>1. b \in 1..Len(chain) /\ j \in 1..Len(Data(chain[b]))
          /\ Gives(Data(chain[b])[j], contract, k)
      BY <1>0, <1>2, <1>8
    <2>2. <<b, j>> \in Writers(chain, contract, k)
          /\ At(chain, <<b, j>>) = Data(chain[b])[j]
      BY <2>1, GiverWrites
    <2> QED
      BY <1>2, <2>2
  <1>9. \A k : k \in DOMAIN m <=> k \in keys /\ \E p \in W(k) : p[1] > b
    BY <1>0, <1>1 DEF Seen
  <1>10. ASSUME NEW k
         PROVE  k \in DOMAIN r <=> k \in keys /\ \E p \in W(k) : p[1] > n - i
    <2>1. \A p \in W(k) : p[1] > n - i <=> p[1] > b \/ p[1] = b
      BY <1>1, <1>6
    <2>2. (\E p \in W(k) : p[1] = b)
            <=> \E j \in 1..Len(txs) : Gives(txs[j], contract, k)
      <3>1. ASSUME NEW p \in W(k), p[1] = b
            PROVE  \E j \in 1..Len(txs) : Gives(txs[j], contract, k)
        BY <1>7, <3>1
      <3>2. ASSUME NEW j \in 1..Len(txs), Gives(txs[j], contract, k)
            PROVE  \E p \in W(k) : p[1] = b
        <4>1. <<b, j>> \in W(k) /\ <<b, j>>[1] = b
          BY <1>8, <3>2
        <4> QED
          BY <4>1
      <3> QED
        BY <3>1, <3>2
    <2>3. k \in DOMAIN r <=>
            \/ k \in DOMAIN m
            \/ k \in keys /\ \E j \in 1..Len(txs) : Gives(txs[j], contract, k)
      BY <1>5 DEF After
    <2> HIDE DEF W
    <2> QED
      BY <1>9, <2>1, <2>2, <2>3
  <1>11. ASSUME NEW k \in DOMAIN r
         PROVE  \E p \in W(k) : /\ r[k] = At(chain, p).state[k]
                                /\ \A q \in W(k) : MetFirst(p, q)
    <2>1. CASE k \in DOMAIN m
      BY <1>5, <2>1 DEF After, Seen
    <2>2. CASE k \notin DOMAIN m
      <3>1. PICK j \in 1..Len(txs) :
              /\ Gives(txs[j], contract, k)
              /\ r[k] = txs[j].state[k]
              /\ \A h \in 1..Len(txs) : Gives(txs[h], contract, k) => j <= h
        BY <1>5, <1>11, <2>2 DEF After
      <3>2. <<b, j>> \in W(k) /\ r[k] = At(chain, <<b, j>>).state[k]
        BY <1>8, <3>1
      <3>3. k \in keys
        BY <1>10
      <3>4. ASSUME NEW q \in W(k)
            PROVE  MetFirst(<<b, j>>, q)
        <4>1. q[1] \in Nat /\ ~(q[1] > b)
          BY <1>6, <1>9, <2>2, <3>3
        <4>2. q[1] = b => j <= q[2]
          BY <1>7, <3>1
        <4> QED
          BY <4>1, <4>2 DEF MetFirst
      <3> HIDE DEF W
      <3> QED
        BY <3>2, <3>4
    <2> QED
      BY <2>1, <2>2
  <1>12. r \in States
    BY <1>5 DEF After
  <1>13. Seen(r, i, chain, contract, keys)
    BY <1>0, <1>10, <1>11, <1>12 DEF Seen
  <1> QED
    BY <1>0, <1>1, <1>2, <1>3, <1>13

\* When all keys are met, the blocks that are left do not matter.
LEMMA SeesNoMore ==
  ASSUME NEW chain \in Seq(Block), NEW contract, NEW keys,
         NEW i \in 1..Len(chain), NEW m, Seen(m, i - 1, chain, contract, keys),
         DOMAIN m = keys
  PROVE  Seen(m, i, chain, contract, keys)
  <1>1. \A k : \A p \in Writers(chain, contract, k) : p[1] \in Nat
    BY WriterIs
  <1>2. Len(chain) \in Nat
    OBVIOUS
  <1>3. \A k \in keys :
          \E p \in Writers(chain, contract, k) : p[1] > Len(chain) - (i - 1)
    BY DEF Seen
  <1>4. \A k \in keys :
          \E p \in Writers(chain, contract, k) : p[1] > Len(chain) - i
    BY <1>1, <1>2, <1>3
  <1> QED
    BY <1>4 DEF Seen

\* A chain has one writer of a key that is met first.
LEMMA OneMetFirst ==
  ASSUME NEW chain \in Seq(Block), NEW contract, NEW k,
         NEW p \in Writers(chain, contract, k),
         \A q \in Writers(chain, contract, k) : MetFirst(p, q)
  PROVE  p = CHOOSE w \in Writers(chain, contract, k) :
               \A q \in Writers(chain, contract, k) : MetFirst(w, q)
  <1> DEFINE W == Writers(chain, contract, k)
  <1>1. PICK w : w = CHOOSE x \in W : \A q \in W : MetFirst(x, q)
    OBVIOUS
  <1>2. w \in W /\ \A q \in W : MetFirst(w, q)
    BY <1>1
  <1>3. MetFirst(p, w) /\ MetFirst(w, p)
    BY <1>2
  <1>4. \A q \in W : q = <<q[1], q[2]>> /\ q[1] \in Nat /\ q[2] \in Nat
    BY WriterIs
  <1>5. p[1] = w[1] /\ p[2] = w[2]
    BY <1>2, <1>3, <1>4 DEF MetFirst
  <1>6. p = w
    BY <1>2, <1>4, <1>5
  <1> QED
    BY <1>1, <1>6

\* The walk of findState ends with the state that its definition gives.
LEMMA WalkIsFindState ==
  ASSUME NEW chain \in Seq(Block), NEW contract, NEW keys \in SUBSET Keys
  PROVE  findState(chain, contract, keys) = FromNewest(chain, contract, keys)
  <1>0. PICK n \in Nat : n = Len(chain)
    OBVIOUS
  <1>1. PICK none : none = [k \in {} |-> k]
    OBVIOUS
  <1>2. none \in States
    <2>1. none \in [{} -> Values]
      BY <1>1
    <2> QED
      BY <2>1 DEF States
  <1> DEFINE Further(i, m) == IF DOMAIN m = keys THEN m
                              ELSE InBlock(Data(chain[n + 1 - i]), contract,
                                           keys, m)
  <1> DEFINE Is(f) ==
        f = [i \in 0..n |-> IF i = 0 THEN none
                            ELSE IF DOMAIN f[i - 1] = keys THEN f[i - 1]
                            ELSE InBlock(Data(chain[n + 1 - i]), contract, keys,
                                         f[i - 1])]
  <1> DEFINE met == CHOOSE f : Is(f)
  <1>3. FromNewest(chain, contract, keys) =
          IF DOMAIN met[n] = keys THEN met[n] ELSE NoState
    BY <1>0, <1>1 DEF FromNewest
  <1>4. \A i \in 1..n : Data(chain[n + 1 - i]) \in Seq(Elements)
    <2>1. ASSUME NEW i \in 1..n
          PROVE  chain[n + 1 - i] \in Block
      <3>1. n + 1 - i \in 1..Len(chain)
        BY <1>0
      <3> QED
        BY <3>1
    <2> QED
      BY <2>1, DataType
  <1>5. \E f : Is(f)
    <2> DEFINE step == [p \in (1..n) \X States |-> Further(p[1], p[2])]
    <2>1. ASSUME NEW i \in 1..n, NEW m \in States
          PROVE  Further(i, m) \in States
      <3>1. PICK txs \in Seq(Elements) : txs = Data(chain[n + 1 - i])
        BY <1>4
      <3>2. InBlock(txs, contract, keys, m) \in States
        BY MeetsBlock DEF After
      <3> QED
        BY <3>1, <3>2
    <2>2. step \in [(1..n) \X States -> States]
      <3> HIDE DEF Further
      <3> QED
        BY <2>1
    <2>3. PICK f : Walks(f, n, States, none, step)
      <3> HIDE DEF step
      <3> QED
        BY <1>2, <2>2, Iterates
    <2>4. f \in [0..n -> States] /\ f[0] = none
      BY <2>3 DEF Walks
    <2>5. ASSUME NEW i \in 0..n
          PROVE  f[i] = IF i = 0 THEN none
                        ELSE IF DOMAIN f[i - 1] = keys THEN f[i - 1]
                        ELSE InBlock(Data(chain[n + 1 - i]), contract, keys,
                                     f[i - 1])
      <3>1. CASE i = 0
        BY <2>4, <3>1
      <3>2. CASE i # 0
        <4>1. i \in 1..n /\ i - 1 \in 0..n
          BY <3>2
        <4>2. f[i] = step[<<i, f[i - 1]>>] /\ f[i - 1] \in States
          BY <2>3, <2>4, <4>1 DEF Walks
        <4>3. step[<<i, f[i - 1]>>] = Further(i, f[i - 1])
          <5> HIDE DEF Further
          <5> QED
            BY <4>1, <4>2
        <4>4. f[i] = Further(i, f[i - 1])
          BY <4>2, <4>3
        <4> QED
          BY <3>2, <4>4
      <3> QED
        BY <3>1, <3>2
    <2>6. Is(f)
      BY <2>4, <2>5
    <2> QED
      BY <2>6
  <1>6. Is(met)
    BY <1>5
  <1> HIDE DEF met
  <1>7. met[0] = none /\ \A i \in 1..n : met[i] = Further(i, met[i - 1])
    <2> DEFINE g == [i \in 0..n |->
                       IF i = 0 THEN none
                       ELSE IF DOMAIN met[i - 1] = keys THEN met[i - 1]
                       ELSE InBlock(Data(chain[n + 1 - i]), contract, keys,
                                    met[i - 1])]
    <2>1. met = g
      BY <1>6
    <2>2. g[0] = none /\ \A i \in 1..n : g[i] = Further(i, met[i - 1])
      OBVIOUS
    <2> HIDE DEF g, Further
    <2> QED
      BY <2>1, <2>2
  <1> DEFINE Done(i) == Seen(met[i], i, chain, contract, keys)
  <1> DEFINE T == {i \in 0..n : Done(i)}
  <1>8. 0 \in T
    <2>1. \A k : \A p \in Writers(chain, contract, k) : ~(p[1] > Len(chain) - 0)
      BY WriterIs
    <2>2. Done(0)
      BY <1>1, <1>2, <1>7, <2>1 DEF Seen
    <2> HIDE DEF Done
    <2> QED
      BY <2>2
  <1>9. ASSUME NEW i \in 1..n, i - 1 \in T
        PROVE  i \in T
    <2>1. Done(i - 1) /\ i \in 1..Len(chain)
      BY <1>0, <1>9
    <2>2. CASE DOMAIN met[i - 1] = keys
      <3>1. met[i] = met[i - 1]
        BY <1>7, <2>2
      <3>2. Done(i)
        BY <2>1, <2>2, <3>1, SeesNoMore
      <3> HIDE DEF Done
      <3> QED
        BY <3>2
    <2>3. CASE DOMAIN met[i - 1] # keys
      <3>1. met[i] = InBlock(Data(chain[n + 1 - i]), contract, keys, met[i - 1])
        BY <1>7, <2>3
      <3>2. Done(i)
        BY <1>0, <2>1, <3>1, SeesNext
      <3> HIDE DEF Done
      <3> QED
        BY <3>2
    <2> QED
      BY <2>2, <2>3
  <1>10. Seen(met[n], n, chain, contract, keys)
    <2>1. n \in T
      <3> HIDE DEF T
      <3>1. 0..n \subseteq T
        BY <1>8, <1>9, UpTo
      <3> QED
        BY <3>1
    <2> QED
      BY <2>1
  <1> DEFINE W(k) == Writers(chain, contract, k)
  <1>11. \A k : k \in DOMAIN met[n] <=> k \in keys /\ W(k) # {}
    <2>1. \A k : \A p \in W(k) : p[1] > Len(chain) - n
      BY <1>0, WriterIs
    <2> QED
      BY <1>10, <2>1 DEF Seen
  <1>12. CASE \E k \in keys : W(k) = {}
    <2>1. DOMAIN met[n] # keys
      BY <1>11, <1>12
    <2> QED
      BY <1>3, <1>12, <2>1 DEF findState
  <1>13. CASE \A k \in keys : W(k) # {}
    <2> DEFINE first(k) == CHOOSE p \in W(k) : \A q \in W(k) : MetFirst(p, q)
    <2>1. DOMAIN met[n] = keys
      BY <1>11, <1>13
    <2>2. ASSUME NEW k \in keys
          PROVE  met[n][k] = At(chain, first(k)).state[k]
      <3>1. PICK p \in W(k) : /\ met[n][k] = At(chain, p).state[k]
                              /\ \A q \in W(k) : MetFirst(p, q)
        BY <1>10, <2>1 DEF Seen
      <3>2. p = first(k)
        BY <3>1, OneMetFirst
      <3> QED
        BY <3>1, <3>2
    <2>3. met[n] \in [keys -> Values]
      BY <1>10, <2>1, StateType DEF Seen
    <2>4. met[n] = [k \in keys |-> At(chain, first(k)).state[k]]
      <3> HIDE DEF first
      <3> QED
        BY <2>2, <2>3
    <2>5. findState(chain, contract, keys) =
            [k \in keys |-> At(chain, first(k)).state[k]]
      BY <1>13 DEF findState
    <2> QED
      BY <1>3, <2>1, <2>4, <2>5
  <1> QED
    BY <1>12, <1>13

\* Of the creations of a contract, findContract returns the one that is first
\* on the chain.
LEMMA FindsFirst ==
  ASSUME NEW chain \in Seq(Block), NEW contract,
         NEW p \in Creations(chain, contract),
         \A q \in Creations(chain, contract) : Precedes(p, q)
  PROVE  findContract(chain, contract) = At(chain, p)
  <1> DEFINE C == Creations(chain, contract)
  <1>1. PICK w : w = CHOOSE x \in C : \A q \in C : Precedes(x, q)
    OBVIOUS
  <1>2. w \in C /\ \A q \in C : Precedes(w, q)
    BY <1>1
  <1>3. Precedes(p, w) /\ Precedes(w, p)
    BY <1>2
  <1>4. \A q \in C : q = <<q[1], q[2]>> /\ q[1] \in Nat /\ q[2] \in Nat
    BY PositionsType DEF Creations
  <1>5. p[1] = w[1] /\ p[2] = w[2]
    BY <1>2, <1>3, <1>4 DEF Precedes
  <1>6. p = w
    BY <1>2, <1>4, <1>5
  <1>7. C # {}
    OBVIOUS
  <1> QED
    BY <1>1, <1>6, <1>7 DEF findContract

LEMMA HasFirst ==
  ASSUME NEW chain \in Seq(Block), NEW contract, Creations(chain, contract) # {}
  PROVE  \E p \in Creations(chain, contract) :
           /\ findContract(chain, contract) = At(chain, p)
           /\ \A q \in Creations(chain, contract) : Precedes(p, q)
  <1>1. Creations(chain, contract) \subseteq Positions(chain)
    BY DEF Creations
  <1>2. PICK p \in Creations(chain, contract) :
          \A q \in Creations(chain, contract) : Precedes(p, q)
    BY <1>1, FirstPosition
  <1> QED
    BY <1>2, FindsFirst

-----------------------------------------------------------------------------
(* The chains that are mined.                                              *)

\* The blocks are linked, and all but the genesis block are this node's.
IInv ==
  /\ blocks \in Seq(Block)
  /\ blocks # <<>>
  /\ Linked(blocks)
  /\ \A i \in 2..Len(blocks) : blocks[i][Len(blocks[i])].miner = Self

\* A block that is mined belongs on the chain, and holds what its batch returns.
LEMMA MinedBlock ==
  ASSUME NEW chain \in Seq(Block), chain # <<>>, Linked(chain),
         NEW batch \in Batches
  PROVE  /\ Mined(chain, batch) \in Block
         /\ Follows(Mined(chain, batch), chain[Len(chain)])
         /\ blockNumber(Mined(chain, batch)) = Len(chain)
         /\ Mined(chain, batch)[Len(Mined(chain, batch))].miner = Self
         /\ Elems(Data(Mined(chain, batch))) =
              UNION {Elems(exec(chain, batch[i], 0)) : i \in DOMAIN batch}
  <1> DEFINE seqs == [i \in DOMAIN batch |-> exec(chain, batch[i], 0)]
  <1> DEFINE c == [target |-> Target, chain |-> chain]
  <1>1. chain \in Seq(Block) /\ chain # <<>> /\ Linked(chain)
    OBVIOUS
  <1>2. PICK n \in 1..BatchSize : batch \in [1..n -> Submissions]
    BY DEF Batches
  <1>3. n \in Nat \ {0} /\ DOMAIN batch = 1..n /\ Submissions \subseteq Tx
    BY <1>2, ContractsAssumption
  <1>4. \A i \in 1..n : exec(chain, batch[i], 0) \in Seq(Elements)
    <2>1. ASSUME NEW i \in 1..n
          PROVE  batch[i] \in Tx
      BY <1>2, <1>3
    <2> QED
      BY <1>1, <2>1, ExecType
  <1>5. /\ seqs \in Seq(Seq(Elements)) /\ seqs # <<>> /\ DOMAIN seqs = 1..n
        /\ \A i \in 1..n : seqs[i] = exec(chain, batch[i], 0)
    <2>1. seqs \in [1..n -> Seq(Elements)]
      BY <1>3, <1>4
    <2>2. seqs \in Seq(Seq(Elements)) /\ Len(seqs) = n
      <3> HIDE DEF seqs
      <3> QED
        BY <1>3, <2>1
    <2>3. seqs # <<>>
      <3> HIDE DEF seqs
      <3> QED
        BY <1>3, <2>2
    <2> QED
      BY <1>3, <2>2, <2>3
  <1>6. PICK data \in Seq(Elements) :
          data = FlattenSeq(seqs)
          /\ Elems(data) = UNION {Elems(seqs[i]) : i \in DOMAIN seqs}
    <2> HIDE DEF seqs
    <2> QED
      BY <1>5, ElemsOfAll
  <1>7. Elems(data) =
          UNION {Elems(exec(chain, batch[i], 0)) : i \in DOMAIN batch}
    BY <1>3, <1>5, <1>6
  <1>8. c \in Chain /\ ~IsEmpty(c) /\ c.chain = chain
    BY <1>1, ContractsAssumption DEF Chain, IsEmpty
  <1>9. Mined(chain, batch) = mine_block(c, data, Self)
    BY <1>6 DEF Mined
  <1>10. mine_block(c, data, Self) \in Block
         /\ block_belongs(c, mine_block(c, data, Self))
    <2>1. Self \in Miners
      BY ContractsAssumption
    <2> HIDE DEF c
    <2> QED
      BY <1>8, <2>1, MineBlock
  <1> DEFINE content == [miner |-> Self, work |-> Target, data |-> data]
  <1>11. Mined(chain, batch) = Append(chain[Len(chain)], content)
    BY <1>9 DEF mine_block, Newest
  <1>12. Follows(Mined(chain, batch), chain[Len(chain)])
    BY <1>8, <1>9, <1>10 DEF block_belongs, Newest
  <1>13. /\ chain[Len(chain)] \in Block
         /\ blockNumber(chain[Len(chain)]) = Len(chain) - 1
    <2>1. Len(chain) \in 1..Len(chain)
      BY <1>1, EmptySeq
    <2> QED
      BY <1>1, <2>1 DEF Linked
  <1>14. blockNumber(Mined(chain, batch)) = Len(chain)
    BY <1>1, <1>9, <1>10, <1>12, <1>13, FollowsNumber
  <1>15. /\ Mined(chain, batch)[Len(Mined(chain, batch))] = content
         /\ Mined(chain, batch) # Genesis
    <2>1. PICK h : h = chain[Len(chain)]
      OBVIOUS
    <2>2. h \in Seq(Content) /\ Len(h) \in Nat
      BY <1>13, <2>1 DEF Block
    <2>3. content \in Content
      BY ContractsAssumption DEF Content
    <2>4. /\ Len(Append(h, content)) = Len(h) + 1
          /\ Append(h, content)[Len(h) + 1] = content
      <3> HIDE DEF content
      <3> QED
        BY <2>2, <2>3, AppendProperties
    <2>5. Append(h, content) # <<>>
      <3> HIDE DEF content
      <3> QED
        BY <2>2, <2>3, AppendProperties
    <2> QED
      BY <1>11, <2>1, <2>4, <2>5 DEF Genesis
  <1>16. Data(Mined(chain, batch)) = data
    BY <1>15 DEF Data
  <1> QED
    BY <1>7, <1>9, <1>10, <1>12, <1>14, <1>15, <1>16

\* The invariant holds from the start and is kept by every round.
THEOREM MinesOneChain == Spec => []IInv
  <1>1. Init => IInv
    <2>1. SUFFICES ASSUME Init
                   PROVE  IInv
      OBVIOUS
    <2>2. blocks = <<Genesis>> /\ Genesis \in Block
      BY <2>1 DEF Init, Genesis, Block
    <2>3. blocks \in Seq(Block) /\ Len(blocks) = 1 /\ blocks[1] = <<>>
      BY <2>2 DEF Genesis
    <2>4. Linked(blocks)
      BY <2>3 DEF Linked, blockNumber
    <2> QED
      BY <2>3, <2>4 DEF IInv
  <1>2. IInv /\ [Next]_blocks => IInv'
    <2>1. SUFFICES ASSUME IInv, [Next]_blocks
                   PROVE  IInv'
      OBVIOUS
    <2>2. CASE UNCHANGED blocks
      BY <2>1, <2>2 DEF IInv
    <2>3. CASE Next
      <3>1. PICK batch \in Batches :
              blocks' = Append(blocks, Mined(blocks, batch))
        BY <2>3 DEF Next
      <3>2. PICK b : b = Mined(blocks, batch)
        OBVIOUS
      <3>3. /\ b \in Block
            /\ Follows(b, blocks[Len(blocks)])
            /\ b[Len(b)].miner = Self
        BY <2>1, <3>2, MinedBlock DEF IInv
      <3>4. blocks' = Append(blocks, b)
        BY <3>1, <3>2
      <3>5. blocks \in Seq(Block) /\ blocks # <<>> /\ Linked(blocks)
        BY <2>1 DEF IInv
      <3>6. blocks' \in Seq(Block) /\ blocks' # <<>>
        BY <3>3, <3>4, <3>5, AppendProperties
      <3>7. Linked(blocks')
        <4> DEFINE c == [target |-> Target, chain |-> blocks]
        <4>1. c \in Chain /\ ~IsEmpty(c) /\ c.chain = blocks
          BY <3>5, ContractsAssumption DEF Chain, IsEmpty
        <4>2. Newest(c) = blocks[Len(blocks)]
          BY DEF Newest
        <4>3. add_block(c, b).chain = Append(blocks, b)
          BY DEF add_block
        <4>4. Linked(add_block(c, b).chain)
          <5> HIDE DEF c
          <5> QED
            BY <3>3, <3>5, <4>1, <4>2, AddBlockLinked
        <4> QED
          BY <3>4, <4>3, <4>4
      <3>8. ASSUME NEW i \in 2..Len(blocks')
            PROVE  blocks'[i][Len(blocks'[i])].miner = Self
        <4>1. Len(blocks') = Len(blocks) + 1 /\ Len(blocks) \in Nat
              /\ blocks'[Len(blocks) + 1] = b
              /\ \A j \in 1..Len(blocks) : blocks'[j] = blocks[j]
          BY <3>3, <3>4, <3>5, AppendProperties
        <4>2. CASE i = Len(blocks) + 1
          BY <3>3, <4>1, <4>2
        <4>3. CASE i # Len(blocks) + 1
          <5>1. i \in 2..Len(blocks) /\ blocks'[i] = blocks[i]
            BY <4>1, <4>3
          <5> QED
            BY <2>1, <5>1 DEF IInv
        <4> QED
          BY <4>2, <4>3
      <3> QED
        BY <3>6, <3>7, <3>8 DEF IInv
    <2> QED
      BY <2>1, <2>2, <2>3
  <1> QED
    BY <1>1, <1>2, PTL DEF Spec

\* The walk that findState takes returns, on every part of every chain, for any
\* keys of any contract, the value that the writer met first gives each key;
\* findContract returns a creation that no other precedes.
THEOREM LooksUpAsDefined == Spec => []LookupsAsLooped
  <1>1. IInv => LookupsAsLooped
    <2>1. SUFFICES
            ASSUME IInv, NEW contract \in ContractIds
            PROVE  /\ \A n \in 1..Len(blocks), keys \in (SUBSET Keys) \ {{}} :
                        findState(Before(blocks, n), contract, keys) =
                          FromNewest(Before(blocks, n), contract, keys)
                   /\ \A p \in Creations(blocks, contract) :
                        \E q \in Creations(blocks, contract) :
                          /\ At(blocks, q) = findContract(blocks, contract)
                          /\ Precedes(q, p)
      BY DEF LookupsAsLooped
    <2>2. blocks \in Seq(Block)
      BY <2>1 DEF IInv
    <2>3. ASSUME NEW n \in 1..Len(blocks), NEW keys \in (SUBSET Keys) \ {{}}
          PROVE  findState(Before(blocks, n), contract, keys) =
                   FromNewest(Before(blocks, n), contract, keys)
      <3>1. PICK part : part = Before(blocks, n)
        OBVIOUS
      <3>2. part \in Seq(Block)
        BY <2>2, <3>1 DEF Before
      <3>3. keys \in SUBSET Keys
        OBVIOUS
      <3> QED
        BY <3>1, <3>2, <3>3, WalkIsFindState
    <2>4. ASSUME NEW p \in Creations(blocks, contract)
          PROVE  \E q \in Creations(blocks, contract) :
                   /\ At(blocks, q) = findContract(blocks, contract)
                   /\ Precedes(q, p)
      BY <2>2, <2>4, HasFirst
    <2> QED
      BY <2>3, <2>4
  <1> QED
    BY <1>1, MinesOneChain, PTL

-----------------------------------------------------------------------------
(* exec against validate.                                                  *)

\* The number of a block that is mined on a chain cuts nothing off it.
LEMMA SameOutcome ==
  ASSUME NEW chain \in Seq(Block), NEW tx
  PROVE  Outcome(chain, tx, Len(chain)) = Outcome(chain, tx, 0)
  <1>1. Before(chain, Len(chain)) = chain
    <2>1. SubSeq(chain, 1, Len(chain)) = chain
      OBVIOUS
    <2> QED
      BY <2>1 DEF Before
  <1>2. Before(chain, 0) = chain
    BY DEF Before
  <1> QED
    BY <1>1, <1>2 DEF Outcome

LEMMA BatchType ==
  ASSUME NEW batch \in Batches, NEW i \in DOMAIN batch
  PROVE  batch[i] \in Tx
  <1>1. PICK n \in 1..BatchSize : batch \in [1..n -> Submissions]
    BY DEF Batches
  <1> QED
    BY <1>1, ContractsAssumption

\* What exec returns: the transaction, and what its invocation computes.
LEMMA ElemsOfExec ==
  ASSUME NEW chain \in Seq(Block), NEW tx \in Tx
  PROVE  /\ tx.kind # "invoke" => Elems(exec(chain, tx, 0)) = {tx}
         /\ tx.kind = "invoke" /\ findContract(chain, tx.contract) = NoTx =>
              Elems(exec(chain, tx, 0)) = {NoTx}
         /\ tx.kind = "invoke" /\ findContract(chain, tx.contract) # NoTx =>
              /\ Outcome(chain, tx, 0) = Raised =>
                   Elems(exec(chain, tx, 0)) = {tx}
              /\ Outcome(chain, tx, 0) # Raised =>
                   /\ Elems(exec(chain, tx, 0)) =
                        {tx} \cup Elems(Outcome(chain, tx, 0))
                   /\ Elems(Outcome(chain, tx, 0)) \subseteq Tx
  <1>1. ASSUME NEW x
        PROVE  Elems(<<x>>) = {x}
    <2>1. DOMAIN <<x>> = {1} /\ <<x>>[1] = x
      OBVIOUS
    <2> QED
      BY <2>1 DEF Elems
  <1>2. CASE tx.kind # "invoke"
    BY <1>1, <1>2 DEF exec
  <1>3. CASE tx.kind = "invoke" /\ findContract(chain, tx.contract) = NoTx
    BY <1>1, <1>3 DEF exec
  <1>4. CASE tx.kind = "invoke" /\ findContract(chain, tx.contract) # NoTx
    <2>1. CASE Outcome(chain, tx, 0) = Raised
      BY <1>1, <1>4, <2>1 DEF exec
    <2>2. CASE Outcome(chain, tx, 0) # Raised
      <3>1. PICK out \in Seq(Tx) : out = Outcome(chain, tx, 0)
        BY <2>2, OutcomeType
      <3>2. exec(chain, tx, 0) = <<tx>> \o out
        BY <1>4, <2>2, <3>1 DEF exec
      <3>3. PICK one \in Seq(Tx) : one = <<tx>>
        <4>1. <<tx>> \in Seq(Tx)
          OBVIOUS
        <4> QED
          BY <4>1, Zenon
      <3>4. Elems(one \o out) = Elems(one) \cup Elems(out)
        BY ElemsOfBoth
      <3>5. Elems(out) \subseteq Tx
        BY DEF Elems
      <3> QED
        BY <1>1, <1>4, <2>2, <3>1, <3>2, <3>3, <3>4, <3>5
    <2> QED
      BY <2>1, <2>2
  <1> QED
    BY <1>2, <1>3, <1>4

\* For any deterministic contract code, a block mined from a batch that is
\* signed and does not fail is valid on the chain on which it was executed.
THEOREM ExecutesWhatIsValid == Spec => []ExecutedIsValid
  <1>1. IInv => ExecutedIsValid
    <2>1. SUFFICES
            ASSUME IInv, NEW batch \in Batches,
                   \A i \in DOMAIN batch : ~Fails(batch[i]) /\ Sound(batch[i]),
                   NEW tx \in Elems(Data(Mined(blocks, batch))) \ {NoTx}
            PROVE  validate(blocks, tx, Mined(blocks, batch))
      BY DEF ExecutedIsValid, transactionsValid
    <2> DEFINE all == Elems(Data(Mined(blocks, batch)))
    <2>2. blocks \in Seq(Block)
      BY <2>1 DEF IInv
    <2>3. /\ blockNumber(Mined(blocks, batch)) = Len(blocks)
          /\ all = UNION {Elems(exec(blocks, batch[i], 0)) : i \in DOMAIN batch}
      BY <2>1, MinedBlock DEF IInv
    <2>4. ASSUME NEW i \in DOMAIN batch, batch[i].kind = "invoke"
          PROVE  /\ findContract(blocks, batch[i].contract) # NoTx
                 /\ Outcome(blocks, batch[i], 0) # Raised
      BY <2>1, <2>4 DEF Fails
    <2>5. ASSUME NEW i \in DOMAIN batch
          PROVE  /\ batch[i] \in Tx
                 /\ batch[i].kind # "invoke" =>
                      Elems(exec(blocks, batch[i], 0)) = {batch[i]}
                 /\ batch[i].kind = "invoke" =>
                      /\ Elems(exec(blocks, batch[i], 0)) =
                           {batch[i]} \cup Elems(Outcome(blocks, batch[i], 0))
                      /\ Elems(Outcome(blocks, batch[i], 0)) \subseteq Tx
      BY <2>2, <2>4, BatchType, ElemsOfExec
    <2>6. all \subseteq Tx /\ NoTx \notin all
      <3>1. \A i \in DOMAIN batch :
              Elems(exec(blocks, batch[i], 0)) \subseteq Tx
        BY <2>5
      <3> QED
        BY <2>3, <3>1, NoTxAssumption
    <2>7. PICK i \in DOMAIN batch : tx \in Elems(exec(blocks, batch[i], 0))
      BY <2>1, <2>3
    <2>8. Sound(batch[i])
      BY <2>1
    <2>9. CASE batch[i].kind # "invoke"
      <3>1. tx = batch[i] /\ tx.signed
        BY <2>5, <2>7, <2>8, <2>9 DEF Sound
      <3> QED
        BY <2>9, <3>1 DEF validate
    <2>10. CASE batch[i].kind = "invoke" /\ tx = batch[i]
      <3>1. tx.signed /\ findContract(blocks, tx.contract) # NoTx
            /\ Outcome(blocks, tx, 0) # Raised
        BY <2>4, <2>8, <2>10 DEF Sound
      <3>2. Outcome(blocks, tx, blockNumber(Mined(blocks, batch))) =
              Outcome(blocks, tx, 0)
        BY <2>2, <2>3, SameOutcome
      <3>3. Elems(Outcome(blocks, tx, 0)) \subseteq all
        BY <2>3, <2>5, <2>10
      <3>4. invocationValid(blocks, tx, Mined(blocks, batch))
        BY <2>6, <3>1, <3>2, <3>3 DEF invocationValid
      <3> QED
        BY <2>10, <3>1, <3>4 DEF validate
    <2>11. CASE batch[i].kind = "invoke" /\ tx # batch[i]
      <3>1. tx \in Elems(Outcome(blocks, batch[i], 0))
        BY <2>5, <2>7, <2>11
      <3>2. tx.kind = "update" \/ (tx.kind # "invoke" /\ tx.signed)
        BY <2>8, <2>11, <3>1 DEF Sound
      <3> QED
        BY <3>2 DEF validate
    <2> QED
      BY <2>9, <2>10, <2>11
  <1> QED
    BY <1>1, MinesOneChain, PTL

\* For any deterministic contract code, a block that holds an invocation, from a
\* batch of which an invocation fails, is invalid.
THEOREM FailuresPoison == Spec => []FailurePoisons
  <1>1. IInv => FailurePoisons
    <2>1. SUFFICES ASSUME IInv, NEW batch \in Batches,
                          \E i \in DOMAIN batch : Fails(batch[i]),
                          NEW tx \in Elems(Data(Mined(blocks, batch))) \ {NoTx},
                          tx.kind = "invoke",
                          transactionsValid(blocks, Mined(blocks, batch))
                   PROVE  FALSE
      BY DEF FailurePoisons
    <2> DEFINE all == Elems(Data(Mined(blocks, batch)))
    <2>2. blocks \in Seq(Block)
      BY <2>1 DEF IInv
    <2>3. /\ blockNumber(Mined(blocks, batch)) = Len(blocks)
          /\ all = UNION {Elems(exec(blocks, batch[i], 0)) : i \in DOMAIN batch}
      BY <2>1, MinedBlock DEF IInv
    <2>4. \A t \in all \ {NoTx} :
            t.kind = "invoke" =>
              invocationValid(blocks, t, Mined(blocks, batch))
      BY <2>1 DEF transactionsValid, validate
    <2>5. NoTx \notin all
      BY <2>1, <2>4 DEF invocationValid
    <2>6. PICK i \in DOMAIN batch : Fails(batch[i])
      BY <2>1
    <2>7. batch[i] \in Tx /\ batch[i].kind = "invoke"
      BY <2>6, BatchType DEF Fails
    <2>8. findContract(blocks, batch[i].contract) # NoTx
      <3>1. SUFFICES ASSUME findContract(blocks, batch[i].contract) = NoTx
                     PROVE  FALSE
        OBVIOUS
      <3>2. NoTx \in Elems(exec(blocks, batch[i], 0))
        BY <2>2, <2>7, <3>1, ElemsOfExec
      <3> QED
        BY <2>3, <2>5, <3>2
    <2>9. Outcome(blocks, batch[i], 0) = Raised
      BY <2>6, <2>8 DEF Fails
    <2>10. batch[i] \in Elems(exec(blocks, batch[i], 0))
      BY <2>2, <2>7, <2>8, <2>9, ElemsOfExec
    <2>11. batch[i] \in all \ {NoTx}
      BY <2>3, <2>5, <2>10
    <2>12. invocationValid(blocks, batch[i], Mined(blocks, batch))
      BY <2>4, <2>7, <2>11
    <2>13. Outcome(blocks, batch[i], Len(blocks)) # Raised
      BY <2>3, <2>12 DEF invocationValid
    <2> QED
      BY <2>2, <2>9, <2>13, SameOutcome
  <1> QED
    BY <1>1, MinesOneChain, PTL

-----------------------------------------------------------------------------
(* Chains that grow.                                                       *)

\* The first blocks of a chain.
LEMMA FirstBlocks ==
  ASSUME NEW longer \in Seq(Block), NEW n \in 1..Len(longer)
  PROVE  /\ SubSeq(longer, 1, n) \in Seq(Block)
         /\ Len(SubSeq(longer, 1, n)) = n
         /\ n \in Nat /\ Len(longer) \in Nat /\ n <= Len(longer)
         /\ \A i \in 1..n : SubSeq(longer, 1, n)[i] = longer[i]
  OBVIOUS

\* A contract that has been found on a chain is found on a longer one.
LEMMA SameContract ==
  ASSUME NEW longer \in Seq(Block), NEW n \in 1..Len(longer), NEW contract,
         findContract(SubSeq(longer, 1, n), contract) # NoTx
  PROVE  findContract(longer, contract) =
           findContract(SubSeq(longer, 1, n), contract)
  <1>1. PICK chain \in Seq(Block) : chain = SubSeq(longer, 1, n)
    BY FirstBlocks
  <1>2. /\ Len(chain) \in Nat /\ Len(longer) \in Nat /\ Len(chain) <= Len(longer)
        /\ DOMAIN chain = 1..Len(chain) /\ DOMAIN longer = 1..Len(longer)
        /\ \A i \in 1..Len(chain) : longer[i] = chain[i]
    BY <1>1, FirstBlocks
  <1>3. Creations(chain, contract) # {}
    BY <1>1 DEF findContract
  <1>4. PICK p \in Creations(chain, contract) :
          /\ findContract(chain, contract) = At(chain, p)
          /\ \A q \in Creations(chain, contract) : Precedes(p, q)
    BY <1>3, HasFirst
  <1>5. \A q \in Creations(chain, contract) :
          q[1] \in 1..Len(chain) /\ q = <<q[1], q[2]>>
    BY PositionsType DEF Creations
  <1>6. \A q : q[1] \in 1..Len(chain) => At(longer, q) = At(chain, q)
    BY <1>2 DEF At
  <1>7. \A q : q[1] \in 1..Len(chain) =>
                 (q \in Positions(longer) <=> q \in Positions(chain))
    <2>1. ASSUME NEW q, q[1] \in 1..Len(chain), q \in Positions(longer)
          PROVE  q \in Positions(chain)
      <3>1. PICK i \in 1..Len(longer) :
              \E j \in DOMAIN Data(longer[i]) : q = <<i, j>>
        BY <1>2, <2>1 DEF Positions
      <3>2. i = q[1]
        BY <3>1
      <3> QED
        BY <1>2, <2>1, <3>1, <3>2 DEF Positions
    <2>2. ASSUME NEW q, q[1] \in 1..Len(chain), q \in Positions(chain)
          PROVE  q \in Positions(longer)
      <3>1. PICK i \in 1..Len(chain) :
              \E j \in DOMAIN Data(chain[i]) : q = <<i, j>>
        BY <1>2, <2>2 DEF Positions
      <3>2. i \in 1..Len(longer) /\ longer[i] = chain[i]
        BY <1>2
      <3> QED
        BY <1>2, <3>1, <3>2 DEF Positions
    <2> QED
      BY <2>1, <2>2
  <1>8. \A q : q[1] \in 1..Len(chain) =>
                 (q \in Creations(longer, contract)
                    <=> q \in Creations(chain, contract))
    BY <1>6, <1>7 DEF Creations, Holds
  <1>9. p \in Creations(longer, contract) /\ At(longer, p) = At(chain, p)
    BY <1>5, <1>6, <1>8
  <1>10. ASSUME NEW q \in Creations(longer, contract)
         PROVE  Precedes(p, q)
    <2>1. q[1] \in 1..Len(longer) /\ p[1] \in 1..Len(chain)
      BY <1>1, <1>5, PositionsType DEF Creations
    <2>2. CASE q[1] \in 1..Len(chain)
      BY <1>4, <1>8, <2>2
    <2>3. CASE q[1] \notin 1..Len(chain)
      BY <1>2, <2>1, <2>3 DEF Precedes
    <2> QED
      BY <2>2, <2>3
  <1> QED
    BY <1>1, <1>4, <1>9, <1>10, FindsFirst

\* The state that an invocation is given is a state, or none.
LEMMA GivenState ==
  ASSUME NEW chain \in Seq(Block), NEW contract,
         findContract(chain, contract) # NoTx,
         NEW part \in Seq(Block)
  PROVE  LET keys == DOMAIN findContract(chain, contract).state
         IN  (IF keys = {} THEN NoState ELSE findState(part, contract, keys))
               \in States \cup {NoState}
  <1>1. PICK create \in Creates : create = findContract(chain, contract)
    BY FindContractType
  <1>2. DOMAIN create.state \in SUBSET Keys
    <2>1. create.state \in States
      BY DEF Creates, Tx
    <2> QED
      BY <2>1, StateType
  <1>3. findState(part, contract, DOMAIN create.state) \in States \cup {NoState}
    BY <1>2, FindStateType
  <1> QED
    BY <1>1, <1>3

\* What a block number of the shorter chain cuts off is the same for both.
LEMMA SameBefore ==
  ASSUME NEW longer \in Seq(Block), NEW n \in 1..Len(longer), NEW k \in 1..n
  PROVE  /\ Before(longer, k) = Before(SubSeq(longer, 1, n), k)
         /\ Before(longer, k) \in Seq(Block)
  <1>1. PICK chain \in Seq(Block) : chain = SubSeq(longer, 1, n)
    BY FirstBlocks
  <1>2. /\ Len(chain) = n /\ n \in Nat /\ Len(longer) \in Nat /\ n <= Len(longer)
        /\ \A i \in 1..n : chain[i] = longer[i]
    BY <1>1, FirstBlocks
  <1>3. SubSeq(longer, 1, k) = SubSeq(chain, 1, k)
    BY <1>2
  <1>4. SubSeq(longer, 1, k) \in Seq(Block)
    BY <1>2
  <1>5. k # 0 /\ ~(k > Len(chain)) /\ ~(k > Len(longer))
    BY <1>2
  <1> QED
    BY <1>1, <1>3, <1>4, <1>5 DEF Before

\* Whatever is valid on a chain at a number of it is valid when it has grown,
\* if the code that it invokes computes the same on both chains.
LEMMA StaysValid ==
  ASSUME NEW longer \in Seq(Block), NEW n \in 1..Len(longer), NEW x,
         blockNumber(x) \in 1..n, transactionsValid(SubSeq(longer, 1, n), x),
         \A tx \in Elems(Data(x)) \ {NoTx} : tx.kind = "invoke" =>
           \A state \in States \cup {NoState} :
             Run(SubSeq(longer, 1, n),
                 findContract(SubSeq(longer, 1, n), tx.contract), state, tx) =
             Run(longer,
                 findContract(SubSeq(longer, 1, n), tx.contract), state, tx)
  PROVE  transactionsValid(longer, x)
  <1>1. PICK chain \in Seq(Block) : chain = SubSeq(longer, 1, n)
    BY FirstBlocks
  <1>2. PICK k \in 1..n : k = blockNumber(x)
    OBVIOUS
  <1>3. Before(longer, k) = Before(chain, k) /\ Before(chain, k) \in Seq(Block)
    BY <1>1, SameBefore
  <1>4. SUFFICES ASSUME NEW tx \in Elems(Data(x)) \ {NoTx}
                 PROVE  validate(longer, tx, x)
    BY <1>1 DEF transactionsValid
  <1>5. validate(chain, tx, x)
    BY <1>1, <1>4 DEF transactionsValid
  <1>6. CASE tx.kind = "invoke"
    <2>1. tx.signed /\ invocationValid(chain, tx, x)
      BY <1>5, <1>6 DEF validate
    <2>2. findContract(chain, tx.contract) # NoTx
      BY <2>1 DEF invocationValid
    <2>3. findContract(longer, tx.contract) = findContract(chain, tx.contract)
      BY <1>1, <2>2, SameContract
    <2>4. Outcome(longer, tx, k) = Outcome(chain, tx, k)
      <3> DEFINE create == findContract(chain, tx.contract)
      <3> DEFINE keys   == DOMAIN create.state
      <3>1. PICK state : state =
              IF keys = {} THEN NoState
              ELSE findState(Before(chain, k), tx.contract, keys)
        OBVIOUS
      <3>2. state \in States \cup {NoState}
        BY <1>3, <2>2, <3>1, GivenState
      <3>3. Run(chain, create, state, tx) = Run(longer, create, state, tx)
        BY <1>1, <1>4, <1>6, <3>2
      <3> QED
        BY <1>3, <2>3, <3>1, <3>3 DEF Outcome
    <2>5. invocationValid(longer, tx, x)
      BY <1>2, <2>1, <2>3, <2>4 DEF invocationValid
    <2> QED
      BY <1>6, <2>1, <2>5 DEF validate
  <1>7. CASE tx.kind # "invoke"
    BY <1>5, <1>7 DEF validate
  <1> QED
    BY <1>6, <1>7

\* For any deterministic contract code, a block that is valid on the chain it
\* was mined on is valid on every longer chain that starts the same, unless code
\* that it invokes computes something else because the chain is longer.
THEOREM StaysValidAsItGrows == Spec => []ValidityLasts
  <1>1. IInv => ValidityLasts
    <2>1. SUFFICES
            ASSUME IInv, NEW n \in DOMAIN blocks, NEW batch \in Batches,
                   transactionsValid(SubSeq(blocks, 1, n),
                                     Mined(SubSeq(blocks, 1, n), batch)),
                   \A tx \in Elems(Data(Mined(SubSeq(blocks, 1, n), batch)))
                               \ {NoTx} :
                     tx.kind = "invoke" => ReadsNoFurther(tx, n)
            PROVE  transactionsValid(blocks, Mined(SubSeq(blocks, 1, n), batch))
      BY DEF ValidityLasts
    <2>2. blocks \in Seq(Block) /\ Linked(blocks) /\ n \in 1..Len(blocks)
      BY <2>1 DEF IInv
    <2>3. PICK part \in Seq(Block) : part = SubSeq(blocks, 1, n)
      BY <2>2, FirstBlocks
    <2>4. part # <<>> /\ Len(part) = n /\ Linked(part)
      BY <2>2, <2>3, FirstBlocks DEF Linked
    <2>5. PICK b : b = Mined(part, batch)
      OBVIOUS
    <2>6. blockNumber(b) = n /\ n \in 1..n
      BY <2>2, <2>4, <2>5, MinedBlock
    <2>7. ASSUME NEW tx \in Elems(Data(b)) \ {NoTx}, tx.kind = "invoke",
                 NEW state \in States \cup {NoState}
          PROVE  Run(part, findContract(part, tx.contract), state, tx) =
                   Run(blocks, findContract(part, tx.contract), state, tx)
      <3>1. ReadsNoFurther(tx, n)
        BY <2>1, <2>3, <2>5, <2>7
      <3> QED
        BY <2>3, <3>1 DEF ReadsNoFurther
    <2>8. transactionsValid(part, b)
      BY <2>1, <2>3, <2>5
    <2>9. transactionsValid(blocks, b)
      BY <2>2, <2>3, <2>6, <2>7, <2>8, StaysValid
    <2> QED
      BY <2>3, <2>5, <2>9
  <1> QED
    BY <1>1, MinesOneChain, PTL

-----------------------------------------------------------------------------
(* The chain that loses.                                                   *)

\* The common block is the last one that the chains share.
LEMMA CommonBlock ==
  ASSUME NEW main \in Seq(Block), NEW fork \in Seq(Block),
         NEW n \in 1..Len(fork), n <= Len(main), main[n] = fork[n],
         \A i \in 1..Len(fork) : i > n /\ i <= Len(main) => main[i] # fork[i]
  PROVE  findCommonBlock(main, fork) = n - 1
  <1> DEFINE S == {i \in DOMAIN fork : i \in DOMAIN main /\ main[i] = fork[i]}
  <1>1. n \in S /\ \A i \in S : i \in Nat /\ i <= n
    OBVIOUS
  <1>2. Max(S) = n
    BY <1>1 DEF Max
  <1> QED
    BY <1>2 DEF findCommonBlock

\* The list of transactions from an index on.
LEMMA ListFrom ==
  ASSUME NEW chain \in Seq(Block), NEW n \in 2..Len(chain), NEW x
  PROVE  x \in getListOfTransactionsInChain(chain, n - 1) <=>
           x # NoTx /\ \E i \in n..Len(chain) : x \in Elems(Data(chain[i]))
  <1>1. n - 1 # 0 /\ (n - 1) + 1 = n
    OBVIOUS
  <1> QED
    BY <1>1 DEF getListOfTransactionsInChain

\* The chain that leaves this one, and where it does.
LEMMA DepartedChain ==
  ASSUME IInv, NEW n \in 2..Len(blocks), NEW length \in Nat,
         length >= Len(blocks), NEW batch \in Batches
  PROVE  /\ Departed(n, length, batch) \in Seq(Block)
         /\ Len(Departed(n, length, batch)) = length
         /\ \A i \in 1..n : Departed(n, length, batch)[i] = blocks[i]
         /\ \A i \in 1..Len(blocks) :
              i > n => Departed(n, length, batch)[i] # blocks[i]
  <1> DEFINE content == [miner |-> Rival, work |-> Target, data |-> batch]
  <1> DEFINE rest(i) == [j \in 1..(i - n) |-> content]
  <1> DEFINE main == [i \in 1..length |->
                        IF i <= n THEN blocks[i] ELSE blocks[n] \o rest(i)]
  <1>1. blocks \in Seq(Block) /\ Len(blocks) \in Nat /\ n \in 1..Len(blocks)
        /\ n \in 1..length
    BY DEF IInv
  <1>2. batch \in Seq(Elements)
    <2>1. PICK k \in 1..BatchSize : batch \in [1..k -> Submissions]
      BY DEF Batches
    <2>2. k \in Nat /\ batch \in [1..k -> Elements]
      BY <2>1, ContractsAssumption DEF Elements
    <2> QED
      BY <2>2
  <1>3. content \in Content
    BY <1>2, ContractsAssumption DEF Content
  <1>4. blocks[n] \in Seq(Content)
    BY <1>1 DEF Block
  <1>5. ASSUME NEW i \in 1..length, i > n
        PROVE  /\ blocks[n] \o rest(i) \in Seq(Content)
               /\ (blocks[n] \o rest(i))[Len(blocks[n] \o rest(i))] = content
    <2>1. i - n \in Nat /\ i - n >= 1
      BY <1>5
    <2>2. rest(i) \in Seq(Content) /\ Len(rest(i)) = i - n
          /\ rest(i)[i - n] = content
      <3> HIDE DEF content
      <3>1. rest(i) \in [1..(i - n) -> Content]
        BY <1>3
      <3>2. i - n \in 1..(i - n)
        BY <2>1
      <3>3. rest(i)[i - n] = content
        BY <3>2
      <3> HIDE DEF rest
      <3> QED
        BY <2>1, <3>1, <3>3
    <2>3. PICK h \in Seq(Content) : h = blocks[n]
      BY <1>4
    <2>4. PICK r \in Seq(Content) : r = rest(i)
      BY <2>2
    <2>5. PICK d \in Nat \ {0} : d = i - n
      BY <2>1
    <2>6. Len(r) = d /\ r[d] = content /\ d \in 1..Len(r)
      <3> HIDE DEF content, rest
      <3> QED
        BY <2>2, <2>4, <2>5
    <2> HIDE DEF content, rest
    <2>7. /\ h \o r \in Seq(Content) /\ Len(h \o r) = Len(h) + Len(r)
          /\ \A j \in 1..Len(r) : (h \o r)[Len(h) + j] = r[j]
      BY ConcatProperties
    <2>8. (h \o r)[Len(h \o r)] = content
      BY <2>6, <2>7
    <2> QED
      BY <2>3, <2>4, <2>7, <2>8
  <1>6. \A i \in 1..n : i \in 1..length /\ main[i] = blocks[i]
    BY <1>1
  <1>7. \A i \in 1..length : i > n => main[i] = blocks[n] \o rest(i)
    BY <1>1
  <1>8. main \in Seq(Block) /\ Len(main) = length
    <2>1. ASSUME NEW i \in 1..length
          PROVE  main[i] \in Block
      <3>1. CASE i <= n
        BY <1>1, <1>6, <3>1
      <3>2. CASE i > n
        <4> HIDE DEF rest
        <4> QED
          BY <1>5, <1>7, <3>2 DEF Block
      <3> QED
        BY <1>1, <3>1, <3>2
    <2>2. main \in [1..length -> Block]
      <3>1. main = [i \in 1..length |-> main[i]]
        OBVIOUS
      <3> HIDE DEF main
      <3> QED
        BY <2>1, <3>1
    <2> HIDE DEF main
    <2> QED
      BY <2>2
  <1>9. ASSUME NEW i \in 1..Len(blocks), i > n
        PROVE  main[i] # blocks[i]
    <2>1. i \in 2..Len(blocks) /\ i \in 1..length
      BY <1>1, <1>9
    <2>2. blocks[i][Len(blocks[i])].miner = Self
      BY <2>1 DEF IInv
    <2>3. main[i][Len(main[i])] = content
      <3> HIDE DEF content, rest, main
      <3> QED
        BY <1>5, <1>7, <1>9, <2>1
    <2>4. main[i][Len(main[i])].miner = Rival
      <3>1. content.miner = Rival
        OBVIOUS
      <3> HIDE DEF main, content
      <3> QED
        BY <2>3, <3>1
    <2> HIDE DEF main
    <2> QED
      BY <2>2, <2>4, ContractsAssumption
  <1>10. Departed(n, length, batch) = main
    BY DEF Departed
  <1> HIDE DEF main
  <1> QED
    BY <1>6, <1>8, <1>9, <1>10

\* Nothing of a fork that is dropped is lost, if it left the main chain after
\* the genesis block, whatever the two chains carry.
THEOREM LosesNothing == Spec => []NothingIsLost
  <1> DEFINE On(chain) == UNION {Elems(Data(chain[i])) : i \in DOMAIN chain}
  <1>1. IInv => NothingIsLost
    <2>1. SUFFICES
            ASSUME IInv, NEW n \in 2..Len(blocks),
                   NEW length \in Len(blocks)..(Len(blocks) + ReleaseAfter),
                   NEW batch \in Batches, NEW copies \in BOOLEAN
            PROVE  LET main == Departed(n, length, batch)
                       released == releaseTransactions(main,
                                     <<blocks, SubSeq(blocks, 1, n)>>, copies)
                       inPool == UNION Range(released.pool)
                   IN  IF released.secondaryChains = <<>>
                       THEN /\ On(blocks) \ {NoTx} \subseteq
                                 On(main) \cup inPool
                            /\ ~copies =>
                                 inPool \cap On(SubSeq(main, n, Len(main))) = {}
                       ELSE inPool = {}
      BY DEF NothingIsLost
    <2>2. PICK main : main = Departed(n, length, batch)
      OBVIOUS
    <2>3. PICK forks : forks = <<blocks, SubSeq(blocks, 1, n)>>
      OBVIOUS
    <2>4. PICK released : released = releaseTransactions(main, forks, copies)
      OBVIOUS
    <2>5. SUFFICES
            IF released.secondaryChains = <<>>
            THEN /\ On(blocks) \ {NoTx} \subseteq
                      On(main) \cup UNION Range(released.pool)
                 /\ ~copies => (UNION Range(released.pool))
                                 \cap On(SubSeq(main, n, Len(main))) = {}
            ELSE UNION Range(released.pool) = {}
      <3> HIDE DEF On
      <3> QED
        BY <2>2, <2>3, <2>4
    <2>6. blocks \in Seq(Block) /\ Len(blocks) \in Nat
      BY <2>1 DEF IInv
    <2>7. length \in Nat /\ length >= Len(blocks)
      BY <2>6
    <2>8. /\ main \in Seq(Block) /\ Len(main) = length
          /\ \A i \in 1..n : main[i] = blocks[i]
          /\ \A i \in 1..Len(blocks) : i > n => main[i] # blocks[i]
      <3>1. Departed(n, length, batch) \in Seq(Block)
            /\ Len(Departed(n, length, batch)) = length
        BY <2>1, <2>7, DepartedChain
      <3>2. \A i \in 1..n : Departed(n, length, batch)[i] = blocks[i]
        BY <2>1, <2>7, DepartedChain
      <3>3. \A i \in 1..Len(blocks) :
              i > n => Departed(n, length, batch)[i] # blocks[i]
        BY <2>1, <2>7, DepartedChain
      <3> QED
        BY <2>2, <3>1, <3>2, <3>3
    <2>9. PICK stub \in Seq(Block) :
            /\ stub = SubSeq(blocks, 1, n) /\ Len(stub) = n
            /\ \A i \in 1..n : stub[i] = blocks[i]
      <3> DEFINE s == SubSeq(blocks, 1, n)
      <3>1. n \in 1..Len(blocks)
        BY <2>6
      <3>2. s \in Seq(Block) /\ Len(s) = n /\ \A i \in 1..n : s[i] = blocks[i]
        BY <2>6, <3>1
      <3> QED
        BY <3>2
    <2>10. DOMAIN forks = {1, 2} /\ forks[1] = blocks /\ forks[2] = stub
      BY <2>3, <2>9
    <2>11. findCommonBlock(main, blocks) = n - 1
      <3>1. n \in 1..Len(blocks) /\ n <= Len(main) /\ main[n] = blocks[n]
        BY <2>6, <2>7, <2>8
      <3>2. \A i \in 1..Len(blocks) :
              i > n /\ i <= Len(main) => main[i] # blocks[i]
        BY <2>8
      <3> QED
        BY <2>6, <2>8, <3>1, <3>2, CommonBlock
    <2>12. findCommonBlock(main, stub) = n - 1
      <3>1. n \in 1..Len(stub) /\ n <= Len(main) /\ main[n] = stub[n]
        BY <2>6, <2>7, <2>8, <2>9
      <3>2. \A i \in 1..Len(stub) : i > n /\ i <= Len(main) => main[i] # stub[i]
        BY <2>6, <2>9
      <3> QED
        BY <2>8, <3>1, <3>2, CommonBlock
    <2>13. CASE DefinitelyAhead(main, forks)
      <3>1. PICK pool :
              pool = [i \in {1, 2} |-> toRelease(main, forks[i], copies)]
        OBVIOUS
      <3>2. released.secondaryChains = <<>> /\ released.pool = pool
        BY <2>4, <2>10, <2>13, <3>1 DEF releaseTransactions
      <3>3. Range(pool) = {toRelease(main, blocks, copies),
                           toRelease(main, stub, copies)}
        BY <2>10, <3>1 DEF Range
      <3> DEFINE List(chain) == getListOfTransactionsInChain(chain, n - 1)
      <3>4. /\ toRelease(main, blocks, copies) =
                 IF copies THEN List(blocks) ELSE List(blocks) \ List(main)
            /\ toRelease(main, stub, copies) =
                 IF copies THEN List(stub) ELSE List(stub) \ List(main)
        BY <2>11, <2>12 DEF toRelease
      <3>5. n \in 2..Len(main) /\ n \in 2..Len(blocks) /\ n \in 2..Len(stub)
        BY <2>6, <2>7, <2>8, <2>9
      <3>6. ASSUME NEW x \in On(blocks) \ {NoTx}, x \notin On(main)
            PROVE  x \in UNION Range(pool)
        <4>1. PICK i \in 1..Len(blocks) : x \in Elems(Data(blocks[i]))
          BY <2>6, <3>6
        <4>2. i > n
          <5>1. SUFFICES ASSUME i \in 1..n
                         PROVE  FALSE
            BY <2>6
          <5>2. i \in DOMAIN main /\ main[i] = blocks[i]
            BY <2>7, <2>8, <3>5, <5>1
          <5> QED
            BY <3>6, <4>1, <5>2
        <4>3. x \in List(blocks)
          <5>1. i \in n..Len(blocks)
            BY <4>2
          <5> QED
            BY <2>6, <3>5, <3>6, <4>1, <5>1, ListFrom
        <4>4. x \notin List(main)
          <5>1. \A j \in n..Len(main) : j \in DOMAIN main
            BY <2>8, <3>5
          <5> QED
            BY <2>8, <3>5, <3>6, <5>1, ListFrom
        <4> HIDE DEF List
        <4>5. x \in toRelease(main, blocks, copies)
          BY <3>4, <4>3, <4>4
        <4> QED
          BY <3>3, <4>5
      <3>7. ASSUME ~copies, NEW x \in UNION Range(pool),
                   x \in On(SubSeq(main, n, Len(main)))
            PROVE  FALSE
        <4>1. x \in List(blocks) \cup List(stub) /\ x \notin List(main)
          <5> HIDE DEF List
          <5> QED
            BY <3>3, <3>4, <3>7
        <4>2. x # NoTx
          BY <2>6, <2>9, <3>5, <4>1, ListFrom
        <4>3. PICK s \in Seq(Block) :
                /\ s = SubSeq(main, n, Len(main)) /\ Len(s) = Len(main) + 1 - n
                /\ \A j \in 1..Len(s) : s[j] = main[n + j - 1]
          <5> DEFINE t == SubSeq(main, n, Len(main))
          <5>1. n \in 1..Len(main) /\ Len(main) \in Nat
            BY <2>8, <3>5
          <5>2. t \in Seq(Block) /\ Len(t) = Len(main) + 1 - n
            BY <2>8, <5>1
          <5>3. \A j \in 1..Len(t) : t[j] = main[n + j - 1]
            BY <2>8, <5>1
          <5> QED
            BY <5>2, <5>3
        <4>4. PICK j \in 1..Len(s) : x \in Elems(Data(s[j]))
          BY <3>7, <4>3
        <4>5. n + j - 1 \in n..Len(main) /\ x \in Elems(Data(main[n + j - 1]))
          BY <2>8, <3>5, <4>3, <4>4
        <4>6. x \in List(main)
          BY <2>8, <3>5, <4>2, <4>5, ListFrom
        <4> QED
          BY <4>1, <4>6
      <3> HIDE DEF On
      <3>8. On(blocks) \ {NoTx} \subseteq On(main) \cup UNION Range(pool)
        BY <3>6
      <3>9. ~copies =>
              (UNION Range(pool)) \cap On(SubSeq(main, n, Len(main))) = {}
        BY <3>7
      <3> QED
        BY <3>2, <3>8, <3>9
    <2>14. CASE ~DefinitelyAhead(main, forks)
      <3>1. /\ released.secondaryChains = forks
            /\ released.pool = [i \in DOMAIN forks |-> {}]
        BY <2>4, <2>14 DEF releaseTransactions
      <3>2. forks # <<>>
        BY <2>3
      <3>3. UNION Range(released.pool) = {}
        BY <3>1 DEF Range
      <3> QED
        BY <3>1, <3>2, <3>3
    <2> QED
      BY <2>13, <2>14
  <1> QED
    BY <1>1, MinesOneChain, PTL

=============================================================================
